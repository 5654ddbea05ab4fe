# A formal model of lib-CppFCPLib

lib-CppFCPLib is a C++ client library for Freenet's FCP protocol. A program
creates a `Node`; its operations may be called from any number of threads. The
`Node` owns one *manager thread* (`NodeThread`) that holds the only socket.
Clients hand it requests through a queue and get the node's answers back in a
*job ticket* (`JobTicket`), a small object with three mutexes. The hard part of
the library is there: who holds which mutex when, how an answer finds its
ticket, and what everybody sees when the manager ends.

This directory models that part, the reading and writing of the connection,
the life of a `Node`, and the operations that take several requests, in TLA+, checks
it with TLC on small instances, and proves with TLAPS, for any number of clients, requests and
messages, the ticket protocol, the order of the requests and the map of jobs, the routing of
every answer to its request, what an interrupt leaves of the manager, and that the bytes of
the connection are messages.

## 1. Inventory

| Component (source) | State | Operations | Talks to |
|---|---|---|---|
| Job ticket (`JobTicket.h/.cpp`) | mutexes `access`, `lock`, `reqSentLock`; `nodeResponse`, `_isFinished` | `init`, `wait`, `waitTillReqSent`, `getResponse`, `isFinished`, `putResponse`, `putResult` | clients (wait, read), manager (put), `Node` (failure flags) |
| Manager thread (`NodeThread.h/.cpp`) | map `jobs` by (global, identifier), pending interrupt | `run`, `sendClientReq`, `doMessage` | queue, socket, tickets, `Node` flags |
| Node messages (`ServerMessage.h/.cpp`) | one message | `factory`, `isError`, `isLast(job)` | manager, ticket (a `GetJob`'s stream) |
| Client operations (`Node.h/.cpp`) | `isAlive_`, `hasException_`, the reason | about thirty operations, `shutdown`, constructor, destructor | queue, tickets |
| Request queue (`TQueue.h`) | a `std::deque`, mutex, condition | `put`, `get`, `empty` | clients, manager |
| Connection (`Server.h/.cpp`) | socket, a read buffer | `send`, `readln`, `read`, `dataAvailable` | manager |
| Client messages (`Message.h/.cpp`) | field map, data stream | `setField`, `toSocket` | operations, manager |
| Responses (`FCPResult.h`) | copies of messages | converters, getters | operations |
| Base64 (`Base64.h/.cpp`) | - | `base64Encode`, `base64Decode` | peer notes, `putDisk` |
| SHA-256 (`sha256.h/.cc`) | blocks, a buffer, a bit count | `init`, `write`, `final` | `putDisk` |
| Log, exceptions, constants, examples | - | output | - |

What makes each of them correct, and what is hard about it:

- **Job ticket.** A client that has waited may read: the vector is not empty
  and, after a wait for the end, ends with the message that ended the job.
  Mutexes used as latches are acquired by one thread and released by another.
  A dead manager must end every wait, and `getFailure` must never find a dead
  node without a reason. *Hard:* interleavings inside a wait, an interrupt
  between two calls of the manager, two flags set in two critical sections.
- **Manager thread.** Each message reaches the ticket of the request it answers;
  requests are sent in order, each once; a finished job leaves the map.
  *Hard:* shared identifiers, tickets given up by their waiters, answers to
  requests nobody made here (the global queue), every way the loop may end.
- **Node messages.** `isLast` must end every conversation exactly where the
  node ends it, for the kind of ticket that is there. *Hard:* the verdict
  depends on the command, on one code, and on the class of the ticket.
- **Client operations.** An operation returns the whole answer to its own
  request or throws; none waits for ever for a manager that has gone. *Hard:*
  timeouts that race late answers; retries under a used identifier.
- **The life of a `Node`.** Who holds one was greeted by the node; who gives
  one up has told its manager to end. *Hard:* the interrupt is noticed at
  some points of the manager's loop and answered differently at each; the
  destructor does not wait for it.
- **Operations of several requests.** A test of direct disk access leaves no
  file behind and its verdict is about the file that follows; a fallback does not
  run beside what it replaces. *Hard:* each step may time out, be answered by
  a late or foreign message, or lose its manager.
- **Codings.** What goes in comes back; a hash is that of the bytes read,
  wherever writes and blocks end.
- **Queue.** First in, first out, nothing lost. **Connection.** Messages come
  out of the buffer whole, however the bytes arrive; `dataAvailable` counts
  what is already buffered.

`PROJECT.json` lists every hazard with its line and the properties about it.

## 2. Modules

| Module | Models | Role |
|---|---|---|
| `Ticket` | - | abstract ticket: a log that grows to its last message, two facts a client may learn, snapshots |
| `JobTicket` | `JobTicket.h/.cpp`, the loop and handlers of `NodeThread::run`, the failure flags of `Node` | one ticket, one manager, any clients, a step per mutex operation |
| `JobTicketProofs` | - | the theorems about `JobTicket` |
| `NodeThreadProofs`, `RoutingProofs` | - | the theorems about `NodeThread`: the `isLast` policies, queue, map and refinement; routing |
| `NodeLifeProofs` | - | the theorems about `NodeLife`, on top of those about routing |
| `NodeOperationsProofs` | - | the theorems about `NodeOperations`, on top of those about `NodeLife` and the codings |
| `CodingProofs` | - | encoder and decoder of notes of any length; the buffering of SHA-256 for writes of any length |
| `ServerStreamProofs` | - | the theorems about `ServerStream` |
| `Recursion` | - | induction over the numbers and the existence of recursive functions, for the proofs |
| `ServerMessage` | `ServerMessage.h/.cpp` | header tables, `isError`, the `isLast` policies |
| `NodeCommands` | the requests of `Node.cpp` and, external, the node's answers | data for `NodeThread` |
| `NodeThread` | `NodeThread.cpp`, `TQueue::put`, the wait/read/check pattern of `Node.cpp` | all tickets, the map, the queue, the connection |
| `MessageStream` | - | abstract connection: whole messages, in order |
| `ServerStream` | `Server.cpp`, the reading in `ServerMessage.cpp`, `toSocket` in `Message.cpp` | the connection as bytes, read through one shared buffer |
| `NodeLife` | constructor, `shutdown`, destructor of `Node.cpp`, the interrupt in `NodeThread::run`, `Server`'s constructor | `NodeThread` with an owner and an end |
| `NodeOperations` | `testDDA`, the puts and gets, peer notes, `removePersistentRequest`, `modifyPersistentRequest` of `Node.cpp`; the getters and converters of `FCPResult.h` | operations as steps between the requests of `NodeThread` |
| `Base64`, `Sha256` | `Base64.cpp`; `sha256.cc` without the compression | pure operators for `NodeOperations` |
| `MCJobTicket`, `MCNodeThread`, `MCServerStream`, `MCNodeLife`, `MCNodeOperations` | - | instances for TLC |

`NodeThread` extends `NodeCommands`, which extends `ServerMessage`. `JobTicket`
and `NodeThread` both instantiate `Ticket`: the first shows that the mutex
protocol implements it, the second that routing does, for every ticket. They are two
magnifications of one system. `JobTicket` follows a single ticket through
every mutex operation, with an unspecified stream of other traffic around it.
`NodeThread` follows all tickets with `doMessage` and `sendClientReq` as
single steps, which the manager being the only user of the map and the first
module together justify: in both, a client sees the same abstract `Ticket`.
`NodeLife` extends `NodeThread`, and `NodeOperations` extends `NodeLife`, `Base64`
and `Sha256`: they compose, each action of the upper module being made of an action of
the lower one and its own part. `ServerStream` is the layer below: it shows that the byte stream gives the manager
whole messages in order, `MessageStream`, which is what `NodeThread` takes its
`inbox` for.

### JobTicket and the code

- `access`, `lock`, `reqSentLock`, `nodeResponse`, `isFinished` are the
  members of `JobTicket`. The first is a `ZThread::Mutex` and has an owner;
  the other two are `FastMutex` objects used as latches and have none (`init`
  acquires them on a client thread and the manager releases them).
- `cpc[c]` is where client `c` stands in a call. `try` is `tryAcquire`,
  `alive` the `isAlive` call and the deadline test in the body of the loop,
  `failure` and `reason` the `hasFailure` and `getFailure` calls that follow a
  dead node (three separate critical sections of the code), `unlock` the point
  between `lock.acquire` and `lock.release`, `access` and `read` the guard of
  `getResponse` and `isFinished`. `expired[c]` is the outcome of comparing
  the elapsed time with the timeout; `Expire` may come at any moment.
- `mpc` is where the manager stands: `top` the loop's condition, which
  consumes an interrupt; `poll` the test for and reading of a message;
  `respond` ... `leave` the two guarded calls of `doMessage`; `queue` and
  `send` the request queue and `sendClientReq`; `sleep`; `interrupted`,
  `failed`, `setFailure` the handlers; `stopped`.
- `Interrupt` is `Node::shutdown` or the destructor on another thread.
  `ThrowInterrupted` covers the blocking points at which ZThread delivers it.
  `ThrowError` covers the socket and the factory.

### NodeThread and the code

- `attr[j]` is what the code reads of ticket `j`: its command, its place in
  the map (`global`, identifier), whether it is a `GetJob`, its return type and
  stream. The map key `""` is the one every plain command shares.
- `Call` is an operation up to `clientReqQueue->put`; `WaitOver`,
  `GetResponse`, `GiveUp` are its wait, its `getResponse` with
  `checkProtocolError`, and the exceptions of the wait.
- `DoMessage` is the factory and `doMessage`: not found (dropped, or a ticket
  made for the global queue), `isLast`, `putResponse`, `putResult`, erase.
  A verdict of `throws` or `crashes` ends the manager or the process.
- `SendClientReq` registers the ticket over whatever is under its key, then
  sends or fails.
- `NodeAnswers` is the node, external: to each request it says one of the
  conversations in `NodeCommands!Answers`, commands without an identifier in
  turn, others interleaved at will, and `IdentifierCollision` for an
  identifier in use.
- `clashed` is a history variable: the keys under which a job was sent while
  the map still held another. The code has nothing but the identifier to tell
  conversations apart, so routing is claimed for keys that did not clash; the
  runs include the clashes, and two findings are about them.

### ServerStream and the code

- `wire`, `available`, `response` are the bytes on their way, in the socket, and in
  `Server::response`. `Arrive` moves any number of bytes, so the network
  cuts the stream anywhere. A byte is a pair; the text of a line is one byte,
  because no property tells its characters apart, the line end another.
- `Missing`, `ReadSome`, `ReadFails` are `read_until` and `read_some`, which
  block, fill the buffer beyond what is needed, and throw at the end of the
  connection. `ReadHeader` is the factory, `ReadField` a round of the loop of
  `read`, `CopyNext` and `CopyBlock` the loop of `AllDataMessage::isLast`.
- `SendHead`, `SendBlock`, `SendDone`, `SendFails` are `toSocket` of both
  message classes. A request is what `toSocket` uses of it: the announced
  length and what the stream really holds.
- `derailed` is a history variable: an `AllData` message came whose job is
  not in the map, so that its body was left on the connection. The run `commands`
  shows that the node's ordinary conversations do not lead there; the claims
  about reading are made for the stream up to that point.
- `Close` may happen in the middle of a message. Between two messages the code
  does not notice it (`available()` is then 0): no property says otherwise,
  and `EveryMessageArrives` excludes a closed connection.

### NodeLife and the code

- `Construct`, `ConstructorEnds`, `ShutdownBegins`, `ShutdownEnds`, `Destroy` are
  the two halves of the constructor and of `shutdown`, and the destructor. Their requests
  and waits are `Call`, `WaitOver`, `GetResponse`, `GiveUp` of `NodeThread`.
  One client, `Owner`, does these things; the others may use the object
  meanwhile.
- `pending` is the manager's interrupt. `NodeThread`'s `mgr = "poll"` stands for
  the stretch from `sleep` (`NodeThread.cpp:49`) over the loop's condition to the
  message, `"queue"` for the rest. `InterruptThrown` is a blocking call that throws,
  `InterruptSeen` the loop's condition that consumes it (finding 2). A manager that
  reaches `sleep` with an interrupt does not get past it: `Slept` makes it
  `"due"`.
- `late` and `dangling` are history variables: what the manager has handled since
  it was interrupted, and whether its handler has used the object after its end.
- `ConnectRefused` ends the program: `NodeThread`'s constructor is `throw()`.

### NodeOperations and the code

- `run[c]` holds the local variables of client `c`'s operation and where it
  stands: in a request (`test`, `respond`, `put`, `sent`, `note`), between two
  requests (`request`), in `putDisk`'s hash (`open`, `hash`), or in the wait of
  `removePersistentRequest` (`remove`, `removed`). A request and its wait are
  those of `NodeThread`, so an operation may find another command's answer in its ticket.
- `arg[j]` and `answer[j]` are the fields of a request and of its answer that the operations or the
  node read. A test file, and what is in it, is known by the number of its `TestDDARequest`.
  `files` says of each whether a client has `written` it, or `left` it because its `remove` failed
  (`RemoveFile`; the code logs that and goes on, `Node.cpp:395,419`).
- The node (`Verdicts`, `LatestTest`) is external: it allows at most what the client has shown
  it for the directory it asked for last, and only in a directory where both see the same files
  (`Shared`).
- `taken` are the tickets whose `reqSentLock` a `removePersistentRequest` has taken;
  the put that still waits for it is then locked out (finding 1).
- Undefined behaviour: `getDisk` without a return, or a `putDisk` whose hash has overrun its
  context, may crash the program (`UndefinedCrashes`) or not; the getters of `TestDDAReplyResponse`, which return a reference
  to a dead local, may give a name that does not open or a string that throws. That the
  name silently is that of another file is left out.

### Base64 and Sha256 and the code

The loops of `Base64.cpp` write each place of their result once and are functions of the
place; both tables are kept as they are, with their different last two
characters. `Sha256` keeps the blocks that were given to
`SHA256_transform` in place of their digest: two inputs with the same blocks have the same
digest, and the blocks show every byte skipped, repeated or misplaced. 
A `word32` is an `unsigned long`, of four bytes on some platforms and of eight on the usual ones
(`WordSizes`), and the code is written for four. With eight, the 64 bytes that
`SHA256_transform` copies set half of `W` (`Schedule` shows the rest as `Unset`); the counters wrap at
2^64 (`Limit`), while the shift and the carry of `CountBits` stay as they are; `SHA256_final` copies 8
bytes from the address of `hbits`, which are `hbits` alone (`LengthField`); and on a little-endian machine
the conversion of a block steps over 64 bytes behind `M` (`Overruns`), after which what the
program does is undefined. What is shown of the hash is therefore shown of builds with
four bytes, and of the others that it fails.

## 3. Runs

| Run | Cfg | Shows |
|---|---|---|
| `ticket` | `MCJobTicket` | `ReadableAfterWait`, `LockDiscipline`, `GetFailureSafe`, `FinishedIsFinal`, the inductive invariant `IInv`, and `TicketImplemented` (the mutex protocol implements `Ticket`), over all interleavings of two clients, manager, interrupts and errors (1.1 million states) |
| `ticket_live` | `MCJobTicketLive` | `BoundedCallsReturn`, `WaitReturns` |
| `routing` | `MCRouting` | `ExactReplies`, `MapExact`, `SendOrder`, `OwnAnswer` with clashing identifiers and timeouts (0.9 million states) |
| `commands` | `MCCommands` | `ManagerSurvives`, `OwnAnswer`, `TicketsImplemented` for every pair of requests of the library, every answer, and a foreign global put |
| `routing_live` | `MCRoutingLive` | `QueuedIsSent`, `OperationsReturn`, also when the socket fails |
| `stream` | `MCServerStream` | `BytesConserved`, `FailsForCause`, `WholeMessages`, `MessagesAreWhole` (the byte stream implements `MessageStream`), `EveryMessageArrives` |
| `operations` | `MCNodeOperations` | over the life of a `Node`: `BuiltAfterHello`, `ShutdownEndsManager`, `OrphansEnd`, `OneIterationLeft`; of its operations: `TestFilesRemoved`, `DiskIsShared`, `FallbackForCause`; of the codings: `HashIsOfFile` (words of four bytes), `NotesComeBack` (0.5 million states) |
| `ticket_false_timeout` | `MCJobTicketTimeout` | finding 1 |
| `ticket_silent_stop` | `MCJobTicketStopped` | finding 2 |
| `list_peers_error` | `MCListPeers` | finding 3 |
| `global_queue` | `MCGlobalQueue` | finding 4 |
| `object_outlived` | `MCObjectOutlived` | finding 5 |

Each property of a passing run has a mutant in `PROJECT.json`: a plausible
bug in a modelled operation under which TLC refutes it.

**Bounds.** `ticket`: two clients, because every claim relates the
manager with one client or two clients with each other (two waiters in front
of one latch); two messages, so that there is a first one which is not the last;
two calls per client, so that a fact learnt by the first call is used by the
second, and a second timed wait is made. The proofs remove these three bounds.
`routing`: three requests, so that one lies in the queue while one is outstanding
and a third has taken the place of another under its key. `commands`: two requests of one
client reach every pair of commands, so every ticket under every key
meets every answer. `routing_live`: one request for each way of waiting and of
being answered. `stream`: two messages, so that the buffer holds a part of the second, or all of
it, while the first is read; a body of a block and a half, made of bytes that look
like lines, and an empty one; a chunk longer than two small messages; one request, as
long as announced or too short. The code's 512 and 1024 bytes become
`ChunkSize` 12 and `BlockSize` 2: only their relation to the lengths of messages
and bodies matters. `operations`: five requests, enough for the hello, a test of two requests, a put and its
fallback, or for the hello and two tests that cross; each client starts one operation.
`Together` (a constraint) keeps two kinds of pairs, a test beside a test and a removal beside a
persistent put, and every operation beside a shutdown or alone; `OneTimeout`
keeps at most one timeout of a request, none after the manager has failed, and none in `putDisk` with
a `FileHash`. A block of 4 bytes with one place for the length, counters that wrap at 64 in words of four bytes, salts of 1 to 9 bytes and a file read
in blocks of 6 reach every position in a block, a padding with and without a further
block, and the carry, and with words of eight bytes the overrun in the salt and in the file; notes of no, one, two, three and four bytes reach every padding, and one of them each of
the alphabet's characters that do not come back.
`object_outlived` needs the hello alone.
`MaxCalls`, `MaxResponses`, `MaxJobs`, `MaxMessages`, `MaxRequests` appear only in guards of the
environment (a client calling, the node speaking), never in a guard of
the library.

**Symmetry** among clients is used in the safety runs only. **Deadlock** is
not checked (`CHECK_DEADLOCK FALSE`): the system may stop, with all calls
made, the manager stopped, or the process gone. That no one waits
for ever is the subject of the two liveness runs.

**Fairness.** In `JobTicket` weak fairness of each client inside a call, of
each client's clock, and of the manager: the threads are preemptively
scheduled, the waiting loops sleep and retry, and time passes. Nothing
says that a client calls, a message comes, or an interrupt is sent. A waiter
that polls a latch held for a moment by another waiter might miss it each
time; weak fairness is enough because other waiters make finitely many calls
(`MaxCalls`), and after their last one the latch stays free. In `NodeThread`
also weak fairness of the node in the conversations it has started: this is the node's
promise, and `OperationsReturn` is meant as *if* the node keeps it, the library
comes back without any timeout; with `"socket"` in `Faults` the connection may
still break. In `ServerStream` weak fairness of the
manager and of the network, which delivers what was sent until the connection ends.

## 4. Findings

1. **A second timed wait cannot succeed.** `JobTicket.h:54` says of
   `reqSentLock` that it is for waiting "until a confirm message is received".
   `wait(t)` and `waitTillReqSent` acquire it and keep it (`JobTicket.cpp:52`,
   `:94`): all later timed waits on that ticket throw `CommandTimeout`.
2. **An interrupt seen at the top of the loop is lost.** `NodeThread.cpp:30`
   consumes it and returns without the handler at `:52`: `isAlive()` stays
   true and `wait(0)` never ends. This is why `WaitReturns` speaks of
   `~isAlive` and not of a stopped manager.
3. **`listPeers` can throw another command's error.** `Node.cpp:116` says an
   error should never happen there; after a `listPeer` that timed out, its late
   answer is routed to `listPeers` because both have the identifier `""`.
4. **A global get of another client.** `NodeThread.cpp:110` creates a plain
   ticket for it, and `IsLastDataFound` (`ServerMessage.cpp:198`) takes it for a
   `GetJob` and dereferences a null pointer.

5. **The destructor does not wait for the manager.** `NodeThread.cpp:52` calls the interrupt
   the normal way to shut the thread down, and its handler calls
   `node->setIsAlive(false)`; the interrupt comes from `Node`'s destructor (`Node.cpp:79`), which
   returns at once, so the handler may use an object that is gone.
   `OneIterationLeft` bounds how long.

What follows from the checked properties and from how they had to be stated:
a manager is left running with nobody to interrupt it when the constructor throws after
`execute` (`OrphansEnd` excludes it), and when `shutdown` is answered by another command's
message that is no error (`ShutdownEndsManager` excludes it). A note comes
back with zeros up to a multiple of three bytes, because the encoder writes over its
equals signs (`Base64.cpp:42`), and does not come back at all when its coding
contains `~` or `-`, which the decoder's table does not know (`NotesComeBack`).

Seen while reading, not turned into runs: `Node.cpp:406` says of a `logic_error` in `testDDA` "this should
never happen", but a reply that belongs to another thread's test lacks the field and throws it;
`removePersistentRequest` and `modifyPersistentRequest` leave a ticket under the identifier `""`,
over which the next plain command is sent; the status comment at
`JobTicket.h:81` names states that `NodeThread.cpp:128,137` does not use;
`Node.cpp:808` logs "EndListPersistentRequests" for the header the factory
knows as "EndListPersistentRequest" (`ServerMessage.cpp:87`); two headers of
`Node.cpp` (`:843`, `:862`) end with a space; `lexical_cast<bool>` does not take
the texts "true" and "false" that default fields hold (`Node.cpp:472`, `:514`,
`:601`); the hash loop of `putDisk` takes a short last block, or none, for an error
(`Node.cpp:561`), so that no put is ever sent with a hash made there, and `Node.cpp:598` would send the
caller's field instead; a path of `getDisk` has no return (`Node.cpp:690`); the
constructor of `NodeThread` is declared `throw()` but connects.

## 5. Proofs

`JobTicketProofs` proves, for every set `Clients` and all `MaxResponses` and
`MaxCalls`, from `ThreadAssumption` (the manager and the sentinel `Nobody` are not
clients, and are not the same) and `BoundAssumption` (the bounds are naturals):

| Theorem | Statement |
|---|---|
| `InductiveInvariant` | `Spec => []IInv` |
| `TypeCorrect` | `Spec => []TypeOK` |
| `WaitersCanRead` | `Spec => []ReadableAfterWait` |
| `LatchWorks` | `Spec => []LockDiscipline` |
| `FailureIsReported` | `Spec => []GetFailureSafe` |
| `FinishedForGood` | `Spec => FinishedIsFinal` |
| `ImplementsTicket` | `Spec => TicketImplemented` |

`TypeOK` is not inductive by itself (the bound on the vector is a guard of
`PollMessage`, two steps before `Push`), and neither is `ReadableAfterWait`:
at the moment `reqSentLock` is released the vector is still empty. `IInv`
adds what makes it safe:

- `AccessInv`: `access` belongs exactly to the thread in a guarded section.
  This closes the window of `putResponse`: a client that knows of the first
  message can only read after the manager has left its guard.
- `StageInv`: the manager stores only into a ticket that is in its map, not ended
  and not finished; an ended, unfinished ticket is in the manager's hands or was
  abandoned by an interrupt.
- `SentInv`: `reqSentLock` is free, or "sent" known, only with a message
  stored or about to be.
- `FinishedInv`: `LockDiscipline`, and what is known of `lock` before and after the end.
- `FailureInv`: the two failure flags are set in order and never cleared, so
  a client between two of its looks cannot be fooled.

There is a lemma per conjunct (`TypeStep`, `AccessStep`, `StageStep`,
`SentStep`, `FinishedStep`, `FailureStep`), each with one step per action;
`IInvStep` collects them. For the refinement a message counts as received when
`reqSentLock` is released for it (`Log`), the point from which a client may
know of it; `RefineStep` maps `Confirm` to `Receive`, `Finish` to `Finish`, the
client's steps to `LearnSent`, `LearnFinished` and `Observe`, everything else
to a stutter.

`NodeThreadProofs` proves, for every set `Clients`, every `MaxJobs` and `Faults` and
every set `Requests`, from `NodeThreadAssumption`: the requests are the library's, plain ones under
the empty key and jobs under any identifier (`RequestsUnder`), the identifier of another client's
requests is none of theirs, and what the node reports of the global queue are messages whose header the
library knows. The theorems of this module use of the requests only that they are global or not and that
what is said to them has known headers: which message comes when does not matter to them, so they
hold also of a node whose answers are wrong for the request, too many or too few.

| Theorem | Statement |
|---|---|
| `InductiveInvariant` | `Spec => []IInv` |
| `TypeCorrect` | `Spec => []TypeOK` |
| `RequestsInOrder` | `Spec => []SendOrder` |
| `MapIsExact` | `Spec => []MapExact` |
| `ImplementsTickets` | `Spec => TicketsImplemented` |

Its `IInv` has five parts, with a lemma each that every step keeps it (`QueueStep`,
`WireStep`, `MapStep`, `TicketStep`, `ClientStepKeeps`):

- `QueueInv`: the requests have one order. `Taken` of them have left the queue; it
  holds the ones from there on, the connection got the first ones, and only a failed send
  makes a gap. `SendOrder` does not say what becomes of the queue after a failure, so it
  is not inductive.
- `WireInv`: nothing is said to a queued request, and the data that follow `AllData` are there
  when it is (`doMessage` takes two messages off the connection then).
- `MapInv`: `MapExact` by that order. A job in the map is one taken from the queue; this is
  why a queued job can be neither in the map nor finished, and why `sendClientReq` enters an
  unfinished one.
- `TicketInv`: a ticket is finished exactly when the last of its messages was a last one.
- `ClientInv`: a client inside an operation waits for a request of its own, and one before
  `getResponse` for a finished one.

`DoMessageCases` reduces `doMessage` to what it may do with a message (end the
manager, drop it or make a ticket, deliver it), so that no proof looks at the
`isLast` policies. For the refinement, for each ticket, a delivery is `Receive` (the invariant
shows that the log has not ended), the end of a wait is `LearnSent` or `LearnFinished`,
`getResponse` is `Observe`, everything else is a stutter.

The first part of `NodeThreadProofs` goes through the requests and the conversations of `NodeCommands` once:
`AnswersProper` says that, for every request of the library and every answer to it, no message's
verdict throws or crashes, and only the final message can end the job. `RoutingProofs` follows
the messages, from `NodeThreadAssumption`:

| Theorem | Statement |
|---|---|
| `RoutingInvariant` | `Spec => []RInv` |
| `RoutingIsExact` | `Spec => []ExactReplies` |
| `AnswersAreOwn` | `Spec => []OwnAnswer` |
| `TicketsHoldTheirOwn` | `Spec => []HeldInv` |
| `EveryMessageIsTaken` | `UpdatesFit` implies `Spec => [][clashed = {} /\ DoMessage => mgr' = "queue"]_vars` |
| `FittingUpdatesAreFollowed` | `UpdatesFit` implies `Spec => []GlobalQueueIsFollowed` |
| `ManagerSurvivesUnclashed` | `UpdatesFit` and a connection that holds imply `Spec => []ManagerSurvives` |

`ExactReplies` says that what a ticket holds and what is on its way to it are what was said to
its request. It does not say why the next message will end up there. `RInv` does:

- `ScriptInv`: the node follows one of the conversations of the request, or refuses its identifier.
- `AddressInv`: a message on the connection carries the key of the request it answers, which
  has left the queue; `AllData` is followed by its data. With `MapExact` this makes `doMessage`
  find the right ticket, as long as the key has not clashed.
- `RouteInv`: `ExactReplies` message by message (`Tells`), and nothing has come for a queued request.
  The recursive function that picks the messages of one request out of the connection (`SaidIn`) is
  followed through an append at the end, and the removal of one or two messages at the front.
- `FinalInv`: a finished ticket has the whole conversation. This is where `AnswersProper` comes
  in: a ticket is finished by a last verdict, and only the final message gets one.
- `ViewInv`: what an operation was given is what its finished ticket still holds.

`HeldInv` is about a ticket that is read before its conversation is over, and also after the manager's end,
of which `RInv` says nothing any more: what a ticket holds is the beginning of what was said to
its request (`HoldsInv`), an error in it ends the job or is a cancellation (`ErrorInv`), and an
operation has its ticket only after the first message (`ConfirmedInv`).

The last three need besides that the node reports nothing of another client's global request that a
plain ticket cannot take (`UpdatesFit`). Finding 4 is what happens without it, and
`FittingUpdatesAreFollowed` says that nothing else makes it happen; the run `commands` is an instance that
satisfies it, with a connection that holds.
Under it `HeardInv` adds that bare data are on the connection only behind their `AllData`.

`NodeLifeProofs` proves about the life of a `Node`, from `NodeThreadAssumption` and
`OwnerAssumption` (the owner is one of the clients; `ClientHello` and `Shutdown` are among the
requests):

| Theorem | Statement |
|---|---|
| `LifeInvariant` | `LifeSpec => []LifeInv` |
| `InterruptEndsIteration` | `LifeSpec => []OneIterationLeft` |
| `DestroyedManagersEnd` | `LifeSpec => []OrphansEnd` |
| `ObjectInvariant` | `LifeSpec => [](RInv /\ JudgedInv /\ GreetInv /\ FarewellInv)` |
| `GreetedBeforeUse` | `LifeSpec => []BuiltAfterHello` |
| `ShutdownStopsManager` | `LifeSpec => []ShutdownEndsManager` |
| `ManagerEndsForCause` | `UpdatesFit` implies `LifeSpec => EndsForCause` |

`LateInv` says how far an interrupted manager has come: before the message of its iteration it
has handled nothing, before the request one message at most, and the sleep
after that throws. `HelloInv` says that only the constructor waits for the first request: its
outcome is settled before the object is built or gone, so `OrphansEnd` cannot begin to
matter for an object whose constructor threw.

`ObjectInvariant` carries the routing invariant over to the life of the object (every step of
it is one of `NodeThread`'s or leaves that alone, `RoutingLives`) and adds what the object's own two
requests are: the first one is `ClientHello`, alone until it is answered, so that its key cannot have
clashed (`GreetInv`); and the owner waits for its own `Shutdown` (`FarewellInv`).
`JudgedInv` is `checkProtocolError`: a success is no error message. With `OwnAnswer` and the
conversations of these two requests what is left is `NodeHello` for the one, and for the other the
message after which `shutdown` interrupts the manager. `EndsForCause`, stated beside its proof, looks at the
manager from the other side: it ends of an interrupt, of a connection that was refused or lost, and of
nothing else while no key has clashed; `HeardInv` lives on under the object (`HeardLives`).

`NodeOperationsProofs` proves about the operations, from all the assumptions above and
`OperationsAssumption` (the bounds; the requests the operations make are among the requests; notes
are bytes):

| Theorem | Statement |
|---|---|
| `OperationsInvariant` | `OpSpec => []OpInv` |
| `OperationsTypeCorrect` | `OpSpec => []OpTypeOK` |
| `TestFilesAreRemoved` | `OpSpec => []TestFilesRemoved` |
| `UsedDirectoryIsShared` | `OpSpec => []DiskIsShared` |
| `FallbackHasItsCause` | `OpSpec => FallbackForCause` |
| `NotesReturn` | `OpSpec => []NotesComeBack` |
| `HashesTheFile` | `OpSpec => []HashIsOfFile` |
| `ObjectLivesUnderOperations` | `OpSpec => [](BuiltAfterHello /\ ShutdownEndsManager /\ OrphansEnd /\ OneIterationLeft)` |
| `OperationsAreRouted` | `OpSpec => [](ExactReplies /\ (mgr # "crashed" => OwnAnswer))` |
| `OperationsKeepTickets` | `OpSpec => TicketsOperated` |
| `OperationsSpareManager` | `UpdatesFit` implies `OpSpec => EndsForCauseOperated` |

`DiskIsShared` is about a request that has been made; what makes it hold happens up to three
requests earlier, so it is far from inductive. `OpInv` follows an operation through them:

- `BaseInv`: what was proved about `NodeLife`. A step of the operations is one of `NodeLife` (a request,
  or nothing) or a put that is locked out of its latch, which `NodeLife` does not know and
  `LockedOutKeeps` deals with (`BaseSafe`). `HeldInv` is part of it.
- `RunInv`: which operation can be in which stage (`OpFits`); that it waits for a request of its
  own, and in `respond` for a `TestDDAResponse` about its own directory (`JobFits`); and that what
  testDDA has allowed is about a directory that both see (`Granted`).
- `ArgInv`: a request that tells the content of a test's file names a test of a shared directory,
  and a put or a get from disk a shared directory or a hash (`ArgOk`).
- `AnswerInv`: the node allows something only to a request about a shared directory. For reading this
  comes from the content the client told (`VerdictOk`: the latest test of the directory is one of
  that directory), for writing from the file the node has seen.
- `UseInv`: an operation under way has an object that is there, so neither shutdown nor destructor
  takes it away.
- `TestFilesRemoved` itself: a file is written by the step that goes to `respond`, and every step
  out of that stage removes the file that the operation has named, or tries to and leaves it.
  It is not that no file remains: a failed `remove` is only logged.

`FallbackForCause` compares two states. Of all operations' steps only `PutFallback` of the client itself leads from
`put` to `sent` (`OwnStep`, `OnlyFallback`). The error it reacts to is one that this put was told
(`HoldsInv`); it finishes the job or is `PutFailed` with code 10, because nothing that a put is
told is about a get (`PutWords`).

The routing closes the circle: the answer that comes back to `testDDAResponse` is the one to this
very request (`AnsweredByItsOwn`), so its verdict is about this directory (`VerdictIsShared`), as
long as no plain command was sent over another. After the program has crashed only the parts that
speak of what has happened are claimed (`CrashedKeeps`).

The last three theorems say that what was proved of the layers below holds under the operations, in
which a put may be locked out of its latch and the program may crash. `TicketsOperated` is
`TicketsImplemented` for the steps of `OpSpec`: a request, and a put that is locked out, are no step of any
ticket (`TicketRests`). `EndsForCauseOperated` is `EndsForCause` with one cause more, a program
whose behaviour is not defined any more (`Undefined`): the `getDisk` that returns nothing, and the `putDisk`
that has hashed a block in words of eight bytes.

`NotesComeBack` compares what the caller gave `modifyPeerNote` with what it returns, and between
the two lie the encoder, a request, the node, the routing, the ticket and the decoder. `NoteInv` is what
this adds to `OpInv`: an operation that waits for its answer has a `ModifyPeerNote` on its way that
carries the coding of its own note (`AskedInv`), and the answer to such a request is its text
(`NoteSaid`); the rest is `AnsweredByItsOwn`. What decoding makes of the coding is
`NoteComesBack` of `CodingProofs`, for bytes of any values and any number. It goes by places and needs no
induction: a place of the text is one of a group of three (`PlaceInThree`), the four sextets of a group are
the group again (`GroupComesBack`), the decoder's table undoes the encoder's for 62 of the 64
sextets and has nothing for `~` and `-` (`DealphabetUndoes`), and the groups that are only filled
up end in zeros.

`HashIsOfFile` is about builds with words of four bytes, and about the blocks that `SHA256_final` would leave, of which a context shows nothing while
data are still in its buffer. `HashInv` says instead that the context has absorbed the salt and the
part of the file that was read (`Absorbs`), and that an operation which may yet hash has read nothing; or that the context has words of
eight bytes (`Wide`), of which nothing is claimed.
`Absorbed` is the invariant of `sha256.cc`, whatever is written: the blocks and the buffer are the message,
cut every `BlockBytes` (`Cuts`), the buffer is not full, and `hbits` and `lbits` are its length in bits
(`Counts`; `CarryShows` is why the comparison of the low word with what was added to it gives the
carry). `UpdateAbsorbs` follows the loop of `SHA256_update` by induction over its rounds: `Within` says
after each how much of the data is used, and that a full buffer means a block used in every round, so
that the rounds are enough. `FinalPads` does both branches of `SHA256_final`; that there is only
one number of zeros that brings the length to its place is `ModInjective`. The proof needs what the code
has, a length of at least one byte (`Sha256Assumption`). `Absorbed` and `FinalPads` are about contexts with
words of four bytes (`Context`). `LowWordIsDropped` shows that neither could be had with eight: the blocks that
`SHA256_final` leaves are then a function of `H`, `M` and `hbits` (`WideFinal`), so the
length of a message of less than 2^29 bytes is not in its padding.

`ServerStreamProofs` proves, for all sets of messages and requests, all lengths of bodies, chunks and
blocks, and however the network cuts the stream, from `StreamAssumption` (the node writes
lines, and announces the length of the one body it writes; an announced length is a natural):

| Theorem | Statement |
|---|---|
| `StreamInvariant` | `Spec => []StreamIInv` |
| `StreamTypeCorrect` | `Spec => []TypeOK` |
| `FailuresHaveCauses` | `Spec => []FailsForCause` |
| `WritesWholeMessages` | `Spec => []WholeMessages` |
| `BytesAreConserved` | `Spec => []BytesConserved` |
| `StreamImplements` | `Spec => MessagesAreWhole` |

`BytesConserved` compares bytes with bytes, and is not inductive: that the next line ends a
header, and the next bytes are a body, is not in it. `StreamIInv` has four parts:

- `ReaderInv` types the state of the reading, whatever is read.
- `StreamInv`: there are messages `todo`, sent and not received; fields `fs` and bytes `ds` still
  to come of the one being read; and bytes `z` lost when the connection ended; and the buffer, the socket,
  the wire and `z` together spell the rest of that message and the messages behind it (`Reads`). A
  line is read off what is spelled there and not off the buffer (`LineRead`), so where
  the buffer ends does not matter; and `z` keeps the account when a connection closes in
  the middle of a message.
- `WriterInv`: what was written are the first `done` requests and, while `toSocket` is in its loop, the
  part of the next one that `tmp` says.
- `FailsForCause` itself.

A body is as long as announced because `bytesToRead` is `Len(ds)` (`BodyLength`, from the one
`DataLength` field), which is also why a type invariant needs this much: `bytesToRead` must not
fall below zero. For the refinement `Dispatch` without a body and the end of
`CopyNext` are `Receive`, and by `Reads` the message received is the head of `todo`.

**Induction over data** is done in first-order form. `Recursion` proves that a set of
numbers with 0 and the successor of each of its members is `Nat` (`NatSetInduction`, from the
least element of a set), and from that the existence of a function that follows a step
(`RecursionExists`); predicates are sets and steps are functions there, because no installed prover
instantiates an operator. `SaidIn`, `FlattenSeq` and the rounds of `SHA256_update` are treated this way: `FlatFollows`
characterises `FlattenSeq` by its recursion, `FlatConcat` is its distributivity. Facts about
sequences of any elements are stated once as a predicate of the set (`SequenceLaws`,
`SpellingLaws`), so that they can be used for bytes and for messages.

`IInv`, `RInv`, `LifeInv` with the invariants of `ObjectInvariant`, `OpInv`, and `StreamIInv` held in TLC on
instances like those of the runs before they were proved. `NoteInv` and `HashInv` were not run (they quantify
over what no instance enumerates); what they imply was.

Only model-checked: liveness (fairness and `ENABLED` are out of the prover's reach). Every invariant and
every action property of a passing run has a theorem, `ManagerSurvives` under `UpdatesFit`.

## 6. Not modelled, and the plan

Left out for good: the callback `f` of a ticket (never set in `src/`); a
second interrupt during the handler's own `setIsAlive`; the compression
function and byte order of SHA-256, and what the bytes are that words of eight bytes leave unset or
overwrite; formatting, logging, the
fields that operations only copy; the examples. Data races on the manager's map in
`listGlobalJobs` have no outcome to enumerate, and `TQueue::get` never waits on its
condition, because its one consumer has looked before. A name that the dead local of
`TestDDAReplyResponse::getField` turns into another file's has no bounded set
of outcomes. In `NodeOperations` the use of a `Node` by a client whose constructor threw, and
two owners, do not occur: a program cannot do the one and must not do the other.

Next:

1. The connection of `NodeThread` as the stream that `ServerStream` implements: `inbox` with what the
   manager has taken as a `MessageStream`, so that reading and routing compose.
