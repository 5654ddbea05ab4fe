------------------------------- MODULE JobTicket -------------------------------
(***************************************************************************)
(* One job ticket (src/JobTicket.h, src/JobTicket.cpp) shared by the       *)
(* manager thread that runs NodeThread::run and by the client threads that *)
(* hold the ticket, from the moment the ticket lies in the request queue.  *)
(*                                                                         *)
(* The ticket's three mutexes are kept apart, as the code uses them:       *)
(*   access       a ZThread::Mutex with an owner, guarding nodeResponse    *)
(*                and _isFinished;                                         *)
(*   lock         a ZThread::FastMutex used as a latch: init acquires it,  *)
(*                putResult releases it, wait acquires and releases it;    *)
(*   reqSentLock  another one: init acquires it, the first putResponse     *)
(*                releases it, wait(t) and waitTillReqSent acquire it.     *)
(* A FastMutex has no owner here: init runs on a client thread and the     *)
(* release on the manager thread, so the code relies on that.              *)
(*                                                                         *)
(* The manager's loop is followed step by step, with every point where an  *)
(* interrupt (Node::shutdown) or an exception ends it; traffic for other   *)
(* tickets is the loop going round with nothing for this one.              *)
(***************************************************************************)
EXTENDS Naturals, Sequences

CONSTANTS
  Clients,        \* the client threads that hold the ticket
  Mgr,            \* the manager thread
  Nobody,         \* the owner of a free mutex
  MaxResponses,   \* bound: messages the node sends for the job
  MaxCalls        \* bound: calls each client makes on the ticket

ASSUME ThreadAssumption == Mgr \notin Clients /\ Nobody \notin Clients \cup {Mgr}
ASSUME BoundAssumption == MaxResponses \in Nat /\ MaxCalls \in Nat

VARIABLES
  access,         \* JobTicket::access: the thread that owns it, or Nobody
  lock,           \* JobTicket::lock: TRUE while it is held
  reqSentLock,    \* JobTicket::reqSentLock: TRUE while it is held
  nodeResponse,   \* JobTicket::nodeResponse: each message "more" or "last"
  isFinished,     \* JobTicket::_isFinished
  stage,          \* where the manager finds the ticket: "queued" in
                  \* clientReqQueue, "registered" in jobs, "erased" from it
  mpc,            \* the manager's next step
  status,         \* the message in the manager's hands
  interrupted,    \* the manager thread's pending interrupt
  isAlive,        \* Node::isAlive_
  hasException,   \* Node::hasException_
  cpc,            \* each client's next step, "idle" between two calls
  call,           \* the call it is in, or was last in
  phase,          \* the mutex that call waits for: "reqSent" or "lock"
  expired,        \* elapsed >= timeout in that call
  result,         \* what the last call returned or threw
  known,          \* what its successful calls have told it
  view,           \* what its last getResponse returned
  calls           \* how many calls it has made

ticket == <<access, lock, reqSentLock, nodeResponse, isFinished>>
manager == <<stage, mpc, status, interrupted, isAlive, hasException>>
clients == <<cpc, call, phase, expired, result, known, view, calls>>
vars == <<ticket, manager, clients>>

Statuses == {"more", "last"}
Facts == {"sent", "finished"}
MgrSteps == {"top", "poll", "respond", "confirm", "push", "result", "finish",
             "leave", "queue", "send", "sleep", "interrupted", "failed",
             "setFailure", "stopped"}
ClientSteps == {"idle", "try", "alive", "failure", "reason", "unlock",
                "access", "read"}
Waits == {"wait", "waitFor", "waitTillReqSent"}
Calls == Waits \cup {"getResponse", "isFinished"}
Results == {"none", "ok", "timeoutSend", "timeoutResponse", "nodeFailure",
            "notAlive", "logicError"}

-----------------------------------------------------------------------------
(* A mutant of Init: reqSentLock is not acquired.                            *)
InitWithoutReqSent ==
  /\ access = Nobody
  /\ lock = TRUE
  /\ reqSentLock = FALSE
  /\ nodeResponse = <<>>
  /\ isFinished = FALSE
  /\ stage = "queued"
  /\ mpc = "top"
  /\ status = "more"
  /\ interrupted = FALSE
  /\ isAlive = TRUE
  /\ hasException = FALSE
  /\ cpc = [c \in Clients |-> "idle"]
  /\ call = [c \in Clients |-> "wait"]
  /\ phase = [c \in Clients |-> "lock"]
  /\ expired = [c \in Clients |-> FALSE]
  /\ result = [c \in Clients |-> "none"]
  /\ known = [c \in Clients |-> {}]
  /\ view = [c \in Clients |-> <<>>]
  /\ calls = [c \in Clients |-> 0]

-----------------------------------------------------------------------------
(* JobTicket::init and TQueue::put: both latches are taken before any other *)
(* thread can reach the ticket.                                             *)
Init ==
  /\ access = Nobody
  /\ lock = TRUE
  /\ reqSentLock = TRUE
  /\ nodeResponse = <<>>
  /\ isFinished = FALSE
  /\ stage = "queued"
  /\ mpc = "top"
  /\ status = "more"
  /\ interrupted = FALSE
  /\ isAlive = TRUE
  /\ hasException = FALSE
  /\ cpc = [c \in Clients |-> "idle"]
  /\ call = [c \in Clients |-> "wait"]
  /\ phase = [c \in Clients |-> "lock"]
  /\ expired = [c \in Clients |-> FALSE]
  /\ result = [c \in Clients |-> "none"]
  /\ known = [c \in Clients |-> {}]
  /\ view = [c \in Clients |-> <<>>]
  /\ calls = [c \in Clients |-> 0]

-----------------------------------------------------------------------------
(* The client threads.                                                      *)

Goto(c, step) == cpc' = [cpc EXCEPT ![c] = step]

Return(c, r) ==
  /\ cpc' = [cpc EXCEPT ![c] = "idle"]
  /\ result' = [result EXCEPT ![c] = r]

Learn(c, fact) == known' = [known EXCEPT ![c] = @ \cup {fact}]

\* A client calls wait(0) ("wait"), wait(t) with t > 0 ("waitFor"),
\* waitTillReqSent(t), getResponse() or isFinished().
Begin(c, k) ==
  /\ cpc[c] = "idle"
  /\ calls[c] < MaxCalls
  /\ calls' = [calls EXCEPT ![c] = @ + 1]
  /\ call' = [call EXCEPT ![c] = k]
  /\ phase' = [phase EXCEPT ![c] = IF k \in {"waitFor", "waitTillReqSent"}
                                   THEN "reqSent" ELSE "lock"]
  /\ expired' = [expired EXCEPT ![c] = FALSE]
  /\ result' = [result EXCEPT ![c] = "none"]
  /\ Goto(c, IF k \in Waits THEN "try" ELSE "access")
  /\ UNCHANGED <<ticket, manager, known, view>>

\* The clock passes the deadline of the client's wait.
Expire(c) ==
  /\ cpc[c] # "idle"
  /\ call[c] \in {"waitFor", "waitTillReqSent"}
  /\ ~expired[c]
  /\ expired' = [expired EXCEPT ![c] = TRUE]
  /\ UNCHANGED <<ticket, manager, cpc, call, phase, result, known, view, calls>>

\* tryAcquire finds the awaited mutex held: the loop's body is entered.
TryBusy(c) ==
  /\ cpc[c] = "try"
  /\ IF phase[c] = "reqSent" THEN reqSentLock ELSE lock
  /\ Goto(c, "alive")
  /\ UNCHANGED <<ticket, manager, call, phase, expired, result, known, view, calls>>

\* The first loop of wait(t) and waitTillReqSent gets reqSentLock and keeps
\* it; wait(t) goes on to its second loop, waitTillReqSent returns.
TakeReqSentLock(c) ==
  /\ cpc[c] = "try"
  /\ phase[c] = "reqSent"
  /\ ~reqSentLock
  /\ reqSentLock' = TRUE
  /\ Learn(c, "sent")
  /\ IF call[c] = "waitFor"
     THEN /\ phase' = [phase EXCEPT ![c] = "lock"]
          /\ UNCHANGED <<cpc, result>>
     ELSE /\ Return(c, "ok")
          /\ UNCHANGED phase
  /\ UNCHANGED <<access, lock, nodeResponse, isFinished, manager>>
  /\ UNCHANGED <<call, expired, view, calls>>

\* A mutant of TakeLock: wait returns without giving lock back.
TakeLockForGood(c) ==
  /\ cpc[c] = "try"
  /\ phase[c] = "lock"
  /\ ~lock
  /\ lock' = TRUE
  /\ Learn(c, "finished")
  /\ Return(c, "ok")
  /\ UNCHANGED <<access, reqSentLock, nodeResponse, isFinished, manager>>
  /\ UNCHANGED <<call, phase, expired, view, calls>>

\* wait gets lock: the job is finished.
TakeLock(c) ==
  /\ cpc[c] = "try"
  /\ phase[c] = "lock"
  /\ ~lock
  /\ lock' = TRUE
  /\ Goto(c, "unlock")
  /\ UNCHANGED <<access, reqSentLock, nodeResponse, isFinished, manager>>
  /\ UNCHANGED <<call, phase, expired, result, known, view, calls>>

\* wait gives lock back for the next waiter and returns.
ReleaseLock(c) ==
  /\ cpc[c] = "unlock"
  /\ lock' = FALSE
  /\ Learn(c, "finished")
  /\ Return(c, "ok")
  /\ UNCHANGED <<access, reqSentLock, nodeResponse, isFinished, manager>>
  /\ UNCHANGED <<call, phase, expired, view, calls>>

\* A mutant of CheckAlive: the deadline is not looked at.
CheckAliveOnly(c) ==
  /\ cpc[c] = "alive"
  /\ Goto(c, IF isAlive THEN "try" ELSE "failure")
  /\ UNCHANGED <<ticket, manager, call, phase, expired, result, known, view, calls>>

\* A mutant of CheckAlive: the node is not asked whether it is alive.
CheckDeadlineOnly(c) ==
  /\ cpc[c] = "alive"
  /\ IF expired[c]
     THEN Return(c, IF phase[c] = "reqSent" THEN "timeoutSend" ELSE "timeoutResponse")
     ELSE /\ Goto(c, "try")
          /\ UNCHANGED result
  /\ UNCHANGED <<ticket, manager, call, phase, expired, known, view, calls>>

\* The body of a waiting loop, after a failed tryAcquire: a dead node ends
\* the wait, then a deadline does (never for wait(0)), else the client
\* sleeps and tries again.
CheckAlive(c) ==
  /\ cpc[c] = "alive"
  /\ \/ /\ ~isAlive
        /\ Goto(c, "failure")
        /\ UNCHANGED result
     \/ /\ isAlive
        /\ expired[c]
        /\ Return(c, IF phase[c] = "reqSent" THEN "timeoutSend" ELSE "timeoutResponse")
     \/ /\ isAlive
        /\ ~expired[c]
        /\ Goto(c, "try")
        /\ UNCHANGED result
  /\ UNCHANGED <<ticket, manager, call, phase, expired, known, view, calls>>

\* A mutant of HasFailure: a dead node is taken to have a reason.
AssumeFailure(c) ==
  /\ cpc[c] = "failure"
  /\ Goto(c, "reason")
  /\ UNCHANGED <<ticket, manager, call, phase, expired, result, known, view, calls>>

\* node->hasFailure(): is there a reason to report?
HasFailure(c) ==
  /\ cpc[c] = "failure"
  /\ IF hasException
     THEN /\ Goto(c, "reason")
          /\ UNCHANGED result
     ELSE Return(c, "notAlive")
  /\ UNCHANGED <<ticket, manager, call, phase, expired, known, view, calls>>

\* node->getFailure(): throws the reason, or std::logic_error if there is none.
GetFailure(c) ==
  /\ cpc[c] = "reason"
  /\ Return(c, IF isAlive \/ ~hasException THEN "logicError" ELSE "nodeFailure")
  /\ UNCHANGED <<ticket, manager, call, phase, expired, known, view, calls>>

\* getResponse and isFinished first acquire access.
AcquireAccess(c) ==
  /\ cpc[c] = "access"
  /\ access = Nobody
  /\ access' = c
  /\ Goto(c, "read")
  /\ UNCHANGED <<lock, reqSentLock, nodeResponse, isFinished, manager>>
  /\ UNCHANGED <<call, phase, expired, result, known, view, calls>>

\* getResponse copies the responses; isFinished tells whether the job is over.
Read(c) ==
  /\ cpc[c] = "read"
  /\ access' = Nobody
  /\ IF call[c] = "getResponse"
     THEN /\ view' = [view EXCEPT ![c] = nodeResponse]
          /\ UNCHANGED known
     ELSE /\ IF isFinished THEN Learn(c, "finished") ELSE UNCHANGED known
          /\ UNCHANGED view
  /\ Return(c, "ok")
  /\ UNCHANGED <<lock, reqSentLock, nodeResponse, isFinished, manager>>
  /\ UNCHANGED <<call, phase, expired, calls>>

ClientStep(c) ==
  \/ TryBusy(c) \/ TakeReqSentLock(c) \/ TakeLock(c) \/ ReleaseLock(c)
  \/ CheckAlive(c) \/ HasFailure(c) \/ GetFailure(c)
  \/ AcquireAccess(c) \/ Read(c)

-----------------------------------------------------------------------------
(* The manager thread.                                                      *)

Ended == nodeResponse # <<>> /\ nodeResponse[Len(nodeResponse)] = "last"

\* The loop's condition: Thread::interrupted() reads the flag and clears it,
\* and the loop ends with nothing said to the node object.
Top ==
  /\ mpc = "top"
  /\ interrupted' = FALSE
  /\ mpc' = IF interrupted THEN "stopped" ELSE "poll"
  /\ UNCHANGED <<ticket, clients, stage, status, isAlive, hasException>>

\* No message came in, or one that is not for this ticket.
PollOther ==
  /\ mpc = "poll"
  /\ mpc' = "queue"
  /\ UNCHANGED <<ticket, clients, stage, status, interrupted, isAlive, hasException>>

\* doMessage finds the ticket in the map for the message s.
PollMessage(s) ==
  /\ mpc = "poll"
  /\ stage = "registered"
  /\ Len(nodeResponse) < MaxResponses
  /\ status' = s
  /\ mpc' = "respond"
  /\ UNCHANGED <<ticket, clients, stage, interrupted, isAlive, hasException>>

\* A mutant of Respond: putResponse takes no guard.
RespondUnguarded ==
  /\ mpc = "respond"
  /\ mpc' = "confirm"
  /\ UNCHANGED <<ticket, clients, stage, status, interrupted, isAlive, hasException>>

\* putResponse: the guard acquires access.
Respond ==
  /\ mpc = "respond"
  /\ access = Nobody
  /\ access' = Mgr
  /\ mpc' = "confirm"
  /\ UNCHANGED <<lock, reqSentLock, nodeResponse, isFinished, clients>>
  /\ UNCHANGED <<stage, status, interrupted, isAlive, hasException>>

\* putResponse: the first message releases reqSentLock.
Confirm ==
  /\ mpc = "confirm"
  /\ reqSentLock' = (reqSentLock /\ nodeResponse # <<>>)
  /\ mpc' = "push"
  /\ UNCHANGED <<access, lock, nodeResponse, isFinished, clients>>
  /\ UNCHANGED <<stage, status, interrupted, isAlive, hasException>>

\* A mutant of Push: the message is not let go and is handled again.
PushAgain ==
  /\ mpc = "push"
  /\ nodeResponse' = Append(nodeResponse, status)
  /\ access' = Nobody
  /\ mpc' = IF status = "last" THEN "result" ELSE "respond"
  /\ UNCHANGED <<lock, reqSentLock, isFinished, clients>>
  /\ UNCHANGED <<stage, status, interrupted, isAlive, hasException>>

\* A mutant of Push: every message is taken for the job's last one.
PushFinishes ==
  /\ mpc = "push"
  /\ nodeResponse' = Append(nodeResponse, status)
  /\ access' = Nobody
  /\ mpc' = "result"
  /\ UNCHANGED <<lock, reqSentLock, isFinished, clients>>
  /\ UNCHANGED <<stage, status, interrupted, isAlive, hasException>>

\* putResponse: the message is stored, then the guard releases access.
Push ==
  /\ mpc = "push"
  /\ nodeResponse' = Append(nodeResponse, status)
  /\ access' = Nobody
  /\ mpc' = IF status = "last" THEN "result" ELSE "queue"
  /\ UNCHANGED <<lock, reqSentLock, isFinished, clients>>
  /\ UNCHANGED <<stage, status, interrupted, isAlive, hasException>>

\* putResult: the guard acquires access.
Result ==
  /\ mpc = "result"
  /\ access = Nobody
  /\ access' = Mgr
  /\ mpc' = "finish"
  /\ UNCHANGED <<lock, reqSentLock, nodeResponse, isFinished, clients>>
  /\ UNCHANGED <<stage, status, interrupted, isAlive, hasException>>

\* putResult: the ticket is finished, then lock is released.  No waiter can
\* take lock before its release, so the two assignments are one step.
Finish ==
  /\ mpc = "finish"
  /\ isFinished' = TRUE
  /\ lock' = FALSE
  /\ mpc' = "leave"
  /\ UNCHANGED <<access, reqSentLock, nodeResponse, clients>>
  /\ UNCHANGED <<stage, status, interrupted, isAlive, hasException>>

\* A mutant of Leave: the finished ticket stays in the map.
LeaveKept ==
  /\ mpc = "leave"
  /\ access' = Nobody
  /\ mpc' = "queue"
  /\ UNCHANGED <<lock, reqSentLock, nodeResponse, isFinished, clients>>
  /\ UNCHANGED <<stage, status, interrupted, isAlive, hasException>>

\* The guard releases access and, as keep is never set, the ticket is erased
\* from the map.
Leave ==
  /\ mpc = "leave"
  /\ access' = Nobody
  /\ stage' = "erased"
  /\ mpc' = "queue"
  /\ UNCHANGED <<lock, reqSentLock, nodeResponse, isFinished, clients>>
  /\ UNCHANGED <<status, interrupted, isAlive, hasException>>

\* The request queue holds nothing, or another ticket that is sent.
QueueOther ==
  /\ mpc = "queue"
  /\ mpc' = "sleep"
  /\ UNCHANGED <<ticket, clients, stage, status, interrupted, isAlive, hasException>>

\* sendClientReq: the ticket goes into the map, before its command is sent.
Register ==
  /\ mpc = "queue"
  /\ stage = "queued"
  /\ stage' = "registered"
  /\ mpc' = "send"
  /\ UNCHANGED <<ticket, clients, status, interrupted, isAlive, hasException>>

\* The command is sent.
Send ==
  /\ mpc = "send"
  /\ mpc' = "sleep"
  /\ UNCHANGED <<ticket, clients, stage, status, interrupted, isAlive, hasException>>

\* Thread::sleep ends without an interrupt.
Wake ==
  /\ mpc = "sleep"
  /\ ~interrupted
  /\ mpc' = "top"
  /\ UNCHANGED <<ticket, clients, stage, status, interrupted, isAlive, hasException>>

\* An interrupted thread gets an Interrupted_Exception, which clears the flag,
\* from Thread::sleep and from a mutex another thread holds: access here,
\* another ticket's or the request queue's in the steps poll and queue.
ThrowInterrupted ==
  /\ interrupted
  /\ \/ mpc \in {"poll", "queue", "sleep"}
     \/ mpc \in {"respond", "result"} /\ access # Nobody
  /\ interrupted' = FALSE
  /\ mpc' = "interrupted"
  /\ UNCHANGED <<ticket, clients, stage, status, isAlive, hasException>>

\* The socket or the message (a header the factory does not know) throws.
ThrowError ==
  /\ mpc \in {"poll", "send"}
  /\ mpc' = "failed"
  /\ UNCHANGED <<ticket, clients, stage, status, interrupted, isAlive, hasException>>

\* The handlers of run: setIsAlive(false) comes first, and for an interrupt
\* is all; any other exception's reason is stored in a second step.
SetIsAlive ==
  /\ mpc \in {"interrupted", "failed"}
  /\ isAlive' = FALSE
  /\ mpc' = IF mpc = "failed" THEN "setFailure" ELSE "stopped"
  /\ UNCHANGED <<ticket, clients, stage, status, interrupted, hasException>>

SetFailure ==
  /\ mpc = "setFailure"
  /\ hasException' = TRUE
  /\ mpc' = "stopped"
  /\ UNCHANGED <<ticket, clients, stage, status, interrupted, isAlive>>

Manager ==
  \/ Top \/ PollOther \/ (\E s \in Statuses : PollMessage(s))
  \/ Respond \/ Confirm \/ Push \/ Result \/ Finish \/ Leave
  \/ QueueOther \/ Register \/ Send \/ Wake
  \/ ThrowInterrupted \/ ThrowError \/ SetIsAlive \/ SetFailure

\* Another client shuts the node down, or the node object is destroyed.
Interrupt ==
  /\ mpc # "stopped"
  /\ ~interrupted
  /\ interrupted' = TRUE
  /\ UNCHANGED <<ticket, clients, stage, mpc, status, isAlive, hasException>>

Next ==
  \/ \E c \in Clients : (\E k \in Calls : Begin(c, k)) \/ Expire(c) \/ ClientStep(c)
  \/ Manager
  \/ Interrupt

Spec == Init /\ [][Next]_vars

\* Every thread runs: a client inside a call takes its next step, its clock
\* passes every deadline, and the manager does not stop between two steps.
\* No client has to call, no message has to come and no interrupt is owed.
Fairness ==
  /\ \A c \in Clients : WF_vars(ClientStep(c)) /\ WF_vars(Expire(c))
  /\ WF_vars(Manager)

FairSpec == Spec /\ Fairness

-----------------------------------------------------------------------------
(* Properties.                                                              *)

\* Every variable has its type; the manager is never asked to store more
\* messages than the node sends.
TypeOK ==
  /\ access \in Clients \cup {Mgr, Nobody}
  /\ lock \in BOOLEAN
  /\ reqSentLock \in BOOLEAN
  /\ nodeResponse \in Seq(Statuses)
  /\ Len(nodeResponse) <= MaxResponses
  /\ isFinished \in BOOLEAN
  /\ stage \in {"queued", "registered", "erased"}
  /\ mpc \in MgrSteps
  /\ status \in Statuses
  /\ interrupted \in BOOLEAN
  /\ isAlive \in BOOLEAN
  /\ hasException \in BOOLEAN
  /\ cpc \in [Clients -> ClientSteps]
  /\ call \in [Clients -> Calls]
  /\ phase \in [Clients -> {"reqSent", "lock"}]
  /\ expired \in [Clients -> BOOLEAN]
  /\ result \in [Clients -> Results]
  /\ known \in [Clients -> SUBSET Facts]
  /\ view \in [Clients -> Seq(Statuses)]
  /\ calls \in [Clients -> Nat]

\* A client that has waited can use the response: after a wait for the first
\* message there is one when getResponse copies the vector, although
\* putResponse releases reqSentLock before it stores the message; after a
\* wait for the end the copy ends with the message that ended the job
\* (Node::checkProtocolError takes resp.back() without a test).
ReadableAfterWait ==
  \A c \in Clients : cpc[c] = "read" =>
    /\ "sent" \in known[c] => nodeResponse # <<>>
    /\ "finished" \in known[c] => Ended

\* The latch lock, that one thread acquires and others release: it is free
\* only when the ticket is finished, and then it is held only while exactly
\* one waiter stands between its tryAcquire and its release, so no waiter can
\* leave it shut behind itself.
LockDiscipline ==
  /\ ~lock => isFinished
  /\ isFinished /\ lock => \E c \in Clients : cpc[c] = "unlock"
  /\ \A c, d \in Clients : cpc[c] = "unlock" /\ cpc[d] = "unlock" => c = d

\* A waiter that sees the node dead throws the node's failure: the two
\* separate sections in which NodeThread::run clears isAlive_ and stores the
\* reason never make Node::getFailure throw its std::logic_error.
GetFailureSafe == \A c \in Clients : result[c] # "logicError"

\* A finished ticket stays finished and receives nothing more: the manager
\* has taken it out of its map before it looks at the next message.
FinishedIsFinal ==
  [][isFinished => isFinished' /\ nodeResponse' = nodeResponse]_vars

\* Nobody waits for a dead manager with a deadline: every call but wait(0)
\* returns or throws, even when reqSentLock is never released again.
BoundedCallsReturn ==
  \A c \in Clients : (cpc[c] # "idle" /\ call[c] # "wait") ~> cpc[c] = "idle"

\* wait(0) returns or throws once the job is finished or the node object
\* knows that its manager is gone.
WaitReturns ==
  \A c \in Clients :
    (cpc[c] # "idle" /\ call[c] = "wait" /\ (isFinished \/ ~isAlive)) ~> cpc[c] = "idle"

\* The comment on reqSentLock: "wait until a confirm message is received".
\* A client that knows the confirm message has been received is not told that
\* sending the command timed out.
NoFalseTimeout ==
  \A c \in Clients : result[c] = "timeoutSend" => "sent" \notin known[c]

\* The comment in NodeThread::run: an interrupt is the "normal way to shutdown
\* the thread", and its handler tells the node object.  A stopped manager has
\* always told it.
StoppedIsReported == mpc = "stopped" => ~isAlive

-----------------------------------------------------------------------------
(* The inductive invariant behind the safety properties.                    *)

\* access belongs to the thread inside a guarded section.
AccessInv ==
  /\ access = Mgr <=> mpc \in {"confirm", "push", "finish", "leave"}
  /\ \A c \in Clients : access = c <=> cpc[c] = "read"

\* The manager's hold on the ticket: while it stores a message or the result,
\* and whenever the ticket is still in the map.
StageInv ==
  /\ mpc \in {"respond", "confirm", "push"} =>
       stage = "registered" /\ ~Ended /\ ~isFinished /\ Len(nodeResponse) < MaxResponses
  /\ mpc \in {"result", "finish"} => stage = "registered" /\ Ended /\ ~isFinished
  /\ mpc = "leave" => isFinished
  /\ Ended => isFinished \/ mpc \in {"result", "finish", "interrupted", "stopped"}
  /\ isFinished => Ended /\ (mpc = "leave" \/ stage = "erased")

\* reqSentLock is free, or was taken by a client, only from the first message on.
SentInv ==
  /\ ~reqSentLock => nodeResponse # <<>> \/ mpc = "push"
  /\ \A c \in Clients : "sent" \in known[c] => nodeResponse # <<>> \/ mpc = "push"

\* lock is free, or a client has been let through it, only when finished.
FinishedInv ==
  /\ LockDiscipline
  /\ ~isFinished => lock
  /\ \A c \in Clients : cpc[c] = "unlock" => lock /\ isFinished
  /\ \A c \in Clients : "finished" \in known[c] => isFinished

\* A client on its way to getFailure has read flags that do not change back.
FailureInv ==
  /\ ~isAlive => mpc \in {"setFailure", "stopped"}
  /\ hasException \/ mpc = "setFailure" => ~isAlive
  /\ \A c \in Clients : cpc[c] = "failure" => ~isAlive
  /\ \A c \in Clients : cpc[c] = "reason" => ~isAlive /\ hasException
  /\ GetFailureSafe

IInv ==
  /\ TypeOK /\ AccessInv /\ StageInv /\ SentInv /\ FinishedInv /\ FailureInv

-----------------------------------------------------------------------------
(* The protocol implements the abstract ticket.  A message counts as         *)
(* received when reqSentLock is released for it: from then on a client may   *)
(* know of it, and none can read before the manager has left its guard.      *)
Log == IF mpc = "push" THEN Append(nodeResponse, status) ELSE nodeResponse

T == INSTANCE Ticket WITH log <- Log, done <- isFinished

TicketImplemented == T!Spec

===============================================================================
