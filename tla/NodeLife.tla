-------------------------------- MODULE NodeLife -------------------------------
(***************************************************************************)
(* The life of a Node object of src/Node.cpp around its manager thread:    *)
(* the constructor, which connects, starts the thread and greets the node; *)
(* shutdown; the destructor; and the interrupt by which the last two end   *)
(* the thread.  One client, Owner, does these three; every client may use  *)
(* the object in between.  Requests, tickets and routing are those of      *)
(* NodeThread.tla, and ClientHello and Shutdown are requests like others.  *)
(*                                                                         *)
(* An iteration of the manager's loop is sleep, the loop's condition, a    *)
(* message, a request (NodeThread.cpp:30-49, with sleep at its end).  mgr = *)
(* "poll" is anywhere from sleep to the message, mgr = "queue" behind it.  *)
(***************************************************************************)
EXTENDS NodeThread

CONSTANT Owner   \* the client thread that makes and destroys the object

ASSUME OwnerAssumption ==
  /\ Owner \in Clients
  /\ {ClientHello, Shutdown} \subseteq Requests

VARIABLES
  object,    \* the Node object: "none", "building", "built" or "gone"
  phase,     \* the owner's shutdown: "use", "shutdown" or "after"
  farewell,  \* the number of the request Shutdown, 0 before
  pending,   \* an interrupt of the manager: "no", "new", or "due" when it
             \* has been there since before the last sleep
  late,      \* history: messages and requests the manager has handled since
             \* it was interrupted
  dangling   \* history: the manager has used the object after its end

life == <<object, phase, farewell, pending, late, dangling>>
lifeVars == <<vars, life>>

LifeInit ==
  /\ Init
  /\ object = "none"
  /\ phase = "use"
  /\ farewell = 0
  /\ pending = "no"
  /\ late = 0
  /\ dangling = FALSE

-----------------------------------------------------------------------------
(* The owner.                                                               *)

\* The constructor connects, executes the thread and queues ClientHello.
Construct ==
  /\ object = "none"
  /\ Call(Owner, ClientHello)
  /\ object' = "building"
  /\ UNCHANGED <<phase, farewell, pending, late, dangling>>

\* Server's constructor throws.  NodeThread's constructor is declared throw(),
\* so the program is terminated, and the handler of Node.cpp:54 never runs.
ConnectRefused ==
  /\ object = "none" /\ mgr # "crashed"
  /\ mgr' = "crashed"
  /\ UNCHANGED <<started, ticket, queue, jobs, clashed, inbox, node, client, life>>

\* A mutant of Greeted: checkProtocolError is left out.
GreetedUnchecked == outcome[1] \in {"ok", "error"}

\* ClientHello was answered, and checkProtocolError found no error.
Greeted == outcome[1] = "ok"

\* The constructor returns; or it throws, which destroys the members of the
\* object but neither ends nor interrupts the thread.
ConstructorEnds ==
  /\ object = "building" /\ cpc[Owner] = "idle" /\ mgr # "crashed"
  /\ object' = IF Greeted THEN "built" ELSE "gone"
  /\ UNCHANGED <<vars, phase, farewell, pending, late, dangling>>

\* A mutant of Interrupt: the interrupt is not sent.
NoInterrupt == UNCHANGED pending

\* executor.interrupt.
Interrupt == pending' = IF Managing /\ pending = "no" THEN "new" ELSE pending

Usable(c) == object = "built" /\ (c = Owner => phase # "shutdown")

\* shutdown queues its request and waits.
ShutdownBegins ==
  /\ Usable(Owner) /\ phase = "use"
  /\ Call(Owner, Shutdown)
  /\ phase' = "shutdown"
  /\ farewell' = started'
  /\ UNCHANGED <<object, pending, late, dangling>>

\* Mutants of Unanswered: exceptions of the wait, or errors, do not count.
UnansweredNoExceptions == outcome[farewell] = "error"
UnansweredNoErrors == outcome[farewell] \in {"timeout", "failure"}

\* An error, whatever its code, or an exception of the wait.
Unanswered == outcome[farewell] \in {"error", "timeout", "failure"}

\* shutdown returns.  Error 18 is what it expects; any other error is thrown,
\* caught by its own catch (...), and treated the same.  After an answer that
\* is no error the thread is left alone.
ShutdownEnds ==
  /\ phase = "shutdown" /\ cpc[Owner] = "idle" /\ mgr # "crashed"
  /\ phase' = "after"
  /\ IF Unanswered THEN Interrupt ELSE UNCHANGED pending
  /\ UNCHANGED <<vars, object, farewell, late, dangling>>

\* The destructor interrupts the thread and does not wait for it.  A program
\* destroys the object when no operation on it is under way.
Destroy ==
  /\ Usable(Owner) /\ mgr # "crashed"
  /\ \A c \in Clients : cpc[c] = "idle"
  /\ object' = "gone"
  /\ Interrupt
  /\ UNCHANGED <<vars, phase, farewell, late, dangling>>

-----------------------------------------------------------------------------
(* The manager thread with its interrupt.                                   *)

\* The handlers of run call setIsAlive of the node object.
Handled == dangling' = (dangling \/ object = "gone")

\* Mutants of Slept: an interrupt is not noticed; or is cleared.
SleptDeaf == pending
SleptCleared == "no"

\* The manager goes to sleep after a request: an interrupt that is there makes
\* sleep throw.
Slept == IF pending = "new" THEN "due" ELSE pending

\* A step of NodeThread's manager; the thread is started by the constructor.
ManagerRuns ==
  /\ object # "none" /\ pending # "due"
  /\ Manager
  /\ pending' = IF ~Managing' THEN "no" ELSE IF mgr = "queue" THEN Slept ELSE pending
  /\ late' = IF pending = "new" /\ (inbox' # inbox \/ queue' # queue) THEN late + 1 ELSE late
  /\ IF mgr' = "failed" THEN Handled ELSE UNCHANGED dangling
  /\ UNCHANGED <<object, phase, farewell>>

ManagerEndsNow(how) ==
  /\ mgr' = how
  /\ pending' = "no"
  /\ UNCHANGED <<started, ticket, queue, jobs, clashed, inbox, node, client,
                 object, phase, farewell, late>>

\* sleep, or a lock that is held elsewhere, throws for the interrupt, and the
\* handler runs.
InterruptThrown ==
  /\ Managing /\ pending # "no"
  /\ ManagerEndsNow("failed")
  /\ Handled

\* The loop's condition consumes the interrupt, and no handler runs.
InterruptSeen ==
  /\ mgr = "poll" /\ pending = "new"
  /\ ManagerEndsNow("stopped")
  /\ UNCHANGED dangling

-----------------------------------------------------------------------------
Starting == Construct \/ ConnectRefused \/ ConstructorEnds

ShuttingDown == ShutdownBegins \/ ShutdownEnds

ManagerStep == ManagerRuns \/ InterruptThrown \/ InterruptSeen

LifeNext ==
  \/ Starting \/ ShuttingDown \/ Destroy \/ ManagerStep
  \/ \E c \in Clients, r \in Requests : Usable(c) /\ Call(c, r) /\ UNCHANGED life
  \/ \E c \in Clients : ClientStep(c) /\ UNCHANGED life
  \/ \E j \in 0 .. MaxJobs : NodeAnswers(j) /\ UNCHANGED life

LifeSpec == LifeInit /\ [][LifeNext]_lifeVars

-----------------------------------------------------------------------------
(* Properties.                                                              *)

\* Every variable has its type.
LifeTypeOK ==
  /\ object \in {"none", "building", "built", "gone"}
  /\ phase \in {"use", "shutdown", "after"}
  /\ farewell \in 0 .. MaxJobs
  /\ pending \in {"no", "new", "due"}
  /\ late \in Nat
  /\ dangling \in BOOLEAN

\* Node::Node: whoever holds a Node was greeted by the node: what the
\* constructor keeps as nodeHelloMessage (the salt of a file's hash is taken
\* from it) is the NodeHello that answers its own ClientHello.
BuiltAfterHello ==
  object = "built" => Said(view[1]) = <<[h |-> "NodeHello", code |-> "", re |-> 1]>>

\* Node::shutdown has seen to it that the manager ends when it returns: it is
\* interrupted or has ended, however the request was answered or the wait went
\* wrong.  Only another command's answer can make it believe otherwise.
ShutdownEndsManager ==
  phase = "after" /\ <<FALSE, "">> \notin clashed => pending # "no" \/ ~Managing

\* A manager that outlives its object is about to end; but one whose object was
\* given up by its own constructor is interrupted by nobody.
OrphansEnd ==
  object = "gone" /\ outcome[1] = "ok" => pending # "no" \/ ~Managing

\* NodeThread::run: an interrupted manager handles at most what is left of the
\* iteration it is in, one message and one request.
OneIterationLeft == late <= 2

\* NodeThread::run, where it handles the interrupt: "normal way to shutdown the
\* thread".  The handler uses the object, which is then still there.
ObjectOutlivesManager == ~dangling

===============================================================================
