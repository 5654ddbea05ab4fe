----------------------------- MODULE NodeLifeProofs ----------------------------
(***************************************************************************)
(* Proofs about NodeLife: what an interrupt leaves of the manager, and     *)
(* which managers outlive their object, for any clients and requests and   *)
(* whatever the node says.                                                 *)
(***************************************************************************)
EXTENDS NodeLife, RoutingProofs

-----------------------------------------------------------------------------
(* The inductive invariants.                                                *)

\* An interrupted manager has handled nothing before the message of its
\* iteration, and one message at most before the request.
LateInv ==
  /\ pending \in {"no", "new", "due"}
  /\ late \in 0 .. 2
  /\ pending = "no" /\ Managing => late = 0
  /\ pending = "new" /\ mgr = "poll" => late = 0
  /\ pending = "new" /\ mgr = "queue" => late <= 1

\* Only the constructor waits for the first request, and it does so only while
\* the object is being made: what became of it is settled after that.
HelloInv ==
  /\ started \in 0 .. MaxJobs
  /\ DOMAIN outcome = Jobs
  /\ cpc \in [Clients -> {"idle", "wait", "read"}]
  /\ cur \in [Clients -> Nat]
  /\ object = "none" => started = 0
  /\ object # "none" => started >= 1
  /\ \A c \in Clients : cpc[c] = "idle" => cur[c] = 0
  /\ \A c \in Clients : cur[c] = 1 => c = Owner /\ object = "building"

\* What the theorems about interrupts rest on.
LifeInv == LateInv /\ HelloInv /\ OrphansEnd

\* checkProtocolError let through what is no error, and only operations that
\* wait for the first message end with their ticket.
JudgedInv ==
  \A j \in Jobs :
    /\ outcome[j] = "ok" => ~IsError(view[j][Len(view[j])])
    /\ outcome[j] = "ticket" => attr[j].wait = "sent"

\* The key of the commands that carry no identifier.
PlainKey == <<FALSE, "">>

\* The constructor's request is ClientHello, and it is alone.
GreetInv ==
  /\ object # "none" => attr[1] = ClientHello
  /\ object \in {"none", "building"} => started <= 1 /\ PlainKey \notin clashed
  /\ jobs[PlainKey] # 0
  /\ BuiltAfterHello

\* The owner waits for its Shutdown until that wait has ended one way or other.
FarewellInv ==
  /\ phase # "use" => farewell \in 1 .. started /\ attr[farewell] = Shutdown
  /\ phase = "shutdown" =>
       IF cpc[Owner] = "idle" THEN outcome[farewell] # "none" ELSE cur[Owner] = farewell
  /\ ShutdownEndsManager

-----------------------------------------------------------------------------
(* The manager.                                                             *)

\* Where a step of the manager leads, and how much it handles on the way.
LEMMA ManagerMoves ==
  ASSUME Manager
  PROVE  /\ UNCHANGED <<started, client>> /\ Managing
         /\ \/ mgr = "poll" /\ mgr' \in {"queue", "failed", "crashed"}
            \/ mgr = "queue" /\ mgr' \in {"poll", "failed"}
<1>1. CASE NoMessage \/ SocketFails
  BY <1>1 DEF NoMessage, SocketFails, Managing
<1>2. CASE DoMessage
  <2>1. UNCHANGED <<started, client>> /\ mgr = "poll"
    BY <1>2 DEF DoMessage
  <2>2. mgr' \in {"queue", "failed", "crashed"}
    BY <1>2 DEF DoMessage, ManagerEnds, NotFound, Deliver
  <2> QED
    BY <2>1, <2>2 DEF Managing
<1>3. CASE NoRequest \/ SendClientReq
  BY <1>3 DEF NoRequest, SendClientReq, Managing
<1> QED
  BY <1>1, <1>2, <1>3 DEF Manager

\* A step of anybody else leaves the manager where it is.
LEMMA OthersLeaveManager ==
  ASSUME \/ \E c \in Clients : ClientStep(c)
         \/ \E c \in Clients, r \in Requests : Call(c, r)
         \/ \E j \in 0 .. MaxJobs : NodeAnswers(j)
         \/ UNCHANGED vars
  PROVE  mgr' = mgr
<1>1. CASE \E c \in Clients : ClientStep(c)
  BY <1>1 DEF ClientStep, WaitOver, GetResponse, GiveUp, manager
<1>2. CASE \E c \in Clients, r \in Requests : Call(c, r)
  BY <1>2 DEF Call
<1>3. CASE \E j \in 0 .. MaxJobs : NodeAnswers(j)
  BY <1>3 DEF NodeAnswers, manager
<1>4. CASE UNCHANGED vars
  BY <1>4 DEF vars, manager
<1> QED
  BY <1>1, <1>2, <1>3, <1>4

\* It holds at first.
LEMMA InitLifeInv == LifeInit => LifeInv
<1> SUFFICES ASSUME LifeInit PROVE LifeInv
  OBVIOUS
<1> USE NodeThreadAssumption DEF LifeInit, Init
<1>1. LateInv
  BY DEF LateInv
<1>2. HelloInv
  BY DEF HelloInv
<1>3. OrphansEnd
  BY DEF OrphansEnd
<1> QED
  BY <1>1, <1>2, <1>3 DEF LifeInv

-----------------------------------------------------------------------------
(* Every step keeps the invariants.                                         *)

\* Every step keeps LateInv.
LEMMA LateStep ==
  ASSUME LateInv, [LifeNext]_lifeVars
  PROVE  LateInv'
<1>1. ASSUME mgr' = mgr, late' = late, pending' = pending PROVE LateInv'
  BY <1>1 DEF LateInv, Managing
<1>2. ASSUME mgr' = mgr, late' = late, Interrupt PROVE LateInv'
  BY <1>2 DEF LateInv, Managing, Interrupt
<1>3. ASSUME Construct \/ ConstructorEnds \/ ShutdownBegins PROVE LateInv'
  <2>1. mgr' = mgr /\ late' = late /\ pending' = pending
    BY <1>3 DEF Construct, ConstructorEnds, ShutdownBegins, Call, vars, manager
  <2> QED
    BY <1>1, <2>1
<1>4. ASSUME ConnectRefused PROVE LateInv'
  <2>1. mgr' = "crashed" /\ late' = late /\ pending' = pending
    BY <1>4 DEF ConnectRefused, life
  <2> QED
    BY <2>1 DEF LateInv, Managing
<1>5. ASSUME ShutdownEnds PROVE LateInv'
  <2>1. mgr' = mgr /\ late' = late /\ (Interrupt \/ pending' = pending)
    BY <1>5 DEF ShutdownEnds, vars, manager
  <2> QED
    BY <1>1, <1>2, <2>1
<1>6. ASSUME Destroy PROVE LateInv'
  <2>1. mgr' = mgr /\ late' = late /\ Interrupt
    BY <1>6 DEF Destroy, vars, manager
  <2> QED
    BY <1>2, <2>1
<1>7. ASSUME ManagerRuns PROVE LateInv'
  <2>1. /\ pending # "due"
        /\ pending' = IF ~Managing' THEN "no" ELSE IF mgr = "queue" THEN Slept ELSE pending
        /\ \/ pending = "new" /\ late' = late + 1
           \/ late' = late
    BY <1>7 DEF ManagerRuns
  <2>2. \/ mgr = "poll" /\ mgr' \in {"queue", "failed", "crashed"}
        \/ mgr = "queue" /\ mgr' \in {"poll", "failed"}
    BY <1>7, ManagerMoves DEF ManagerRuns
  <2> QED
    BY <2>1, <2>2 DEF LateInv, Managing, Slept
<1>8. ASSUME InterruptThrown \/ InterruptSeen PROVE LateInv'
  <2>1. mgr' \in {"failed", "stopped"} /\ pending' = "no" /\ late' = late
    BY <1>8 DEF InterruptThrown, InterruptSeen, ManagerEndsNow
  <2> QED
    BY <2>1 DEF LateInv, Managing
<1>9. ASSUME \/ \E c \in Clients, r \in Requests : Usable(c) /\ Call(c, r) /\ UNCHANGED life
             \/ \E c \in Clients : ClientStep(c) /\ UNCHANGED life
             \/ \E j \in 0 .. MaxJobs : NodeAnswers(j) /\ UNCHANGED life
             \/ UNCHANGED lifeVars
      PROVE  LateInv'
  <2>1. UNCHANGED life
    BY <1>9 DEF lifeVars
  <2>2. mgr' = mgr
    BY <1>9, OthersLeaveManager DEF lifeVars
  <2> QED
    BY <1>1, <2>1, <2>2 DEF life
<1> QED
  BY <1>3, <1>4, <1>5, <1>6, <1>7, <1>8, <1>9
     DEF LifeNext, Starting, ShuttingDown, ManagerStep

\* A call by the constructor is the first one; any other is a later one.
LEMMA HelloCall ==
  ASSUME HelloInv, NEW c \in Clients, NEW r, Call(c, r),
         \/ object' = "building" /\ c = Owner
         \/ object' = object /\ object # "none"
  PROVE  HelloInv'
<1>1. /\ cpc[c] = "idle" /\ started' = started + 1 /\ started < MaxJobs /\ outcome' = outcome
      /\ \/ UNCHANGED <<cpc, cur>>
         \/ /\ cpc' = [cpc EXCEPT ![c] = "wait"]
            /\ cur' = [cur EXCEPT ![c] = started']
  BY DEF Call
<1>2. started' \in 0 .. MaxJobs /\ started' >= 1 /\ (object # "none" => started' >= 2)
  BY <1>1, NodeThreadAssumption DEF HelloInv
<1>3. CASE UNCHANGED <<cpc, cur>>
  BY <1>1, <1>2, <1>3 DEF HelloInv
<1>4. CASE cpc' = [cpc EXCEPT ![c] = "wait"] /\ cur' = [cur EXCEPT ![c] = started']
  <2>1. /\ cpc' \in [Clients -> {"idle", "wait", "read"}] /\ cur' \in [Clients -> Nat]
        /\ cpc'[c] = "wait" /\ cur'[c] = started'
        /\ \A d \in Clients : d # c => cpc'[d] = cpc[d] /\ cur'[d] = cur[d]
    BY <1>2, <1>4 DEF HelloInv
  <2> QED
    BY <1>1, <1>2, <2>1 DEF HelloInv
<1> QED
  BY <1>1, <1>3, <1>4

\* A wait that ends, or an operation, frees its client or leaves it waiting.
LEMMA HelloClient ==
  ASSUME HelloInv, NEW c \in Clients, ClientStep(c)
  PROVE  /\ started' = started
         /\ cpc[c] # "idle"
         /\ cpc' \in [Clients -> {"idle", "wait", "read"}]
         /\ \A d \in Clients : d # c => cpc'[d] = cpc[d] /\ cur'[d] = cur[d]
         /\ cur' \in [Clients -> Nat]
         /\ \/ cpc'[c] = "idle" /\ cur'[c] = 0
            \/ cpc'[c] = "read" /\ cur'[c] = cur[c] /\ outcome' = outcome
         /\ DOMAIN outcome' = DOMAIN outcome
         /\ \A j \in DOMAIN outcome : j # cur[c] => outcome'[j] = outcome[j]
<1>1. started' = started /\ cpc[c] # "idle"
  BY DEF ClientStep, WaitOver, GetResponse, GiveUp, Waiting
<1>2. \/ \E how \in {"ticket", "ok", "error", "timeout", "failure"} : End(c, how)
      \/ cpc' = [cpc EXCEPT ![c] = "read"] /\ UNCHANGED <<cur, outcome>>
  BY DEF ClientStep, WaitOver, GetResponse, GiveUp
<1>3. ASSUME NEW how, End(c, how)
      PROVE  /\ cpc' = [cpc EXCEPT ![c] = "idle"]
             /\ cur' = [cur EXCEPT ![c] = 0]
             /\ outcome' = [outcome EXCEPT ![cur[c]] = how]
  BY <1>3 DEF End
<1>4. CASE cpc' = [cpc EXCEPT ![c] = "read"] /\ UNCHANGED <<cur, outcome>>
  BY <1>1, <1>4 DEF HelloInv
<1>5. ASSUME NEW how, End(c, how)
      PROVE  /\ cpc' \in [Clients -> {"idle", "wait", "read"}]
             /\ \A d \in Clients : d # c => cpc'[d] = cpc[d] /\ cur'[d] = cur[d]
             /\ cur' \in [Clients -> Nat]
             /\ cpc'[c] = "idle" /\ cur'[c] = 0
             /\ DOMAIN outcome' = DOMAIN outcome
             /\ \A j \in DOMAIN outcome : j # cur[c] => outcome'[j] = outcome[j]
  BY <1>3, <1>5 DEF HelloInv
<1> QED
  BY <1>1, <1>2, <1>4, <1>5

\* Every step keeps HelloInv.
LEMMA HelloStep ==
  ASSUME HelloInv, [LifeNext]_lifeVars
  PROVE  HelloInv'
<1>1. ASSUME UNCHANGED <<started, cpc, cur, outcome, object>> PROVE HelloInv'
  BY <1>1 DEF HelloInv
<1>2. ASSUME Construct PROVE HelloInv'
  BY <1>2, HelloCall, OwnerAssumption DEF Construct
<1>3. ASSUME ShutdownBegins PROVE HelloInv'
  BY <1>3, HelloCall, OwnerAssumption DEF ShutdownBegins, Usable
<1>4. ASSUME NEW c \in Clients, NEW r \in Requests, Usable(c), Call(c, r), UNCHANGED life
      PROVE  HelloInv'
  BY <1>4, HelloCall DEF Usable, life
<1>5. ASSUME NEW c \in Clients, ClientStep(c), UNCHANGED life PROVE HelloInv'
  <2>1. object' = object
    BY <1>5 DEF life
  <2> QED
    BY <1>5, <2>1, HelloClient DEF HelloInv
<1>6. ASSUME ConstructorEnds PROVE HelloInv'
  <2>1. UNCHANGED <<started, cpc, cur, outcome>> /\ object = "building" /\ object' \in {"built", "gone"}
        /\ cpc[Owner] = "idle"
    BY <1>6 DEF ConstructorEnds, vars, client
  <2>2. \A c \in Clients : cur[c] # 1
    BY <2>1, OwnerAssumption DEF HelloInv
  <2> QED
    BY <2>1, <2>2 DEF HelloInv
<1>7. ASSUME Destroy PROVE HelloInv'
  <2>1. UNCHANGED <<started, cpc, cur, outcome>> /\ object = "built" /\ object' = "gone"
    BY <1>7 DEF Destroy, Usable, vars, client
  <2> QED
    BY <2>1 DEF HelloInv
<1>8. ASSUME ConnectRefused \/ ShutdownEnds \/ ManagerStep
             \/ (\E j \in 0 .. MaxJobs : NodeAnswers(j) /\ UNCHANGED life)
             \/ UNCHANGED lifeVars
      PROVE  HelloInv'
  <2>1. CASE ConnectRefused \/ ShutdownEnds
    BY <1>1, <2>1 DEF ConnectRefused, ShutdownEnds, vars, client, life
  <2>2. CASE ManagerStep
    BY <1>1, <2>2, ManagerMoves
       DEF ManagerStep, ManagerRuns, InterruptThrown, InterruptSeen, ManagerEndsNow, client
  <2>3. CASE \E j \in 0 .. MaxJobs : NodeAnswers(j) /\ UNCHANGED life
    BY <1>1, <2>3 DEF NodeAnswers, client, life
  <2>4. CASE UNCHANGED lifeVars
    BY <1>1, <2>4 DEF lifeVars, vars, client, life
  <2> QED
    BY <1>8, <2>1, <2>2, <2>3, <2>4
<1> QED
  BY <1>2, <1>3, <1>4, <1>5, <1>6, <1>7, <1>8 DEF LifeNext, Starting, ShuttingDown

\* Every step keeps OrphansEnd.
LEMMA OrphanStep ==
  ASSUME LifeInv, [LifeNext]_lifeVars
  PROVE  OrphansEnd'
<1>0. LateInv /\ HelloInv /\ OrphansEnd
  BY DEF LifeInv
<1>1. ASSUME object' # "gone" PROVE OrphansEnd'
  BY <1>1 DEF OrphansEnd
<1>2. ASSUME UNCHANGED <<object, mgr, outcome>>, pending' = pending \/ Interrupt PROVE OrphansEnd'
  BY <1>0, <1>2 DEF OrphansEnd, Interrupt, Managing
<1>3. ASSUME mgr' \notin {"poll", "queue"} PROVE OrphansEnd'
  BY <1>3 DEF OrphansEnd, Managing
<1>4. ASSUME Starting PROVE OrphansEnd'
  <2>1. CASE Construct
    BY <1>1, <2>1 DEF Construct
  <2>2. CASE ConnectRefused
    BY <1>3, <2>2 DEF ConnectRefused
  <2>3. CASE ConstructorEnds
    BY <2>3 DEF ConstructorEnds, Greeted, OrphansEnd, vars, client
  <2> QED
    BY <1>4, <2>1, <2>2, <2>3 DEF Starting
<1>5. ASSUME ShuttingDown PROVE OrphansEnd'
  <2>1. CASE ShutdownBegins
    BY <1>2, <2>1 DEF ShutdownBegins, Call
  <2>2. CASE ShutdownEnds
    BY <1>2, <2>2 DEF ShutdownEnds, vars, manager, client
  <2> QED
    BY <1>5, <2>1, <2>2 DEF ShuttingDown
<1>6. ASSUME Destroy PROVE OrphansEnd'
  <2>1. mgr' = mgr /\ Interrupt
    BY <1>6 DEF Destroy, vars, manager
  <2> QED
    BY <1>0, <2>1 DEF OrphansEnd, Interrupt, Managing, LateInv
<1>7. ASSUME ManagerRuns PROVE OrphansEnd'
  <2>1. /\ object' = object
        /\ pending' = IF ~Managing' THEN "no" ELSE IF mgr = "queue" THEN Slept ELSE pending
        /\ outcome' = outcome /\ Managing
    BY <1>7, ManagerMoves DEF ManagerRuns, client
  <2> QED
    BY <1>0, <2>1 DEF OrphansEnd, Slept
<1>8. ASSUME InterruptThrown \/ InterruptSeen PROVE OrphansEnd'
  BY <1>3, <1>8 DEF InterruptThrown, InterruptSeen, ManagerEndsNow
<1>9. ASSUME NEW c \in Clients, ClientStep(c), UNCHANGED life PROVE OrphansEnd'
  <2>1. mgr' = mgr /\ UNCHANGED <<object, pending>>
    BY <1>9, OthersLeaveManager DEF life
  <2>2. CASE object = "gone"
    <3>1. cur[c] # 1
      BY <1>0, <2>2 DEF HelloInv
    <3>2. 1 \in DOMAIN outcome
      BY <1>0, <2>2, NodeThreadAssumption DEF HelloInv, Jobs
    <3>3. outcome'[1] = outcome[1]
      BY <1>0, <1>9, <3>1, <3>2, HelloClient
    <3> QED
      BY <1>0, <2>1, <3>3 DEF OrphansEnd, Managing
  <2>3. CASE object # "gone"
    BY <1>1, <2>1, <2>3
  <2> QED
    BY <2>2, <2>3
<1>10. ASSUME \/ \E c \in Clients, r \in Requests : Usable(c) /\ Call(c, r) /\ UNCHANGED life
              \/ \E j \in 0 .. MaxJobs : NodeAnswers(j) /\ UNCHANGED life
              \/ UNCHANGED lifeVars
       PROVE  OrphansEnd'
  <2>1. UNCHANGED <<object, pending, outcome>>
    BY <1>10 DEF lifeVars, life, vars, client, Call, NodeAnswers
  <2>2. mgr' = mgr
    BY <1>10, OthersLeaveManager DEF lifeVars
  <2> QED
    BY <1>2, <2>1, <2>2
<1> QED
  BY <1>4, <1>5, <1>6, <1>7, <1>8, <1>9, <1>10 DEF LifeNext, ManagerStep

-----------------------------------------------------------------------------
(* The routing of NodeThread under the life of the object.                  *)

\* Every step is one of NodeThread's, or takes the manager out of its loop.
LEMMA LifeMoves ==
  ASSUME [LifeNext]_lifeVars
  PROVE  \/ [Next]_vars
         \/ /\ UNCHANGED <<started, ticket, queue, jobs, clashed, inbox, node, client>>
            /\ mgr' \notin {"poll", "queue"}
            /\ Managing \/ object = "none"
<1>1. CASE Construct \/ ShutdownBegins
  BY <1>1, OwnerAssumption DEF Construct, ShutdownBegins, Next
<1>2. CASE ConnectRefused
  BY <1>2 DEF ConnectRefused
<1>3. CASE ConstructorEnds \/ ShutdownEnds \/ Destroy
  BY <1>3 DEF ConstructorEnds, ShutdownEnds, Destroy
<1>4. CASE ManagerRuns
  BY <1>4 DEF ManagerRuns, Next
<1>5. CASE InterruptThrown \/ InterruptSeen
  BY <1>5 DEF InterruptThrown, InterruptSeen, ManagerEndsNow, Managing
<1>6. CASE \/ \E c \in Clients, r \in Requests : Usable(c) /\ Call(c, r) /\ UNCHANGED life
           \/ \E c \in Clients : ClientStep(c) /\ UNCHANGED life
           \/ \E j \in 0 .. MaxJobs : NodeAnswers(j) /\ UNCHANGED life
  BY <1>6 DEF Next
<1>7. CASE UNCHANGED lifeVars
  BY <1>7 DEF lifeVars
<1> QED
  BY <1>1, <1>2, <1>3, <1>4, <1>5, <1>6, <1>7 DEF LifeNext, Starting, ShuttingDown, ManagerStep

\* So the invariant of the routing is one of the object's whole life.
LEMMA RoutingLives ==
  ASSUME RInv, HelloInv, [LifeNext]_lifeVars
  PROVE  RInv'
<1>1. CASE [Next]_vars
  BY <1>1, RoutingStep
<1>2. CASE /\ UNCHANGED <<started, ticket, queue, jobs, clashed, inbox, node, client>>
           /\ mgr' \notin {"poll", "queue"}
           /\ Managing \/ object = "none"
  <2>1. UNCHANGED <<started, attr, resp, finished, queue, jobs, clashed, inbox, sent, script, pos,
                    cpc, cur, outcome, view>>
    BY <1>2 DEF ticket, node, client
  <2>2. Len(sent) = Taken
    <3>1. CASE Managing
      BY <3>1 DEF RInv, IInv, QueueInv, Managing
    <3>2. CASE object = "none"
      <4>1. started = 0 /\ Len(sent) \in Nat /\ Len(queue) \in Nat /\ Len(sent) <= Taken
        BY <3>2 DEF HelloInv, RInv, IInv, QueueInv
      <4> QED
        BY <4>1 DEF Taken
    <3> QED
      BY <1>2, <3>1, <3>2
  <2>3. Taken' = Taken
    BY <2>1 DEF Taken
  <2>4. QueueInv' /\ MapInv' /\ WireInv'
    <3>1. QueueInv'
      BY <2>1, <2>2, <2>3 DEF RInv, IInv, QueueInv
    <3>2. MapInv'
      BY <2>1, <2>3 DEF RInv, IInv, MapInv, Key
    <3>3. WireInv'
      BY <2>1, <2>3 DEF RInv, IInv, WireInv
    <3> QED
      BY <3>1, <3>2, <3>3
  <2>5. TicketInv' /\ ClientInv'
    BY <2>1 DEF RInv, IInv, TicketInv, ClientInv
  <2>6. ScriptInv' /\ AddressInv' /\ ViewInv'
    BY <2>1, <2>3 DEF RInv, ScriptInv, AddressInv, ViewInv
  <2>7. RouteInv'
    BY <1>2 DEF RouteInv, Managing
  <2>8. FinalInv'
    BY <2>1 DEF RInv, FinalInv, Tells, Key
  <2> QED
    BY <2>4, <2>5, <2>6, <2>7, <2>8 DEF RInv, IInv
<1> QED
  BY <1>1, <1>2, LifeMoves

\* A request keeps its attributes from the call on.
LEMMA CallKeeps ==
  ASSUME IInv, NEW c \in Clients, NEW r \in Requests, Call(c, r)
  PROVE  /\ started' = started + 1 /\ started \in Nat /\ started' \in Jobs
         /\ attr'[started'] = r
         /\ \A j \in 0 .. MaxJobs : j # started' => attr'[j] = attr[j]
         /\ UNCHANGED <<jobs, clashed, outcome, view, mgr>>
<1>1. started' = started + 1 /\ started \in Nat /\ started' \in Jobs
  BY CallTaken DEF IInv
<1>2. attr' = [attr EXCEPT ![started'] = r] /\ UNCHANGED <<jobs, clashed, outcome, view, mgr>>
  BY DEF Call
<1>3. DOMAIN attr = 0 .. MaxJobs /\ started' \in 0 .. MaxJobs
  BY <1>1 DEF IInv, WireInv, Jobs
<1> QED
  BY <1>1, <1>2, <1>3

\* Every step keeps JudgedInv.
LEMMA JudgedStep ==
  ASSUME IInv, JudgedInv, [Next]_vars
  PROVE  JudgedInv'
<1>1. ASSUME NEW c \in Clients, NEW r \in Requests, Call(c, r) PROVE JudgedInv'
  <2> SUFFICES ASSUME NEW j \in Jobs
               PROVE  /\ outcome'[j] = "ok" => ~IsError(view'[j][Len(view'[j])])
                      /\ outcome'[j] = "ticket" => attr'[j].wait = "sent"
    BY DEF JudgedInv
  <2>1. outcome' = outcome /\ view' = view /\ started' > started /\ started' \in Jobs
        /\ (j # started' => attr'[j] = attr[j])
    BY <1>1, CallKeeps DEF Jobs
  <2>2. CASE j = started'
    <3>1. outcome[j] = "none"
      BY <2>1, <2>2 DEF IInv, ClientInv
    <3> QED
      BY <2>1, <3>1
  <2>3. CASE j # started'
    BY <2>1, <2>3 DEF JudgedInv
  <2> QED
    BY <2>2, <2>3
<1>2. ASSUME NEW c \in Clients, ClientStep(c) PROVE JudgedInv'
  <2>1. cpc[c] # "idle" /\ attr' = attr
    BY <1>2 DEF ClientStep, WaitOver, GetResponse, GiveUp, Waiting, ticket
  <2>2. cur[c] \in Jobs /\ DOMAIN outcome = Jobs /\ DOMAIN view = Jobs
    BY <2>1 DEF IInv, ClientInv, TicketInv, QueueInv, Jobs
  <2>3. \A j \in Jobs : j # cur[c] => outcome'[j] = outcome[j] /\ view'[j] = view[j]
    BY <1>2, <2>2 DEF ClientStep, WaitOver, GetResponse, GiveUp, End
  <2>4. outcome'[cur[c]] = "ok" => ~IsError(view'[cur[c]][Len(view'[cur[c]])])
    <3>1. CASE WaitOver(c)
      <4>1. outcome'[cur[c]] = "ticket" \/ outcome' = outcome
        BY <2>2, <3>1 DEF WaitOver, End
      <4>2. outcome[cur[c]] = "none"
        BY <2>2 DEF IInv, ClientInv, Jobs
      <4> QED
        BY <4>1, <4>2
    <3>2. CASE GetResponse(c)
      <4>1. view'[cur[c]] = resp[cur[c]]
            /\ outcome'[cur[c]] = IF IsError(resp[cur[c]][Len(resp[cur[c]])]) THEN "error" ELSE "ok"
        BY <2>2, <3>2 DEF GetResponse, End
      <4> QED
        BY <4>1
    <3>3. CASE GiveUp(c)
      BY <2>2, <3>3 DEF GiveUp, End
    <3> QED
      BY <1>2, <3>1, <3>2, <3>3 DEF ClientStep
  <2>5. outcome'[cur[c]] = "ticket" => attr[cur[c]].wait = "sent"
    BY <1>2, <2>1, <2>2 DEF ClientStep, WaitOver, GetResponse, GiveUp, End, IInv, ClientInv
  <2> QED
    BY <2>1, <2>3, <2>4, <2>5 DEF JudgedInv
<1>3. ASSUME Manager \/ (\E j \in 0 .. MaxJobs : NodeAnswers(j)) \/ UNCHANGED vars
      PROVE  JudgedInv'
  <2>1. UNCHANGED <<attr, outcome, view>>
    BY <1>3 DEF Manager, NoMessage, SocketFails, DoMessage, NoRequest, SendClientReq,
                NodeAnswers, vars, ticket, client
  <2> QED
    BY <2>1 DEF JudgedInv
<1> QED
  BY <1>1, <1>2, <1>3 DEF Next

-----------------------------------------------------------------------------
(* The greeting.                                                            *)

\* ClientHello and Shutdown carry no identifier.
LEMMA PlainKeys ==
  ASSUME NEW j, NEW cmd, attr[j] = Command(cmd)
  PROVE  /\ Key(j) = PlainKey /\ attr[j].id = "" /\ attr[j].cmd = cmd
         /\ attr[j].wait = "finished"
<1>1. ASSUME NEW r, r = Command(cmd)
      PROVE  r.global = FALSE /\ r.id = "" /\ r.cmd = cmd /\ r.wait = "finished"
  BY <1>1 DEF Command
<1>2. attr[j].global = FALSE /\ attr[j].id = "" /\ attr[j].cmd = cmd
      /\ attr[j].wait = "finished"
  BY <1>1
<1> QED
  BY <1>2 DEF Key, PlainKey

\* The ticket of an answered request whose key has not clashed, and what its
\* operation returned, hold a conversation the node chose for it.
LEMMA AnsweredByItsOwn ==
  ASSUME RInv, NEW j \in Jobs, outcome[j] \in {"ok", "error"}, Key(j) \notin clashed,
         attr[j].id = ""
  PROVE  /\ script[j] \in Answers(attr[j]) /\ script[j] # <<>>
         /\ view[j] \in Seq(StoredSet) /\ Len(view[j]) = Len(script[j])
         /\ Tells(view[j], j) /\ pos[j] = Len(script[j])
<1>1. finished[j] /\ view[j] = resp[j]
  BY DEF RInv, ViewInv
<1>2. Tells(resp[j], j) /\ pos[j] = Len(script[j])
  BY <1>1 DEF RInv, FinalInv
<1>3. resp[j] # <<>> /\ resp[j] \in Seq(StoredSet)
  BY <1>1 DEF RInv, IInv, TicketInv
<1>4. Len(resp[j]) = Len(script[j])
  BY <1>2 DEF Tells
<1>5. script[j] # <<>>
  <2> SUFFICES ASSUME script[j] = <<>> PROVE FALSE
    OBVIOUS
  <2> DEFINE r == resp[j]
  <2>1. r \in Seq(StoredSet) /\ Len(r) = 0 /\ r # <<>>
    BY <1>3, <1>4
  <2> HIDE DEF r
  <2> QED
    BY <2>1, TailOf
<1>6. script[j] \in Answers(attr[j])
  BY <1>5 DEF RInv, ScriptInv
<1> QED
  BY <1>1, <1>2, <1>3, <1>4, <1>5, <1>6

\* A conversation of one word, as an operation sees it.
LEMMA OneWordSeen ==
  ASSUME RInv, NEW j \in Jobs, NEW w \in WordSet, script[j] = <<w>>,
         view[j] \in Seq(StoredSet), Len(view[j]) = Len(script[j]),
         Tells(view[j], j), pos[j] = Len(script[j])
  PROVE  /\ Said(view[j]) = <<[h |-> w.h, code |-> w.code, re |-> j]>>
         /\ view[j][Len(view[j])].h = w.h
<1>1. Len(script[j]) = 1 /\ script[j][1] = w
  OBVIOUS
<1> DEFINE v == view[j]
<1>2. v \in Seq(StoredSet) /\ Len(v) = 1 /\ v[1].h = w.h /\ v[1].code = w.code /\ v[1].re = j
  BY <1>1 DEF Tells
<1> HIDE DEF v
<1>3. DOMAIN v = 1 .. 1
  BY <1>2
<1>4. Said(v) = [i \in 1 .. 1 |-> [h |-> v[i].h, code |-> v[i].code, re |-> v[i].re]]
  BY <1>3 DEF Said
<1> DEFINE x == [h |-> w.h, code |-> w.code, re |-> j]
<1>5. Said(v) = [i \in 1 .. 1 |-> x]
  BY <1>2, <1>4
<1> HIDE DEF x
<1>6. [i \in 1 .. 1 |-> x] = <<x>>
  OBVIOUS
<1>7. Said(v) = <<x>> /\ v[Len(v)].h = w.h
  BY <1>2, <1>5, <1>6
<1> QED
  BY <1>7 DEF v, x

\* An answer to ClientHello that is no error is NodeHello.
LEMMA HelloIsNodeHello ==
  ASSUME RInv, JudgedInv, 1 \in Jobs, outcome[1] = "ok", attr[1] = ClientHello,
         PlainKey \notin clashed
  PROVE  Said(view[1]) = <<[h |-> "NodeHello", code |-> "", re |-> 1]>>
<1>1. attr[1].id = "" /\ attr[1].cmd = "ClientHello" /\ Key(1) \notin clashed
  BY PlainKeys DEF ClientHello
<1>2. /\ script[1] \in Answers(attr[1])
      /\ view[1] \in Seq(StoredSet) /\ Len(view[1]) = Len(script[1])
      /\ Tells(view[1], 1) /\ pos[1] = Len(script[1])
  BY <1>1, AnsweredByItsOwn
<1>3. script[1] \in {Words(<<"NodeHello">>), Words(<<"CloseConnectionDuplicateName">>)}
  BY <1>1, <1>2, Zenon DEF Answers
<1>4. {"NodeHello", "CloseConnectionDuplicateName"} \subseteq Headers /\ "" \in Codes
  BY DEF Headers, AlwaysLast, Codes
<1>5. CASE script[1] = Words(<<"NodeHello">>)
  <2> DEFINE w == Word("NodeHello")
  <2>1. w \in WordSet /\ w.h = "NodeHello" /\ w.code = "" /\ script[1] = <<w>>
    BY <1>4, <1>5, WordTyped, OneWord
  <2> HIDE DEF w
  <2> QED
    BY <1>2, <2>1, OneWordSeen
<1>6. CASE script[1] = Words(<<"CloseConnectionDuplicateName">>)
  <2> DEFINE w == Word("CloseConnectionDuplicateName")
  <2>1. w \in WordSet /\ w.h = "CloseConnectionDuplicateName" /\ script[1] = <<w>>
    BY <1>4, <1>6, WordTyped, OneWord
  <2> HIDE DEF w
  <2>2. view[1][Len(view[1])].h = "CloseConnectionDuplicateName"
    BY <1>2, <2>1, OneWordSeen
  <2> QED
    BY <2>2 DEF JudgedInv, IsError
<1> QED
  BY <1>3, <1>5, <1>6

\* The node's answer to Shutdown is an error.
LEMMA ShutdownIsError ==
  ASSUME RInv, JudgedInv, NEW j \in Jobs, attr[j] = Shutdown, PlainKey \notin clashed
  PROVE  outcome[j] \notin {"ok", "ticket"}
<1>1. attr[j].id = "" /\ attr[j].cmd = "Shutdown" /\ attr[j].wait = "finished" /\ Key(j) \notin clashed
  BY PlainKeys DEF Shutdown
<1>2. outcome[j] # "ticket"
  BY <1>1 DEF JudgedInv
<1>3. SUFFICES ASSUME outcome[j] = "ok" PROVE FALSE
  BY <1>2
<1>4. /\ script[j] \in Answers(attr[j])
      /\ view[j] \in Seq(StoredSet) /\ Len(view[j]) = Len(script[j])
      /\ Tells(view[j], j) /\ pos[j] = Len(script[j])
  BY <1>1, <1>3, AnsweredByItsOwn
<1> DEFINE w == Failed("ProtocolError", "18")
<1>5. script[j] = <<w>>
  BY <1>1, <1>4, Zenon DEF Answers
<1>6. w \in WordSet /\ w.h = "ProtocolError"
  <2>1. "ProtocolError" \in Headers /\ "18" \in Codes
    BY DEF Headers, AlwaysLast, Codes
  <2> QED
    BY <2>1, WordTyped
<1> HIDE DEF w
<1>7. view[j][Len(view[j])].h = "ProtocolError"
  BY <1>4, <1>5, <1>6, OneWordSeen
<1> QED
  BY <1>3, <1>7 DEF JudgedInv, IsError

\* What a step of the manager does to the map and to the clashed keys, while
\* the constructor's request is the only one.
LEMMA ManagerGreets ==
  ASSUME RInv, HelloInv, GreetInv, Manager
  PROVE  /\ jobs'[PlainKey] # 0
         /\ started <= 1 /\ PlainKey \notin clashed => PlainKey \notin clashed'
<1>0. PlainKey \in Keys /\ DOMAIN jobs = Keys /\ NoTicket # 0 /\ jobs[PlainKey] # 0
  <2>1. ClientHello \in Requests /\ ClientHello.id = ""
    BY OwnerAssumption DEF ClientHello, Command
  <2>2. "" \in {r.id : r \in Requests} /\ FALSE \in BOOLEAN
    BY <2>1
  <2>3. PlainKey \in Keys
    BY <2>2 DEF Keys, PlainKey
  <2>4. DOMAIN jobs = Keys /\ jobs[PlainKey] # 0
    BY DEF RInv, IInv, MapInv, GreetInv
  <2>5. NoTicket # 0
    BY NodeThreadAssumption DEF NoTicket
  <2> QED
    BY <2>3, <2>4, <2>5
<1>1. CASE NoMessage \/ SocketFails \/ NoRequest
  BY <1>0, <1>1 DEF NoMessage, SocketFails, NoRequest
<1>2. CASE DoMessage
  <2>1. clashed' = clashed
    BY <1>2 DEF DoMessage
  <2>2. PICK m \in Messages :
           \/ jobs' = jobs
           \/ NotFound(m)
           \/ \E last \in BOOLEAN : Deliver(m, jobs[<<m.global, m.id>>], last)
    BY <1>2, DoMessageCases DEF RInv
  <2>3. CASE NotFound(m)
    <3>1. <<m.global, m.id>> # PlainKey \/ jobs' = jobs
      BY <2>3 DEF NotFound, PlainKey
    <3> QED
      BY <1>0, <2>1, <2>3, <3>1 DEF NotFound
  <2>4. CASE \E last \in BOOLEAN : Deliver(m, jobs[<<m.global, m.id>>], last)
    BY <1>0, <2>1, <2>4 DEF Deliver, Erase
  <2> QED
    BY <1>0, <2>1, <2>2, <2>3, <2>4
<1>3. CASE SendClientReq
  <2> DEFINE j == Head(queue)
  <2>1. /\ jobs' = jobs \/ jobs' = [jobs EXCEPT ![Key(j)] = j]
        /\ clashed' = clashed \/ (jobs[Key(j)] # NoTicket /\ clashed' = clashed \cup {Key(j)})
    BY <1>3 DEF SendClientReq
  <2>2. j = Taken + 1 /\ j \in Jobs /\ j <= started /\ Taken \in Nat
    BY <1>3, SendTaken DEF RInv, IInv
  <2>3. j # 0 /\ jobs'[PlainKey] # 0
    BY <1>0, <2>1, <2>2 DEF Jobs
  <2>4. ASSUME started <= 1 PROVE jobs[PlainKey] = NoTicket
    <3>1. Taken = 0
      BY <2>2, <2>4, NodeThreadAssumption DEF HelloInv
    <3>2. jobs[PlainKey] \notin Jobs
      BY <1>0, <3>1 DEF RInv, IInv, MapInv, Jobs
    <3> QED
      BY <1>0, <3>2, NodeThreadAssumption DEF RInv, IInv, MapInv, NoTicket, Jobs
  <2> HIDE DEF j
  <2> QED
    BY <2>1, <2>3, <2>4
<1> QED
  BY <1>1, <1>2, <1>3 DEF Manager

\* Every step keeps GreetInv.
LEMMA GreetStep ==
  ASSUME RInv, HelloInv, JudgedInv, GreetInv, [LifeNext]_lifeVars
  PROVE  GreetInv'
<1>0. IInv /\ started \in Nat
  BY NodeThreadAssumption DEF RInv, IInv, QueueInv
<1>1. ASSUME UNCHANGED <<object, attr, started, clashed, jobs, view>> PROVE GreetInv'
  BY <1>1 DEF GreetInv, BuiltAfterHello, Said
<1>2. ASSUME Construct PROVE GreetInv'
  <2>1. object = "none" /\ object' = "building" /\ started = 0
    BY <1>2 DEF Construct, HelloInv
  <2>2. started' = 1 /\ attr'[1] = ClientHello /\ UNCHANGED <<jobs, clashed>>
    BY <1>0, <1>2, <2>1, CallKeeps, OwnerAssumption DEF Construct
  <2> QED
    BY <2>1, <2>2 DEF GreetInv, BuiltAfterHello
<1>3. ASSUME NEW c \in Clients, NEW r \in Requests, Call(c, r), object = "built", object' = object
      PROVE  GreetInv'
  <2>1. started >= 1
    BY <1>3 DEF HelloInv
  <2>2. started' # 1 /\ 1 \in 0 .. MaxJobs /\ UNCHANGED <<jobs, clashed, view>>
        /\ \A j \in 0 .. MaxJobs : j # started' => attr'[j] = attr[j]
    BY <1>0, <1>3, <2>1, CallKeeps, NodeThreadAssumption DEF HelloInv, Jobs
  <2>3. attr'[1] = attr[1]
    BY <2>2
  <2> QED
    BY <1>3, <2>2, <2>3 DEF GreetInv, BuiltAfterHello, Said
<1>4. ASSUME ConstructorEnds PROVE GreetInv'
  <2>1. UNCHANGED <<started, attr, jobs, clashed, outcome, view>> /\ object = "building"
        /\ object' \in {"built", "gone"} /\ (object' = "built" => outcome[1] = "ok")
    BY <1>4 DEF ConstructorEnds, Greeted, vars, ticket, manager, client
  <2>2. 1 \in Jobs
    BY <1>0, <2>1, NodeThreadAssumption DEF HelloInv, Jobs
  <2>3. object' = "built" => Said(view[1]) = <<[h |-> "NodeHello", code |-> "", re |-> 1]>>
    BY <2>1, <2>2, HelloIsNodeHello DEF GreetInv
  <2> QED
    BY <2>1, <2>3 DEF GreetInv, BuiltAfterHello, Said
<1>5. ASSUME Destroy PROVE GreetInv'
  <2>1. UNCHANGED <<attr, jobs>> /\ object = "built" /\ object' = "gone"
    BY <1>5 DEF Destroy, Usable, vars, ticket, manager
  <2> QED
    BY <2>1 DEF GreetInv, BuiltAfterHello
<1>6. ASSUME ManagerRuns PROVE GreetInv'
  <2>1. Manager /\ object' = object
    BY <1>6 DEF ManagerRuns
  <2>2. UNCHANGED <<started, attr, view>>
    BY <2>1 DEF Manager, NoMessage, SocketFails, DoMessage, NoRequest, SendClientReq, ticket, client
  <2> QED
    BY <2>1, <2>2, ManagerGreets DEF GreetInv, BuiltAfterHello, Said
<1>7. ASSUME NEW c \in Clients, ClientStep(c), UNCHANGED life PROVE GreetInv'
  <2>1. UNCHANGED <<object, started, attr, jobs, clashed>> /\ cpc[c] # "idle"
    BY <1>7 DEF ClientStep, WaitOver, GetResponse, GiveUp, Waiting, ticket, manager, life
  <2>2. object = "built" => view'[1] = view[1]
    <3>1. object = "built" => cur[c] # 1
      BY DEF HelloInv
    <3>2. view' = view \/ view' = [view EXCEPT ![cur[c]] = resp[cur[c]]]
      BY <1>7 DEF ClientStep, WaitOver, GetResponse, GiveUp
    <3>3. object = "built" => 1 \in DOMAIN view
      BY NodeThreadAssumption DEF RInv, IInv, TicketInv, HelloInv, Jobs
    <3> QED
      BY <3>1, <3>2, <3>3
  <2> QED
    BY <2>1, <2>2 DEF GreetInv, BuiltAfterHello, Said
<1>8. ASSUME \/ ConnectRefused \/ ShutdownEnds \/ InterruptThrown \/ InterruptSeen
             \/ \E j \in 0 .. MaxJobs : NodeAnswers(j) /\ UNCHANGED life
             \/ UNCHANGED lifeVars
      PROVE  GreetInv'
  <2>1. UNCHANGED <<object, attr, started, clashed, jobs, view>>
    BY <1>8 DEF ConnectRefused, ShutdownEnds, InterruptThrown, InterruptSeen, ManagerEndsNow,
                NodeAnswers, lifeVars, life, vars, ticket, manager, client
  <2> QED
    BY <1>1, <2>1
<1>9. ASSUME ShutdownBegins PROVE GreetInv'
  BY <1>3, <1>9, OwnerAssumption DEF ShutdownBegins, Usable
<1>10. ASSUME NEW c \in Clients, NEW r \in Requests, Usable(c), Call(c, r), UNCHANGED life
       PROVE  GreetInv'
  BY <1>3, <1>10 DEF Usable, life
<1> QED
  BY <1>2, <1>4, <1>5, <1>6, <1>7, <1>8, <1>9, <1>10
     DEF LifeNext, Starting, ShuttingDown, ManagerStep

-----------------------------------------------------------------------------
(* The farewell.                                                            *)

\* Whatever becomes of the manager and its interrupt, an end that is due stays.
LEMMA EndStaysDue ==
  ASSUME LateInv, [LifeNext]_lifeVars, pending # "no" \/ ~Managing
  PROVE  (pending # "no" \/ ~Managing)'
<1>1. ASSUME mgr' = mgr, pending' = pending \/ Interrupt PROVE (pending # "no" \/ ~Managing)'
  BY <1>1 DEF Interrupt, Managing
<1>2. ASSUME mgr' \notin {"poll", "queue"} PROVE (pending # "no" \/ ~Managing)'
  BY <1>2 DEF Managing
<1>3. CASE Construct \/ ConstructorEnds \/ ShuttingDown \/ Destroy
  <2>1. mgr' = mgr /\ (pending' = pending \/ Interrupt)
    BY <1>3 DEF Construct, ConstructorEnds, ShuttingDown, ShutdownBegins, ShutdownEnds, Destroy,
                Call, vars, manager
  <2> QED
    BY <1>1, <2>1
<1>4. CASE ConnectRefused \/ InterruptThrown \/ InterruptSeen
  BY <1>2, <1>4 DEF ConnectRefused, InterruptThrown, InterruptSeen, ManagerEndsNow
<1>5. CASE ManagerRuns
  <2>1. /\ pending' = IF ~Managing' THEN "no" ELSE IF mgr = "queue" THEN Slept ELSE pending
        /\ Managing
    BY <1>5, ManagerMoves DEF ManagerRuns
  <2> QED
    BY <2>1 DEF Slept
<1>6. ASSUME \/ \E c \in Clients, r \in Requests : Usable(c) /\ Call(c, r) /\ UNCHANGED life
             \/ \E c \in Clients : ClientStep(c) /\ UNCHANGED life
             \/ \E j \in 0 .. MaxJobs : NodeAnswers(j) /\ UNCHANGED life
             \/ UNCHANGED lifeVars
      PROVE  (pending # "no" \/ ~Managing)'
  <2>1. pending' = pending
    BY <1>6 DEF lifeVars, life
  <2>2. mgr' = mgr
    BY <1>6, OthersLeaveManager DEF lifeVars
  <2> QED
    BY <1>1, <2>1, <2>2
<1> QED
  BY <1>3, <1>4, <1>5, <1>6 DEF LifeNext, Starting, ManagerStep

\* Clashed keys stay clashed.
LEMMA ClashesStay ==
  ASSUME [LifeNext]_lifeVars
  PROVE  clashed \subseteq clashed'
<1>1. CASE [Next]_vars
  BY <1>1 DEF Next, Call, ClientStep, WaitOver, GetResponse, GiveUp, Manager, NoMessage,
              SocketFails, DoMessage, NoRequest, SendClientReq, NodeAnswers, vars, manager
<1> QED
  BY <1>1, LifeMoves

\* shutdown does not return before the wait for its request has ended, and when
\* it does the manager is interrupted, unless another command's answer came.
LEMMA ShutdownReturns ==
  ASSUME RInv, JudgedInv, FarewellInv, ShutdownEnds, PlainKey \notin clashed
  PROVE  (pending # "no" \/ ~Managing)'
<1>1. phase = "shutdown" /\ cpc[Owner] = "idle" /\ mgr' = mgr
      /\ (Unanswered => Interrupt)
  BY DEF ShutdownEnds, vars, manager
<1>2. farewell \in Jobs /\ attr[farewell] = Shutdown /\ outcome[farewell] # "none"
  <2>1. farewell \in 1 .. started /\ started \in 0 .. MaxJobs
    BY <1>1 DEF FarewellInv, RInv, IInv, QueueInv
  <2>2. farewell \in Jobs
    BY <2>1, NodeThreadAssumption DEF Jobs
  <2> QED
    BY <1>1, <2>2 DEF FarewellInv
<1>3. outcome[farewell] \notin {"ok", "ticket"}
  BY <1>2, ShutdownIsError
<1>4. outcome[farewell] \in {"none", "ticket", "ok", "error", "timeout", "failure"}
  BY <1>2 DEF RInv, IInv, ClientInv
<1>5. Interrupt
  BY <1>1, <1>2, <1>3, <1>4 DEF Unanswered
<1> QED
  BY <1>1, <1>5 DEF Interrupt, Managing

\* Every step keeps FarewellInv.
LEMMA FarewellStep ==
  ASSUME RInv, LateInv, HelloInv, JudgedInv, FarewellInv, [LifeNext]_lifeVars
  PROVE  FarewellInv'
<1>0. IInv /\ started \in Nat /\ Owner \in Clients
  BY NodeThreadAssumption, OwnerAssumption DEF RInv, IInv, QueueInv
<1>1. ASSUME phase' = phase PROVE ShutdownEndsManager'
  <2> SUFFICES ASSUME phase' = "after", PlainKey \notin clashed'
               PROVE  (pending # "no" \/ ~Managing)'
    BY DEF ShutdownEndsManager, PlainKey
  <2>1. PlainKey \notin clashed
    BY ClashesStay
  <2> QED
    BY <1>1, <2>1, EndStaysDue DEF FarewellInv, ShutdownEndsManager, PlainKey
<1>2. ASSUME UNCHANGED <<phase, farewell, started, attr, cpc, cur, outcome>> PROVE FarewellInv'
  BY <1>1, <1>2 DEF FarewellInv
<1>3. ASSUME Construct PROVE FarewellInv'
  <2>1. phase' = phase /\ phase = "use"
    <3>1. started = 0 /\ phase' = phase
      BY <1>3 DEF Construct, HelloInv
    <3> QED
      BY <3>1 DEF FarewellInv
  <2> QED
    BY <1>1, <2>1 DEF FarewellInv
<1>4. ASSUME ShutdownBegins PROVE FarewellInv'
  <2>1. phase' = "shutdown" /\ farewell' = started' /\ Call(Owner, Shutdown)
    BY <1>4 DEF ShutdownBegins
  <2>2. started' \in Nat \ {0} /\ attr'[farewell'] = Shutdown
    BY <1>0, <2>1, CallKeeps, OwnerAssumption DEF Jobs
  <2>3. cpc'[Owner] = "wait" /\ cur'[Owner] = farewell'
    <3>1. Shutdown.wait = "finished"
      BY DEF Shutdown, Command
    <3>2. cpc' = [cpc EXCEPT ![Owner] = "wait"] /\ cur' = [cur EXCEPT ![Owner] = started']
      BY <2>1, <3>1 DEF Call
    <3> QED
      BY <1>0, <2>1, <3>2 DEF IInv, ClientInv
  <2> QED
    <3>1. farewell' \in 1 .. started'
      BY <2>1, <2>2
    <3>2. ShutdownEndsManager'
      BY <2>1 DEF ShutdownEndsManager
    <3> QED
      BY <2>1, <2>2, <2>3, <3>1, <3>2 DEF FarewellInv
<1>5. ASSUME ShutdownEnds PROVE FarewellInv'
  <2>1. phase = "shutdown" /\ phase' = "after" /\ UNCHANGED <<farewell, started, attr, clashed>>
    BY <1>5 DEF ShutdownEnds, vars, ticket, manager
  <2>2. ShutdownEndsManager'
    BY <1>5, <2>1, ShutdownReturns DEF ShutdownEndsManager, PlainKey
  <2> QED
    BY <2>1, <2>2 DEF FarewellInv
<1>6. ASSUME NEW c \in Clients, NEW r \in Requests, Usable(c), Call(c, r), UNCHANGED life
      PROVE  FarewellInv'
  <2>1. UNCHANGED <<phase, farewell>>
    BY <1>6 DEF life
  <2>2. /\ started' = started + 1 /\ outcome' = outcome
        /\ \A j \in 0 .. MaxJobs : j # started' => attr'[j] = attr[j]
    BY <1>0, <1>6, CallKeeps
  <2>3. ASSUME phase # "use" PROVE farewell \in 1 .. started' /\ attr'[farewell] = Shutdown
    <3>1. farewell \in 1 .. started /\ attr[farewell] = Shutdown /\ started <= MaxJobs
      BY <2>3 DEF FarewellInv, HelloInv
    <3>2. farewell \in 0 .. MaxJobs /\ farewell # started' /\ farewell \in 1 .. started'
      BY <1>0, <2>2, <3>1, NodeThreadAssumption
    <3> QED
      BY <2>2, <3>1, <3>2
  <2>4. ASSUME phase = "shutdown" PROVE cpc'[Owner] = cpc[Owner] /\ cur'[Owner] = cur[Owner]
    <3>1. c # Owner
      BY <1>6, <2>4 DEF Usable
    <3> QED
      BY <1>0, <1>6, <3>1 DEF Call, IInv, ClientInv
  <2> QED
    BY <1>1, <2>1, <2>2, <2>3, <2>4 DEF FarewellInv
<1>7. ASSUME NEW c \in Clients, ClientStep(c), UNCHANGED life PROVE FarewellInv'
  <2>1. UNCHANGED <<phase, farewell, started, attr>>
    BY <1>7 DEF life, ClientStep, WaitOver, GetResponse, GiveUp, ticket
  <2>2. ASSUME phase = "shutdown"
        PROVE  IF cpc'[Owner] = "idle" THEN outcome'[farewell] # "none" ELSE cur'[Owner] = farewell
    <3>1. farewell \in Jobs
      <4>1. farewell \in 1 .. started /\ started \in 0 .. MaxJobs
        BY <2>2 DEF FarewellInv, RInv, IInv, QueueInv
      <4> QED
        BY <4>1, NodeThreadAssumption DEF Jobs
    <3>2. CASE c = Owner
      <4>1. cpc[c] # "idle" /\ cur[c] = farewell
        BY <1>7, <2>2, <3>2, HelloClient DEF FarewellInv
      <4>2. \/ \E how \in {"ticket", "ok", "error", "timeout", "failure"} : End(c, how)
            \/ cpc' = [cpc EXCEPT ![c] = "read"] /\ cur' = cur
        BY <1>7 DEF ClientStep, WaitOver, GetResponse, GiveUp
      <4>3. ASSUME NEW how \in {"ticket", "ok", "error", "timeout", "failure"}, End(c, how)
            PROVE  cpc'[c] = "idle" /\ outcome'[farewell] # "none"
        <5>1. cpc' = [cpc EXCEPT ![c] = "idle"] /\ outcome' = [outcome EXCEPT ![farewell] = how]
          BY <4>1, <4>3 DEF End
        <5> QED
          BY <3>1, <5>1 DEF RInv, IInv, ClientInv
      <4>4. CASE cpc' = [cpc EXCEPT ![c] = "read"] /\ cur' = cur
        BY <4>1, <4>4, <3>2 DEF RInv, IInv, ClientInv
      <4> QED
        BY <3>2, <4>2, <4>3, <4>4
    <3>3. CASE c # Owner
      <4>1. cpc'[Owner] = cpc[Owner] /\ cur'[Owner] = cur[Owner]
        BY <1>0, <1>7, <3>3, HelloClient
      <4>2. CASE cpc[Owner] = "idle"
        <5>1. outcome[farewell] # "none" /\ cur[c] \in Jobs /\ outcome[cur[c]] = "none"
          <6>1. cpc[c] # "idle"
            BY <1>7, HelloClient
          <6>2. cur[c] \in Jobs /\ cur[c] # 0
            BY <6>1, NodeThreadAssumption DEF RInv, IInv, ClientInv, QueueInv, Jobs
          <6> QED
            BY <2>2, <4>2, <6>2 DEF FarewellInv, RInv, IInv, ClientInv
        <5>2. farewell # cur[c] /\ farewell \in DOMAIN outcome
          BY <3>1, <5>1 DEF HelloInv
        <5> QED
          BY <1>7, <4>1, <4>2, <5>1, <5>2, HelloClient
      <4>3. CASE cpc[Owner] # "idle"
        BY <2>2, <4>1, <4>3 DEF FarewellInv
      <4> QED
        BY <4>2, <4>3
    <3> QED
      BY <3>2, <3>3
  <2> QED
    BY <1>1, <2>1, <2>2 DEF FarewellInv
<1>8. ASSUME \/ ConnectRefused \/ ConstructorEnds \/ Destroy \/ ManagerStep
             \/ \E j \in 0 .. MaxJobs : NodeAnswers(j) /\ UNCHANGED life
             \/ UNCHANGED lifeVars
      PROVE  FarewellInv'
  <2>1. CASE ConnectRefused \/ ConstructorEnds \/ Destroy
    BY <1>2, <2>1 DEF ConnectRefused, ConstructorEnds, Destroy, life, vars, ticket, client
  <2>2. CASE ManagerStep
    <3>1. UNCHANGED <<phase, farewell, started, attr, cpc, cur, outcome>>
      BY <2>2 DEF ManagerStep, ManagerRuns, Manager, NoMessage, SocketFails, DoMessage, NoRequest,
                  SendClientReq, InterruptThrown, InterruptSeen, ManagerEndsNow, ticket, client
    <3> QED
      BY <1>2, <3>1
  <2>3. CASE (\E j \in 0 .. MaxJobs : NodeAnswers(j) /\ UNCHANGED life) \/ UNCHANGED lifeVars
    BY <1>2, <2>3 DEF NodeAnswers, lifeVars, life, vars, ticket, client
  <2> QED
    BY <1>8, <2>1, <2>2, <2>3
<1> QED
  BY <1>3, <1>4, <1>5, <1>6, <1>7, <1>8 DEF LifeNext, Starting, ShuttingDown

-----------------------------------------------------------------------------
(* The theorems.                                                            *)

\* The three invariants hold together.
THEOREM LifeInvariant == LifeSpec => []LifeInv
<1>1. LifeInv /\ [LifeNext]_lifeVars => LifeInv'
  BY LateStep, HelloStep, OrphanStep DEF LifeInv
<1> QED
  BY <1>1, InitLifeInv, PTL DEF LifeSpec

\* NodeThread::run: an interrupted manager handles at most what is left of the
\* iteration it is in, one message and one request.
THEOREM InterruptEndsIteration == LifeSpec => []OneIterationLeft
<1>1. LifeInv => OneIterationLeft
  BY DEF LifeInv, LateInv, OneIterationLeft
<1> QED
  BY <1>1, LifeInvariant, PTL

\* Node::~Node: the manager of an object that was built and is gone has been
\* interrupted or has ended.
THEOREM DestroyedManagersEnd == LifeSpec => []OrphansEnd
<1>1. LifeInv => OrphansEnd
  BY DEF LifeInv
<1> QED
  BY <1>1, LifeInvariant, PTL

\* An object that is not there yet.
LEMMA ObjectStarts ==
  ASSUME LifeInit
  PROVE  RInv /\ JudgedInv /\ GreetInv /\ FarewellInv
<1>1. RInv
  BY InitRInv DEF LifeInit
<1>2. /\ started = 0 /\ clashed = {} /\ object = "none" /\ phase = "use"
      /\ outcome = [j \in Jobs |-> "none"] /\ jobs = [k \in Keys |-> NoTicket]
  BY DEF LifeInit, Init
<1>3. PlainKey \in Keys
  <2>1. ClientHello \in Requests /\ ClientHello.id = ""
    BY OwnerAssumption DEF ClientHello, Command
  <2>2. "" \in {r.id : r \in Requests} /\ FALSE \in BOOLEAN
    BY <2>1
  <2> QED
    BY <2>2 DEF Keys, PlainKey
<1>4. jobs[PlainKey] # 0
  BY <1>2, <1>3, NodeThreadAssumption DEF NoTicket
<1> QED
  BY <1>1, <1>2, <1>4
     DEF JudgedInv, GreetInv, BuiltAfterHello, FarewellInv, ShutdownEndsManager

\* The routing under the life of the object, and the two invariants about the
\* requests the object itself makes.
THEOREM ObjectInvariant ==
  LifeSpec => [](RInv /\ JudgedInv /\ GreetInv /\ FarewellInv)
<1>1. LifeInit => RInv /\ JudgedInv /\ GreetInv /\ FarewellInv
  BY ObjectStarts
<1>2. /\ LifeInv /\ RInv /\ JudgedInv /\ GreetInv /\ FarewellInv
      /\ [LifeNext]_lifeVars
      => (RInv /\ JudgedInv /\ GreetInv /\ FarewellInv)'
  <2> SUFFICES ASSUME LifeInv, RInv, JudgedInv, GreetInv, FarewellInv, [LifeNext]_lifeVars
               PROVE  RInv' /\ JudgedInv' /\ GreetInv' /\ FarewellInv'
    OBVIOUS
  <2>1. LateInv /\ HelloInv /\ IInv
    BY DEF LifeInv, RInv
  <2>2. JudgedInv'
    <3>1. CASE [Next]_vars
      BY <2>1, <3>1, JudgedStep
    <3>2. CASE UNCHANGED <<ticket, client>>
      BY <3>2 DEF ticket, client, JudgedInv
    <3> QED
      BY <3>1, <3>2, LifeMoves
  <2> QED
    BY <2>1, <2>2, RoutingLives, GreetStep, FarewellStep
<1> QED
  BY <1>1, <1>2, LifeInvariant, PTL DEF LifeSpec

\* Node::Node: whoever holds a Node was greeted by the node.
THEOREM GreetedBeforeUse == LifeSpec => []BuiltAfterHello
<1>1. GreetInv => BuiltAfterHello
  BY DEF GreetInv
<1> QED
  BY <1>1, ObjectInvariant, PTL

\* Node::shutdown: when it returns the manager is interrupted or has ended,
\* unless the request was answered with another command's answer.
THEOREM ShutdownStopsManager == LifeSpec => []ShutdownEndsManager
<1>1. FarewellInv => ShutdownEndsManager
  BY DEF FarewellInv
<1> QED
  BY <1>1, ObjectInvariant, PTL

-----------------------------------------------------------------------------
(* What the manager of an object ends of.                                   *)

\* While no key has clashed, the manager ends because it was interrupted, could
\* not connect, or lost the connection.
EndsForCause ==
  [][clashed = {} /\ Managing /\ ~Managing' =>
       pending # "no" \/ object = "none" \/ "socket" \in Faults]_lifeVars

\* Under the life of the object, too, the connection has what the manager can
\* take.
LEMMA HeardLives ==
  ASSUME UpdatesFit, RInv, HeardInv, [LifeNext]_lifeVars
  PROVE  HeardInv'
<1>1. CASE [Next]_vars
  BY <1>1, HeardStep
<1>2. CASE UNCHANGED <<clashed, inbox, node>>
  BY <1>2 DEF HeardInv, node
<1> QED
  BY <1>1, <1>2, LifeMoves

\* A step by which the manager ends has a cause.
LEMMA CauseOfEnd ==
  ASSUME UpdatesFit, RInv, HeardInv, [LifeNext]_lifeVars, clashed = {}, Managing, ~Managing'
  PROVE  pending # "no" \/ object = "none" \/ "socket" \in Faults
<1>1. CASE ConnectRefused \/ InterruptThrown \/ InterruptSeen
  BY <1>1 DEF ConnectRefused, InterruptThrown, InterruptSeen
<1>2. CASE ManagerRuns
  <2>1. CASE DoMessage
    BY <2>1, HeardDoMessage DEF Managing
  <2>2. CASE ~DoMessage
    BY <1>2, <2>2 DEF ManagerRuns, Manager, NoMessage, SocketFails, NoRequest, SendClientReq,
                      Managing
  <2> QED
    BY <2>1, <2>2
<1>3. CASE ~(ConnectRefused \/ InterruptThrown \/ InterruptSeen \/ ManagerRuns)
  <2>1. mgr' = mgr
    BY <1>3 DEF LifeNext, lifeVars, vars, manager, Starting, Construct, ConstructorEnds,
                ShuttingDown, ShutdownBegins, ShutdownEnds, Destroy, ManagerStep, Call,
                ClientStep, WaitOver, GetResponse, GiveUp, NodeAnswers
  <2> QED
    BY <2>1 DEF Managing
<1> QED
  BY <1>1, <1>2, <1>3

\* The manager of an object runs until it is interrupted or the connection
\* fails: no message that answers a request of the library makes it stop, as
\* long as no key has clashed.
THEOREM ManagerEndsForCause ==
  ASSUME UpdatesFit
  PROVE  LifeSpec => EndsForCause
<1>1. LifeInit => HeardInv
  <2> SUFFICES ASSUME LifeInit PROVE HeardInv
    OBVIOUS
  <2>1. script[0] = GlobalUpdates /\ inbox = <<>> /\ mgr = "poll"
    BY NodeThreadAssumption DEF LifeInit, Init
  <2> QED
    BY <2>1 DEF HeardInv
<1>2. RInv /\ HeardInv /\ [LifeNext]_lifeVars => HeardInv'
  BY HeardLives
<1>3. RInv /\ HeardInv /\ [LifeNext]_lifeVars
      => [clashed = {} /\ Managing /\ ~Managing' =>
            pending # "no" \/ object = "none" \/ "socket" \in Faults]_lifeVars
  BY CauseOfEnd
<1> QED
  BY <1>1, <1>2, <1>3, ObjectInvariant, PTL DEF LifeSpec, EndsForCause

===============================================================================
