-------------------------- MODULE NodeOperationsProofs --------------------------
(***************************************************************************)
(* Proofs about NodeOperations for any clients, any operations and any     *)
(* directories: what a test of direct disk access leaves behind, and what  *)
(* its verdict is about.                                                   *)
(***************************************************************************)
EXTENDS NodeOperations, NodeLifeProofs, CodingProofs

-----------------------------------------------------------------------------
(* The inductive invariant.                                                 *)

Fields == DOMAIN Free

\* The tests and the requests of a directory are asked for by operations that
\* read or write it, and no global get that is refused comes so far.
Asks(o) == ReadsDir(o) \/ WritesDir(o)
Admitted(o) == o.name = "getDisk" => ~GetRefused(o)

\* What r.op is, where r is the state of an operation of client c.
OpFits(c, r) ==
  /\ r.stage # "idle" => r.op \in Operations[c]
  /\ r.stage \in {"test", "respond"} => Asks(r.op) /\ Admitted(r.op)
  /\ r.stage \in {"open", "hash"} => r.op.name = "putDisk"
  /\ r.stage = "request" => r.op.name \in {"putDisk", "getDisk"} /\ Admitted(r.op)
  /\ r.stage = "put" => /\ r.op.name = "putDisk"
                        /\ r.op.global = "1" => r.op.persistent

\* What its request is.
JobFits(r) ==
  /\ r.stage \in {"test", "respond", "put", "sent", "note"} => r.job \in 1 .. started
  /\ r.stage = "respond" => attr[r.job] = TestDDAResponse /\ arg[r.job].dir = r.op.dir
  /\ r.stage = "put" => attr[r.job].cmd = "ClientPut"
  /\ r.stage \in {"remove", "removed"} => r.test \in 1 .. started

\* What testDDA allowed is about a directory that both see.
Granted(r) ==
  PlainKey \notin clashed /\ (r.dda.read \/ r.dda.write) => r.op.dir \in Shared

Typed(r) ==
  /\ DOMAIN r = Fields
  /\ r.stage \in Stages
  /\ r.job \in 0 .. started /\ r.test \in 0 .. started
  /\ r.calls \in 0 .. MaxCalls
  /\ r.value \in Seq(Byte)

RunOk(c, r) == Typed(r) /\ OpFits(c, r) /\ JobFits(r) /\ Granted(r)

RunInv ==
  /\ DOMAIN run = Clients
  /\ \A c \in Clients : RunOk(c, run[c])

\* The fields of a request: one that has not been made has none, a file's
\* content is told of a directory that both see, and a put or get uses the
\* caller's file where both see it, or vouched for by a hash.
ArgOk(a) ==
  /\ a.text \in Seq(Byte)
  /\ a.content \in 0 .. started
  /\ a.content # 0 => arg[a.content].dir \in Shared
  /\ a.from = "disk" /\ PlainKey \notin clashed => a.hash \/ a.dir \in Shared

ArgInv ==
  /\ DOMAIN arg = 0 .. MaxJobs
  /\ \A j \in 0 .. MaxJobs :
       /\ j \notin 1 .. started => arg[j] = NoArg
       /\ ArgOk(arg[j])

\* An operation under way is one of an object that is there.
UseInv == \A c \in Clients : run[c].stage # "idle" => Usable(c)

\* An answer allows the use of a directory that both see.
AnswerInv ==
  /\ DOMAIN answer = 0 .. MaxJobs
  /\ \A j \in 0 .. MaxJobs :
       /\ j > started => answer[j] = NoAnswer
       /\ DOMAIN answer[j] = DOMAIN NoAnswer
       /\ answer[j].text \in Seq(Byte)
       /\ answer[j].read \/ answer[j].write => arg[j].dir \in Shared

FileStates == {"none", "written", "left"}

FilesInv ==
  files \in [0 .. MaxJobs -> FileStates] /\ taken \subseteq Jobs /\ note \in Seq(Byte)

\* The files that nobody has tried to remove.
Written == {i \in Jobs : files[i] = "written"}

\* What NodeLife is known to keep as long as the program has not crashed.
BaseInv == LifeInv /\ RInv /\ JudgedInv /\ GreetInv /\ FarewellInv /\ HeldInv
AliveInv == BaseInv /\ UseInv /\ AnswerInv /\ TestFilesRemoved

LifeSafe == BuiltAfterHello /\ ShutdownEndsManager /\ OrphansEnd /\ OneIterationLeft

OpInv ==
  /\ started \in 0 .. MaxJobs
  /\ mgr # "crashed" => AliveInv
  /\ LifeTypeOK /\ LifeSafe
  /\ RunInv /\ ArgInv /\ FilesInv

-----------------------------------------------------------------------------
(* The life of the object under the operations.                             *)

\* What tickets hold stays as long as the conversations do.
LEMMA HeldKept ==
  ASSUME HeldInv, UNCHANGED <<started, queue, attr, resp, clashed, script, pos>>,
         \A j \in Jobs : outcome'[j] = "ticket" => outcome[j] = "ticket"
  PROVE  HeldInv'
<1>1. Taken' = Taken /\ \A j : Key(j)' = Key(j)
  BY DEF Taken, Key
<1>2. HoldsInv'
  BY <1>1 DEF HeldInv, HoldsInv, Holds
<1>3. ErrorInv' /\ ConfirmedInv'
  BY DEF HeldInv, ErrorInv, ConfirmedInv
<1> QED
  BY <1>2, <1>3 DEF HeldInv

\* A step of NodeLife keeps what is known of it.
LEMMA BaseStep ==
  ASSUME BaseInv, [LifeNext]_lifeVars
  PROVE  BaseInv'
<1>1. /\ LateInv /\ HelloInv /\ RInv /\ JudgedInv /\ GreetInv /\ FarewellInv /\ HeldInv
      /\ IInv /\ LifeInv
  BY DEF BaseInv, LifeInv, RInv
<1>2. LifeInv'
  <2>1. LateInv' /\ HelloInv' /\ OrphansEnd'
    BY <1>1, LateStep, HelloStep, OrphanStep
  <2> QED
    BY <2>1 DEF LifeInv
<1>3. RInv'
  BY <1>1, RoutingLives
<1>4. JudgedInv'
  <2>1. CASE [Next]_vars
    BY <1>1, <2>1, JudgedStep
  <2>2. CASE UNCHANGED <<ticket, client>>
    BY <1>1, <2>2 DEF ticket, client, JudgedInv
  <2> QED
    BY <2>1, <2>2, LifeMoves
<1>5. GreetInv' /\ FarewellInv'
  BY <1>1, GreetStep, FarewellStep
<1>6. HeldInv'
  <2>1. CASE [Next]_vars
    BY <1>1, <2>1, HeldStep
  <2>2. ASSUME UNCHANGED <<started, ticket, queue, jobs, clashed, inbox, node, client>>
        PROVE  HeldInv'
    <3>1. UNCHANGED <<started, queue, attr, resp, clashed, script, pos, outcome>>
      BY <2>2 DEF ticket, node, client
    <3> QED
      BY <1>1, <3>1, HeldKept
  <2> QED
    BY <1>1, <2>1, <2>2, LifeMoves
<1> QED
  BY <1>2, <1>3, <1>4, <1>5, <1>6 DEF BaseInv

\* A put that is locked out gives up like one that was not answered.
LEMMA LockedOutKeeps ==
  ASSUME BaseInv, NEW c \in Clients, PutLockedOut(c), UNCHANGED life
  PROVE  BaseInv'
<1>0. /\ LateInv /\ HelloInv /\ OrphansEnd /\ RInv /\ JudgedInv /\ GreetInv /\ FarewellInv
      /\ HeldInv
      /\ QueueInv /\ WireInv /\ MapInv /\ TicketInv /\ ClientInv
  BY DEF BaseInv, LifeInv, RInv, IInv
<1>1. /\ UNCHANGED <<started, attr, resp, finished, queue, jobs, mgr, clashed, inbox,
                     sent, script, pos, view>>
      /\ UNCHANGED <<object, phase, farewell, pending, late, dangling>>
      /\ cpc[c] = "wait" /\ attr[cur[c]].wait = "sent"
  BY DEF PutLockedOut, LockedOut, ticket, manager, node, life
<1>2. PICK how \in {"timeout", "failure"} : End(c, how)
  BY DEF PutLockedOut
<1>3. /\ cpc' = [cpc EXCEPT ![c] = "idle"] /\ cur' = [cur EXCEPT ![c] = 0]
      /\ outcome' = [outcome EXCEPT ![cur[c]] = how]
  BY <1>2 DEF End
<1>4. cur[c] \in Jobs /\ cur[c] \in 1 .. started
  BY <1>0, <1>1 DEF ClientInv, QueueInv, Jobs
<1>5. /\ cpc' \in [Clients -> {"idle", "wait", "read"}] /\ cpc'[c] = "idle" /\ cur'[c] = 0
      /\ \A d \in Clients : d # c => cpc'[d] = cpc[d] /\ cur'[d] = cur[d]
      /\ cur' \in [Clients -> Nat]
      /\ DOMAIN outcome' = Jobs /\ outcome'[cur[c]] = how
      /\ \A j \in Jobs : j # cur[c] => outcome'[j] = outcome[j]
  BY <1>0, <1>3, <1>4 DEF HelloInv
<1>6. LateInv'
  BY <1>0, <1>1 DEF LateInv, Managing
<1>7. HelloInv'
  BY <1>0, <1>1, <1>5 DEF HelloInv
<1>8. OrphansEnd'
  <2> SUFFICES ASSUME object = "gone", outcome'[1] = "ok" PROVE pending # "no" \/ ~Managing
    BY <1>1 DEF OrphansEnd, Managing
  <2>1. cur[c] # 1 /\ 1 \in Jobs
    BY <1>0, <1>4, NodeThreadAssumption DEF HelloInv, Jobs, QueueInv
  <2>2. outcome[1] = "ok"
    BY <1>5, <2>1
  <2> QED
    BY <1>0, <2>2 DEF OrphansEnd
<1>9. ClientInv'
  BY <1>0, <1>1, <1>2, ClientEnds
<1>10. RInv'
  <2>1. Taken' = Taken
    BY <1>1 DEF Taken
  <2>2. QueueInv' /\ MapInv' /\ WireInv' /\ TicketInv'
    <3>1. QueueInv' /\ TicketInv'
      BY <1>0, <1>1, <2>1 DEF QueueInv, TicketInv
    <3>2. MapInv'
      BY <1>0, <1>1, <2>1 DEF MapInv, Key
    <3>3. WireInv'
      BY <1>0, <1>1, <2>1 DEF WireInv
    <3> QED
      BY <3>1, <3>2, <3>3
  <2>3. ScriptInv' /\ AddressInv' /\ FinalInv'
    <3>1. ScriptInv /\ AddressInv /\ FinalInv
      BY <1>0 DEF RInv
    <3>2. ScriptInv' /\ AddressInv'
      BY <1>1, <2>1, <3>1 DEF ScriptInv, AddressInv
    <3>3. FinalInv'
      BY <1>1, <3>1 DEF FinalInv, Tells, Key
    <3> QED
      BY <3>2, <3>3
  <2>4. RouteInv'
    <3>1. RouteInv
      BY <1>0 DEF RInv
    <3>2. ASSUME NEW j \in Jobs PROVE OnTheWay(j)' = OnTheWay(j)
      BY <1>1 DEF OnTheWay
    <3> QED
      BY <1>1, <2>1, <3>1, <3>2 DEF RouteInv, Managing, Tells, Key
  <2>5. ViewInv'
    BY <1>0, <1>1, <1>5 DEF RInv, ViewInv
  <2> QED
    BY <1>9, <2>2, <2>3, <2>4, <2>5 DEF RInv, IInv
<1>11. JudgedInv'
  BY <1>0, <1>1, <1>5 DEF JudgedInv
<1>12. GreetInv'
  BY <1>0, <1>1 DEF GreetInv, BuiltAfterHello, Said
<1>13. FarewellInv'
  <2>1. ShutdownEndsManager'
    BY <1>0, <1>1 DEF FarewellInv, ShutdownEndsManager, Managing
  <2>2. ASSUME phase = "shutdown"
        PROVE  IF cpc'[Owner] = "idle" THEN outcome'[farewell] # "none" ELSE cur'[Owner] = farewell
    <3>1. farewell \in Jobs /\ attr[farewell] = Shutdown
      BY <1>0, <2>2, NodeThreadAssumption DEF FarewellInv, QueueInv, Jobs
    <3>2. c # Owner
      <4>1. ASSUME c = Owner PROVE cur[c] = farewell
        BY <1>0, <1>1, <2>2, <4>1 DEF FarewellInv
      <4>2. attr[farewell].wait # "sent"
        BY <3>1, PlainKeys DEF Shutdown
      <4> QED
        BY <1>1, <4>1, <4>2
    <3>3. cpc'[Owner] = cpc[Owner] /\ cur'[Owner] = cur[Owner]
      BY <1>5, <3>2, OwnerAssumption
    <3>4. outcome[farewell] # "none" => outcome'[farewell] # "none"
      BY <1>5, <3>1
    <3> QED
      BY <1>0, <2>2, <3>3, <3>4 DEF FarewellInv
  <2> QED
    BY <1>0, <1>1, <2>1, <2>2 DEF FarewellInv
<1>14. HeldInv'
  <2>1. \A j \in Jobs : outcome'[j] = "ticket" => outcome[j] = "ticket"
    BY <1>5
  <2> QED
    BY <1>0, <1>1, <2>1, HeldKept
<1> QED
  BY <1>6, <1>7, <1>8, <1>10, <1>11, <1>12, <1>13, <1>14 DEF BaseInv, LifeInv

-----------------------------------------------------------------------------
(* What every step leaves as it is.                                         *)

\* Requests that were made keep their fields, and clashed keys stay clashed.
Grows ==
  /\ started <= started'
  /\ \A j \in 1 .. started : attr'[j] = attr[j] /\ arg'[j] = arg[j]
  /\ clashed \subseteq clashed'

\* So do the steps of NodeLife with those of the requests.
LEMMA LifeGrows ==
  ASSUME IInv, [LifeNext]_lifeVars
  PROVE  /\ started <= started' /\ clashed \subseteq clashed'
         /\ \A j \in 1 .. started : attr'[j] = attr[j]
<1>1. clashed \subseteq clashed'
  BY ClashesStay
<1>2. started \in 0 .. MaxJobs /\ \A j \in 1 .. started : j \in 0 .. MaxJobs
  BY NodeThreadAssumption DEF IInv, QueueInv
<1>3. CASE \E c \in Clients, r \in Requests : Call(c, r)
  <2>1. started' = started + 1 /\ \A j \in 0 .. MaxJobs : j # started' => attr'[j] = attr[j]
    BY <1>3, CallKeeps
  <2>2. \A j \in 1 .. started : j # started'
    BY <1>2, <2>1
  <2> QED
    BY <1>1, <1>2, <2>1, <2>2
<1>4. CASE UNCHANGED <<started, attr>>
  BY <1>1, <1>2, <1>4
<1>5. CASE [Next]_vars
  <2>1. \/ \E c \in Clients, r \in Requests : Call(c, r)
        \/ UNCHANGED <<started, attr>>
    BY <1>5 DEF Next, ClientStep, WaitOver, GetResponse, GiveUp, Manager, NoMessage,
                SocketFails, DoMessage, NoRequest, SendClientReq, NodeAnswers, vars, ticket
  <2> QED
    BY <1>3, <1>4, <2>1
<1>6. CASE UNCHANGED <<started, ticket>>
  BY <1>4, <1>6 DEF ticket
<1> QED
  BY <1>5, <1>6, LifeMoves

\* What an operation has stays right.
LEMMA RunKept ==
  ASSUME started \in Nat, started' \in Nat, Grows, NEW c, NEW r, RunOk(c, r)
  PROVE  RunOk(c, r)'
<1>1. Typed(r)'
  BY DEF RunOk, Typed, Grows
<1>2. OpFits(c, r)'
  BY DEF RunOk, OpFits, Asks, ReadsDir, WritesDir, Admitted, GetRefused, GetGlobal
<1>3. JobFits(r)'
  <2>1. JobFits(r)
    BY DEF RunOk
  <2>2. ASSUME NEW j \in 1 .. started
        PROVE  j \in 1 .. started' /\ attr'[j] = attr[j] /\ arg'[j] = arg[j]
    BY DEF Grows
  <2>3. r.stage \in {"test", "respond", "put", "sent", "note"} => r.job \in 1 .. started'
    BY <2>1, <2>2 DEF JobFits
  <2>4. r.stage = "respond" => attr'[r.job] = TestDDAResponse /\ arg'[r.job].dir = r.op.dir
    BY <2>1, <2>2 DEF JobFits
  <2>5. r.stage \in {"remove", "removed"} => r.test \in 1 .. started'
    BY <2>1, <2>2 DEF JobFits
  <2>6. r.stage = "put" => attr'[r.job].cmd = "ClientPut"
    BY <2>1, <2>2 DEF JobFits
  <2> QED
    BY <2>3, <2>4, <2>5, <2>6 DEF JobFits
<1>4. Granted(r)'
  BY DEF RunOk, Granted, Grows
<1> QED
  BY <1>1, <1>2, <1>3, <1>4 DEF RunOk

\* The clients' operations, when at most one of them goes on.
LEMMA RunBy ==
  ASSUME RunInv, started \in Nat, started' \in Nat, Grows,
         NEW c \in Clients, NEW s, run' = [run EXCEPT ![c] = s], RunOk(c, s)'
  PROVE  /\ RunInv'
         /\ run'[c] = s /\ \A d \in Clients : d # c => run'[d] = run[d]
<1>1. run'[c] = s /\ DOMAIN run' = Clients /\ \A d \in Clients : d # c => run'[d] = run[d]
  BY DEF RunInv
<1>2. ASSUME NEW d \in Clients PROVE RunOk(d, run[d])'
  <2>1. CASE d = c
    <3>1. PICK x : x = c
      OBVIOUS
    <3>2. run'[x] = s
      BY <1>1, <3>1
    <3> QED
      BY <1>1, <2>1 DEF RunOk, Typed, OpFits, JobFits, Granted
  <2>2. CASE d # c
    <3>1. PICK r : r = run[d]
      OBVIOUS
    <3>2. RunOk(d, r)'
      BY <3>1, RunKept DEF RunInv
    <3>3. run'[d] = r
      BY <1>1, <2>2, <3>1
    <3> QED
      BY <3>2, <3>3 DEF RunOk, Typed, OpFits, JobFits, Granted
  <2> QED
    BY <2>1, <2>2
<1> QED
  BY <1>1, <1>2 DEF RunInv

\* None of them goes on.
LEMMA RunSame ==
  ASSUME RunInv, started \in Nat, started' \in Nat, Grows, run' = run
  PROVE  RunInv'
<1>1. ASSUME NEW d \in Clients PROVE RunOk(d, run[d])'
  <2>1. PICK r : r = run[d]
    OBVIOUS
  <2>2. RunOk(d, r)'
    BY <2>1, RunKept DEF RunInv
  <2>3. run'[d] = r
    BY <2>1
  <2> QED
    BY <2>2, <2>3 DEF RunOk, Typed, OpFits, JobFits, Granted
<1> QED
  BY <1>1 DEF RunInv

\* The fields of a request stay right.
LEMMA ArgKept ==
  ASSUME ArgInv, started \in Nat, started' \in Nat, Grows, NEW a, ArgOk(a)
  PROVE  ArgOk(a)'
<1>1. a.content # 0 => a.content \in 1 .. started
  BY DEF ArgOk
<1>2. a.content # 0 => arg'[a.content] = arg[a.content]
  BY <1>1 DEF Grows
<1> QED
  BY <1>1, <1>2 DEF ArgOk, Grows

-----------------------------------------------------------------------------
(* A request of an operation, and a step without one.                       *)

\* The state s is fit for request r with fields a, to be queued now.
SentOk(c, r, a, s) ==
  /\ DOMAIN s = Fields
  /\ s.stage \in Stages
  /\ s.test \in 0 .. started
  /\ s.calls \in 0 .. MaxCalls
  /\ s.value \in Seq(Byte)
  /\ OpFits(c, s) /\ Granted(s)
  /\ s.stage = "respond" => r = TestDDAResponse /\ a.dir = s.op.dir
  /\ s.stage = "put" => r.cmd = "ClientPut"
  /\ s.stage \in {"remove", "removed"} => s.test \in 1 .. started

\* The number of a request is the one thing that is set on the way.
LEMMA NumberSet ==
  ASSUME NEW s, DOMAIN s = Fields, NEW n
  PROVE  /\ DOMAIN [s EXCEPT !.job = n] = Fields
         /\ [s EXCEPT !.job = n].job = n
         /\ [s EXCEPT !.job = n].op = s.op /\ [s EXCEPT !.job = n].stage = s.stage
         /\ [s EXCEPT !.job = n].test = s.test /\ [s EXCEPT !.job = n].dda = s.dda
         /\ [s EXCEPT !.job = n].calls = s.calls /\ [s EXCEPT !.job = n].value = s.value
         /\ [s EXCEPT !.job = n].how = s.how
  BY DEF Fields, Free

\* What a call with its fields changes.
LEMMA SendSteps ==
  ASSUME OpInv, NEW c \in Clients, NEW r \in Requests, NEW a, NEW s, Usable(c), Send(c, r, a, s)
  PROVE  /\ mgr # "crashed" /\ [LifeNext]_lifeVars
         /\ started \in Nat /\ started' = started + 1 /\ started' \in 0 .. MaxJobs
         /\ attr'[started'] = r /\ arg'[started'] = a /\ DOMAIN arg' = 0 .. MaxJobs
         /\ \A j \in 0 .. MaxJobs : j # started' => attr'[j] = attr[j] /\ arg'[j] = arg[j]
         /\ UNCHANGED <<clashed, mgr, life, answer, note, taken>>
         /\ Grows
<1>1. Call(c, r) /\ mgr # "crashed" /\ UNCHANGED <<life, answer, note, taken>>
      /\ arg' = [arg EXCEPT ![started'] = a]
  BY DEF Send, Call
<1>2. IInv
  BY <1>1 DEF OpInv, AliveInv, BaseInv, RInv
<1>3. /\ started' = started + 1 /\ started \in Nat /\ started' \in Jobs
      /\ attr'[started'] = r /\ \A j \in 0 .. MaxJobs : j # started' => attr'[j] = attr[j]
      /\ UNCHANGED <<clashed, mgr>>
  BY <1>1, <1>2, CallKeeps
<1>4. started' \in 0 .. MaxJobs /\ DOMAIN arg = 0 .. MaxJobs
  BY <1>3, NodeThreadAssumption DEF Jobs, OpInv, ArgInv
<1>5. arg'[started'] = a /\ DOMAIN arg' = 0 .. MaxJobs
      /\ \A j \in 0 .. MaxJobs : j # started' => arg'[j] = arg[j]
  BY <1>1, <1>4
<1>6. Grows
  <2>1. \A j \in 1 .. started : j \in 0 .. MaxJobs /\ j # started'
    BY <1>3, <1>4, NodeThreadAssumption
  <2> QED
    BY <1>3, <1>5, <2>1 DEF Grows
<1>7. [LifeNext]_lifeVars
  BY <1>1 DEF LifeNext
<1> QED
  BY <1>1, <1>3, <1>4, <1>5, <1>6, <1>7

\* Every variable of the object keeps its type.
LEMMA LifeTypes ==
  ASSUME LifeTypeOK, started' \in 0 .. MaxJobs, LateInv', [LifeNext]_lifeVars
  PROVE  LifeTypeOK'
<1>1. late' \in Nat /\ pending' \in {"no", "new", "due"}
  BY DEF LateInv
<1>2. CASE Construct \/ ConstructorEnds \/ ShutdownBegins \/ ShutdownEnds \/ Destroy
  BY <1>1, <1>2 DEF LifeTypeOK, Construct, ConstructorEnds, ShutdownBegins, ShutdownEnds, Destroy
<1>3. CASE ManagerRuns \/ InterruptThrown \/ InterruptSeen
  BY <1>1, <1>3 DEF LifeTypeOK, ManagerRuns, InterruptThrown, InterruptSeen, ManagerEndsNow, Handled
<1>4. CASE UNCHANGED life
  BY <1>4 DEF LifeTypeOK, life
<1> QED
  BY <1>2, <1>3, <1>4 DEF LifeNext, Starting, ShuttingDown, ManagerStep, ConnectRefused, lifeVars

\* What a step of NodeLife or a put that is locked out does for the invariant.
LEMMA BaseSafe ==
  ASSUME OpInv, mgr # "crashed",
         [LifeNext]_lifeVars \/ \E c \in Clients : PutLockedOut(c) /\ UNCHANGED life
  PROVE  /\ started' \in 0 .. MaxJobs /\ started <= started'
         /\ BaseInv' /\ LifeTypeOK' /\ LifeSafe'
<1>1. BaseInv /\ LifeTypeOK
  BY DEF OpInv, AliveInv
<1>2. ASSUME [LifeNext]_lifeVars
      PROVE  started' \in 0 .. MaxJobs /\ started <= started' /\ BaseInv' /\ LifeTypeOK'
  <2>1. BaseInv'
    BY <1>1, <1>2, BaseStep
  <2>2. started' \in 0 .. MaxJobs /\ LateInv'
    BY <2>1 DEF BaseInv, LifeInv, HelloInv
  <2>3. started <= started'
    BY <1>1, <1>2, LifeGrows DEF BaseInv, RInv
  <2>4. LifeTypeOK'
    BY <1>1, <1>2, <2>2, LifeTypes
  <2> QED
    BY <2>1, <2>2, <2>3, <2>4
<1>3. ASSUME \E c \in Clients : PutLockedOut(c) /\ UNCHANGED life
      PROVE  started' \in 0 .. MaxJobs /\ started <= started' /\ BaseInv' /\ LifeTypeOK'
  <2>1. BaseInv'
    BY <1>1, <1>3, LockedOutKeeps
  <2>2. started' = started /\ started \in 0 .. MaxJobs
    BY <1>3 DEF PutLockedOut, OpInv
  <2>3. LifeTypeOK'
    BY <1>1, <1>3 DEF LifeTypeOK, life
  <2> QED
    BY <2>1, <2>2, <2>3
<1>4. BaseInv'
  BY <1>2, <1>3
<1>5. LifeSafe'
  BY <1>4 DEF BaseInv, LifeInv, LateInv, GreetInv, FarewellInv, LifeSafe, OneIterationLeft
<1> QED
  BY <1>2, <1>3, <1>5

\* A client whose operation makes a request, with the files it has left.
LEMMA SendKeeps ==
  ASSUME OpInv, NEW c \in Clients, NEW r \in Requests, NEW a, NEW s, Usable(c), Send(c, r, a, s),
         SentOk(c, r, a, s), ArgOk(a), run[c].stage # "respond",
         files' \in [0 .. MaxJobs -> FileStates],
         \A i \in Written' : i \in Written \/ (i = s.test /\ s.stage = "respond")
  PROVE  OpInv'
<1>1. /\ mgr # "crashed" /\ [LifeNext]_lifeVars
      /\ started \in Nat /\ started' = started + 1 /\ started' \in 0 .. MaxJobs
      /\ attr'[started'] = r /\ arg'[started'] = a /\ DOMAIN arg' = 0 .. MaxJobs
      /\ \A j \in 0 .. MaxJobs : j # started' => attr'[j] = attr[j] /\ arg'[j] = arg[j]
      /\ UNCHANGED <<clashed, mgr, life, answer, note, taken>>
      /\ Grows
  BY SendSteps
<1>2. BaseInv' /\ LifeTypeOK' /\ LifeSafe' /\ started' \in Nat /\ started' >= 1
  BY <1>1, BaseSafe
<1>3. RunInv /\ ArgInv /\ FilesInv /\ UseInv /\ AnswerInv /\ TestFilesRemoved
  BY <1>1 DEF OpInv, AliveInv
<1>4. PICK n : n = started'
  OBVIOUS
<1>5. PICK t : t = [s EXCEPT !.job = n]
  OBVIOUS
<1>6. /\ DOMAIN t = Fields /\ t.job = n /\ t.op = s.op /\ t.stage = s.stage /\ t.test = s.test
      /\ t.dda = s.dda /\ t.calls = s.calls /\ t.value = s.value
  BY <1>5, NumberSet DEF SentOk
<1>7. RunOk(c, t)'
  <2>1. Typed(t)'
    <3>1. n \in 0 .. started' /\ s.test \in 0 .. started'
      BY <1>1, <1>4 DEF SentOk
    <3> QED
      BY <1>6, <3>1 DEF SentOk, Typed
  <2>2. OpFits(c, t)'
    <3>1. OpFits(c, s)
      BY DEF SentOk
    <3> QED
      BY <1>6, <3>1
         DEF OpFits, Asks, ReadsDir, WritesDir, Admitted, GetRefused, GetGlobal
  <2>3. JobFits(t)'
    <3>1. n \in 1 .. started' /\ attr'[n] = r /\ arg'[n] = a
      BY <1>1, <1>2, <1>4
    <3>2. s.stage \in {"remove", "removed"} => s.test \in 1 .. started'
      BY <1>1 DEF SentOk
    <3> QED
      BY <1>6, <3>1, <3>2 DEF SentOk, JobFits
  <2>4. Granted(t)'
    BY <1>1, <1>6 DEF SentOk, Granted
  <2> QED
    BY <2>1, <2>2, <2>3, <2>4 DEF RunOk
<1>8. run' = [run EXCEPT ![c] = t]
  BY <1>4, <1>5 DEF Send
<1>9. RunInv' /\ run'[c] = t /\ \A d \in Clients : d # c => run'[d] = run[d]
  BY <1>1, <1>2, <1>3, <1>7, <1>8, RunBy
<1>10. ArgInv'
  <2>1. ASSUME NEW j \in 0 .. MaxJobs
        PROVE  (j \notin 1 .. started' => arg'[j] = NoArg) /\ ArgOk(arg[j])'
    <3>1. PICK x : x = arg'[j]
      OBVIOUS
    <3>2. ArgOk(x) /\ (j \notin 1 .. started' => x = NoArg)
      <4>1. CASE j = started'
        BY <1>1, <1>2, <3>1, <4>1
      <4>2. CASE j # started'
        BY <1>1, <1>3, <3>1, <4>2 DEF ArgInv
      <4> QED
        BY <4>1, <4>2
    <3>3. ArgOk(x)'
      BY <1>1, <1>2, <1>3, <3>2, ArgKept
    <3> QED
      BY <3>1, <3>2, <3>3 DEF ArgOk
  <2> QED
    BY <1>1, <2>1 DEF ArgInv
<1>11. UseInv'
  BY <1>1, <1>3, <1>9 DEF UseInv, Usable, life
<1>12. AnswerInv'
  <2> SUFFICES ASSUME NEW j \in 0 .. MaxJobs
               PROVE  /\ j > started' => answer[j] = NoAnswer
                      /\ answer[j].read \/ answer[j].write => arg'[j].dir \in Shared
    BY <1>1, <1>3 DEF AnswerInv
  <2>1. j > started' => j > started
    BY <1>1
  <2>2. CASE j = started'
    <3>1. j > started /\ answer[j] = NoAnswer
      BY <1>1, <1>3, <2>2 DEF AnswerInv
    <3>2. ~NoAnswer.read /\ ~NoAnswer.write
      BY DEF NoAnswer
    <3> QED
      BY <3>1, <3>2
  <2>3. CASE j # started'
    BY <1>1, <1>3, <2>1, <2>3 DEF AnswerInv
  <2> QED
    BY <2>2, <2>3
<1>13. FilesInv'
  BY <1>1, <1>3 DEF FilesInv
<1>14. TestFilesRemoved'
  <2> SUFFICES ASSUME NEW i \in Written'
               PROVE  \E d \in Clients : run'[d].stage = "respond" /\ run'[d].test = i
    BY DEF TestFilesRemoved, Written
  <2>1. CASE i = s.test /\ s.stage = "respond"
    BY <1>6, <1>9, <2>1
  <2>2. CASE i \in Written
    <3>1. PICK d \in Clients : run[d].stage = "respond" /\ run[d].test = i
      BY <1>1, <1>3, <2>2 DEF TestFilesRemoved, Written
    <3> QED
      BY <1>9, <3>1
  <2> QED
    BY <2>1, <2>2
<1> QED
  BY <1>1, <1>2, <1>9, <1>10, <1>11, <1>12, <1>13, <1>14 DEF OpInv, AliveInv

\* A step that does nothing to the files.
LEMMA FilesKept ==
  ASSUME OpInv, UNCHANGED files
  PROVE  files' \in [0 .. MaxJobs -> FileStates] /\ \A i \in Written' : i \in Written
BY DEF OpInv, FilesInv, Written

\* A client whose operation goes on without a request.
LEMMA BecomesKeeps ==
  ASSUME OpInv, mgr # "crashed", NEW c \in Clients, NEW s, Becomes(c, s), RunOk(c, s),
         s.stage # "idle" => Usable(c), taken' \subseteq Jobs,
         files' \in [0 .. MaxJobs -> FileStates],
         \A i \in Written' : i \in Written /\ ~(run[c].stage = "respond" /\ run[c].test = i)
  PROVE  OpInv'
<1>1. /\ run' = [run EXCEPT ![c] = s] /\ UNCHANGED <<lifeVars, arg, answer, note>>
      /\ UNCHANGED <<started, attr, clashed, mgr, object, phase>>
  BY DEF Becomes, lifeVars, vars, life, ticket, manager
<1>2. started \in Nat /\ started \in 0 .. MaxJobs /\ Grows /\ [LifeNext]_lifeVars
  BY <1>1 DEF Grows, OpInv
<1>3. BaseInv' /\ LifeTypeOK' /\ LifeSafe' /\ started' \in 0 .. MaxJobs
  BY <1>2, BaseSafe
<1>4. RunInv /\ ArgInv /\ FilesInv /\ UseInv /\ AnswerInv /\ TestFilesRemoved
  BY DEF OpInv, AliveInv
<1>5. RunOk(c, s)'
  BY <1>1, <1>2, RunKept
<1>6. RunInv' /\ run'[c] = s /\ \A d \in Clients : d # c => run'[d] = run[d]
  BY <1>1, <1>2, <1>4, <1>5, RunBy
<1>7. ArgInv'
  BY <1>1, <1>4 DEF ArgInv, ArgOk
<1>8. UseInv'
  BY <1>1, <1>4, <1>6 DEF UseInv, Usable
<1>9. AnswerInv'
  BY <1>1, <1>4 DEF AnswerInv
<1>10. FilesInv'
  BY <1>1, <1>4 DEF FilesInv
<1>11. TestFilesRemoved'
  <2> SUFFICES ASSUME NEW i \in Written'
               PROVE  \E d \in Clients : run'[d].stage = "respond" /\ run'[d].test = i
    BY DEF TestFilesRemoved, Written
  <2>1. PICK d \in Clients : run[d].stage = "respond" /\ run[d].test = i
    BY <1>4 DEF TestFilesRemoved, Written
  <2>2. d # c
    BY <2>1
  <2> QED
    BY <1>6, <2>1, <2>2
<1> QED
  BY <1>3, <1>6, <1>7, <1>8, <1>9, <1>10, <1>11 DEF OpInv, AliveInv

-----------------------------------------------------------------------------
(* How operations begin and end.                                            *)

\* The state of an operation that begins.
LEMMA StartedIs ==
  ASSUME OpInv, NEW c \in Clients, NEW o, Starts(c, o), NEW s, s = Started(c, o)
  PROVE  /\ DOMAIN s = Fields /\ s.op = o /\ s.stage = "idle" /\ s.job = 0 /\ s.test = 0
         /\ s.calls \in 0 .. MaxCalls /\ s.value = <<>> /\ ~s.dda.read /\ ~s.dda.write
         /\ mgr # "crashed" /\ Usable(c) /\ o \in Operations[c] /\ run[c].stage = "idle"
<1>1. run[c].calls \in 0 .. MaxCalls /\ run[c].calls < MaxCalls
  BY DEF OpInv, RunInv, RunOk, Typed, Starts
<1>2. run[c].calls + 1 \in 0 .. MaxCalls
  BY <1>1, OperationsAssumption
<1>3. PICK n : n = run[c].calls + 1
  OBVIOUS
<1>4. s = [Free EXCEPT !.op = o, !.calls = n]
  BY <1>3 DEF Started
<1>5. DOMAIN s = Fields /\ s.op = o /\ s.stage = "idle" /\ s.job = 0 /\ s.test = 0
      /\ s.calls = n /\ s.value = <<>>
  BY <1>4 DEF Fields, Free
<1>6. ~s.dda.read /\ ~s.dda.write
  <2>1. s.dda = [read |-> FALSE, write |-> FALSE]
    BY <1>4 DEF Free
  <2>2. ASSUME NEW d, d = [read |-> FALSE, write |-> FALSE] PROVE ~d.read /\ ~d.write
    BY <2>2
  <2> QED
    BY <2>1, <2>2
<1> QED
  BY <1>2, <1>3, <1>5, <1>6 DEF Starts

\* The state of one that has ended.
LEMMA ReturnedIs ==
  ASSUME NEW r, NEW how, NEW s, s = Returned(r, how)
  PROVE  /\ DOMAIN s = Fields /\ s.op = r.op /\ s.stage = "idle" /\ s.job = r.job /\ s.test = 0
         /\ s.dda = r.dda /\ s.calls = r.calls /\ s.value = <<>> /\ s.how = how
  BY DEF Returned, Fields, Free

\* It is right whatever the operation came from.
LEMMA ReturnedOk ==
  ASSUME NEW c, NEW r, RunOk(c, r), NEW how, started \in Nat
  PROVE  RunOk(c, Returned(r, how))
<1>1. PICK s : s = Returned(r, how)
  OBVIOUS
<1>2. /\ DOMAIN s = Fields /\ s.op = r.op /\ s.stage = "idle" /\ s.job = r.job /\ s.test = 0
      /\ s.dda = r.dda /\ s.calls = r.calls /\ s.value = <<>>
  BY <1>1, ReturnedIs
<1>3. Typed(s)
  <2>1. <<>> \in Seq(Byte) /\ 0 \in 0 .. started /\ "idle" \in Stages
    BY DEF Stages
  <2> QED
    BY <1>2, <2>1 DEF RunOk, Typed
<1>4. OpFits(c, s) /\ JobFits(s) /\ Granted(s)
  BY <1>2 DEF RunOk, OpFits, JobFits, Granted
<1> QED
  BY <1>1, <1>3, <1>4 DEF RunOk

\* An operation that returns.
LEMMA ReturnKeeps ==
  ASSUME OpInv, mgr # "crashed", NEW c \in Clients, NEW how,
         Becomes(c, Returned(run[c], how)), UNCHANGED files, taken' \subseteq Jobs,
         run[c].stage # "respond"
  PROVE  OpInv'
<1>1. started \in Nat /\ RunOk(c, run[c])
  BY DEF OpInv, RunInv
<1>2. PICK s : s = Returned(run[c], how)
  OBVIOUS
<1>3. RunOk(c, s) /\ s.stage = "idle" /\ Becomes(c, s)
  BY <1>1, <1>2, ReturnedOk, ReturnedIs
<1> QED
  BY <1>3, FilesKept, BecomesKeeps

\* An operation that its fields make throw.
LEMMA ThrowKeeps ==
  ASSUME OpInv, NEW c \in Clients, NEW o, Starts(c, o), NEW how,
         Becomes(c, Returned(Started(c, o), how)), UNCHANGED <<files, taken>>
  PROVE  OpInv'
<1>1. PICK f : f = Started(c, o)
  OBVIOUS
<1>2. /\ DOMAIN f = Fields /\ f.op = o /\ f.stage = "idle" /\ f.job = 0 /\ f.test = 0
      /\ f.calls \in 0 .. MaxCalls /\ f.value = <<>> /\ ~f.dda.read /\ ~f.dda.write
      /\ mgr # "crashed" /\ run[c].stage = "idle"
  BY <1>1, StartedIs
<1>3. started \in Nat /\ taken' \subseteq Jobs
  BY DEF OpInv, FilesInv
<1>4. RunOk(c, f)
  <2>1. Typed(f)
    <3>1. <<>> \in Seq(Byte) /\ 0 \in 0 .. started /\ "idle" \in Stages
      BY <1>3 DEF Stages
    <3> QED
      BY <1>2, <3>1 DEF Typed
  <2>2. OpFits(c, f) /\ JobFits(f) /\ Granted(f)
    BY <1>2 DEF OpFits, JobFits, Granted
  <2> QED
    BY <2>1, <2>2 DEF RunOk
<1>5. PICK s : s = Returned(f, how)
  OBVIOUS
<1>6. RunOk(c, s) /\ s.stage = "idle" /\ Becomes(c, s)
  BY <1>1, <1>3, <1>4, <1>5, ReturnedOk, ReturnedIs
<1> QED
  BY <1>2, <1>3, <1>6, FilesKept, BecomesKeeps

\* An operation that begins with a request it goes on to wait for.
LEMMA StartKeeps ==
  ASSUME OpInv, NEW c \in Clients, NEW o, Starts(c, o), NEW r \in Requests, NEW a, ArgOk(a),
         NEW stage \in Stages, NEW test \in 0 .. started,
         stage \notin {"respond", "open", "hash", "request", "put"},
         stage = "test" => Asks(o) /\ Admitted(o),
         stage \in {"remove", "removed"} => test \in 1 .. started,
         NEW s, Send(c, r, a, s), UNCHANGED files,
         \/ s = [Started(c, o) EXCEPT !.stage = stage, !.test = test]
         \/ s = [Started(c, o) EXCEPT !.stage = stage] /\ test = 0
  PROVE  OpInv'
<1>1. PICK f : f = Started(c, o)
  OBVIOUS
<1>2. /\ DOMAIN f = Fields /\ f.op = o /\ f.stage = "idle" /\ f.job = 0 /\ f.test = 0
      /\ f.calls \in 0 .. MaxCalls /\ f.value = <<>> /\ ~f.dda.read /\ ~f.dda.write
      /\ Usable(c) /\ o \in Operations[c] /\ run[c].stage = "idle"
  BY <1>1, StartedIs
<1>3. \/ s = [f EXCEPT !.stage = stage, !.test = test]
      \/ s = [f EXCEPT !.stage = stage] /\ test = 0
  BY <1>1
<1>4. /\ DOMAIN s = Fields /\ s.op = o /\ s.stage = stage /\ s.test = test
      /\ s.calls = f.calls /\ s.value = <<>> /\ s.dda = f.dda
  BY <1>2, <1>3 DEF Fields, Free
<1>5. SentOk(c, r, a, s)
  <2>1. OpFits(c, s) /\ Granted(s)
    BY <1>2, <1>4 DEF OpFits, Granted
  <2>2. <<>> \in Seq(Byte)
    OBVIOUS
  <2> QED
    BY <1>2, <1>4, <2>1, <2>2 DEF SentOk
<1> QED
  BY <1>2, <1>5, FilesKept, SendKeeps

-----------------------------------------------------------------------------
(* testDDA.                                                                 *)

\* A request without a put or a get, and what it tells of a directory.
LEMMA PlainArg ==
  ASSUME NEW a, started \in Nat, a.text = <<>>, a.from = "none",
         a.content = 0 \/ (a.content \in 1 .. started /\ arg[a.content].dir \in Shared)
  PROVE  ArgOk(a)
<1>1. <<>> \in Seq(Byte)
  OBVIOUS
<1> QED
  BY <1>1 DEF ArgOk

\* testDDARequest.
LEMMA StartTestKeeps ==
  ASSUME OpInv, NEW c \in Clients, NEW o, StartTest(c, o)
  PROVE  OpInv'
<1>1. /\ Starts(c, o) /\ Asks(o) /\ Admitted(o) /\ files' = files
      /\ Send(c, TestDDARequest,
              [NoArg EXCEPT !.dir = o.dir, !.read = ReadsDir(o), !.write = WritesDir(o)],
              [Started(c, o) EXCEPT !.stage = "test"])
  BY DEF StartTest, Asks, Admitted
<1>2. PICK a : a = [NoArg EXCEPT !.dir = o.dir, !.read = ReadsDir(o), !.write = WritesDir(o)]
  OBVIOUS
<1>3. a.text = <<>> /\ a.from = "none" /\ a.content = 0
  BY <1>2 DEF NoArg
<1>4. started \in Nat
  BY DEF OpInv
<1>5. ArgOk(a) /\ TestDDARequest \in Requests /\ "test" \in Stages /\ 0 \in 0 .. started
  BY <1>3, <1>4, PlainArg, OperationsAssumption DEF Stages
<1>6. PICK s : s = [Started(c, o) EXCEPT !.stage = "test"]
  OBVIOUS
<1>7. Send(c, TestDDARequest, a, s)
  BY <1>1, <1>2, <1>6
<1> QED
  BY <1>1, <1>5, <1>6, <1>7, StartKeeps

\* The message at the front of a response that is no error.
LEMMA FrontTyped ==
  ASSUME OpInv, mgr # "crashed", NEW c \in Clients, run[c].job \in 1 .. started, Result(c) = "ok"
  PROVE  Front(c).re \in 0 .. MaxJobs
<1>1. RInv /\ run[c].job \in Jobs
  BY NodeThreadAssumption DEF OpInv, AliveInv, BaseInv, Jobs
<1>2. PICK j \in Jobs : j = run[c].job
  BY <1>1
<1>3. finished[j] /\ view[j] = resp[j]
  BY <1>1, <1>2 DEF RInv, ViewInv, Result
<1>4. resp[j] \in Seq(StoredSet) /\ resp[j] # <<>>
  BY <1>1, <1>3 DEF RInv, IInv, TicketInv
<1>5. view[j][1] \in StoredSet
  <2> DEFINE v == view[j]
  <2>1. v \in Seq(StoredSet) /\ v # <<>>
    BY <1>3, <1>4
  <2> HIDE DEF v
  <2>2. v[1] \in StoredSet
    BY <2>1
  <2> QED
    BY <2>2 DEF v
<1> QED
  BY <1>2, <1>5 DEF Front, StoredSet

\* The test that a client answers is one that was asked for.
LEMMA TestIsKnown ==
  ASSUME OpInv, mgr # "crashed", NEW c \in Clients, run[c].stage = "test", ReplyUsable(c)
  PROVE  Front(c).re \in 1 .. started
<1>1. RunOk(c, run[c]) /\ ArgInv
  BY DEF OpInv, RunInv
<1>2. run[c].job \in 1 .. started /\ Asks(run[c].op)
  BY <1>1 DEF RunOk, JobFits, OpFits
<1>3. Front(c).re \in 0 .. MaxJobs
  BY <1>2, FrontTyped DEF ReplyUsable
<1>4. arg[Front(c).re].read \/ arg[Front(c).re].write
  BY <1>2 DEF ReplyUsable, Names, Asks
<1>5. ~NoArg.read /\ ~NoArg.write
  BY DEF NoArg
<1> QED
  BY <1>1, <1>3, <1>4, <1>5 DEF ArgInv

\* testDDAResponse.
LEMMA AnswerTestKeeps ==
  ASSUME OpInv, NEW c \in Clients, AnswerTest(c)
  PROVE  OpInv'
<1>1. run[c].stage = "test" /\ mgr # "crashed" /\ ReplyUsable(c)
  BY DEF AnswerTest, Stage
<1>2. PICK o, t : o = run[c].op /\ t = Front(c).re
  OBVIOUS
<1>3. t \in 1 .. started /\ started \in Nat /\ t \in Jobs
  BY <1>1, <1>2, TestIsKnown, NodeThreadAssumption DEF OpInv, Jobs
<1>4. PICK opened \in BOOLEAN :
        LET seen == opened /\ ReadsDir(o) /\ arg[t].dir \in Shared
        IN  /\ Send(c, TestDDAResponse,
                    [NoArg EXCEPT !.dir = o.dir, !.content = IF seen THEN t ELSE 0],
                    [run[c] EXCEPT !.stage = "respond", !.test = IF WritesDir(o) THEN t ELSE 0])
            /\ files' = IF opened /\ WritesDir(o) THEN [files EXCEPT ![t] = "written"] ELSE files
  BY <1>2 DEF AnswerTest
<1>5. PICK a : a = [NoArg EXCEPT !.dir = o.dir,
                      !.content = IF opened /\ ReadsDir(o) /\ arg[t].dir \in Shared THEN t ELSE 0]
  OBVIOUS
<1>6. PICK s : s = [run[c] EXCEPT !.stage = "respond", !.test = IF WritesDir(o) THEN t ELSE 0]
  OBVIOUS
<1>7. Send(c, TestDDAResponse, a, s)
      /\ files' = IF opened /\ WritesDir(o) THEN [files EXCEPT ![t] = "written"] ELSE files
  BY <1>4, <1>5, <1>6
<1>8. ArgOk(a) /\ a.dir = o.dir
  <2>1. a.text = <<>> /\ a.from = "none" /\ a.dir = o.dir
        /\ a.content = IF opened /\ ReadsDir(o) /\ arg[t].dir \in Shared THEN t ELSE 0
    BY <1>5 DEF NoArg
  <2>2. a.content = 0 \/ (a.content \in 1 .. started /\ arg[a.content].dir \in Shared)
    BY <1>3, <2>1
  <2> QED
    BY <1>3, <2>1, <2>2, PlainArg
<1>9. RunOk(c, run[c]) /\ Usable(c)
  BY <1>1 DEF OpInv, RunInv, AliveInv, UseInv
<1>10. SentOk(c, TestDDAResponse, a, s)
  <2>1. /\ DOMAIN s = Fields /\ s.op = o /\ s.stage = "respond"
        /\ s.test = IF WritesDir(o) THEN t ELSE 0
        /\ s.dda = run[c].dda /\ s.calls = run[c].calls /\ s.value = run[c].value
    BY <1>2, <1>6, <1>9 DEF RunOk, Typed, Fields, Free
  <2>2. s.test \in 0 .. started
    BY <1>3, <2>1
  <2>3. OpFits(c, s)
    BY <1>1, <1>2, <1>9, <2>1 DEF RunOk, OpFits
  <2>4. Granted(s)
    BY <1>2, <1>9, <2>1 DEF RunOk, Granted
  <2> QED
    BY <1>8, <1>9, <2>1, <2>2, <2>3, <2>4 DEF SentOk, RunOk, Typed, Stages
<1>11. /\ files' \in [0 .. MaxJobs -> FileStates]
       /\ \A i \in Written' : i \in Written \/ (i = s.test /\ s.stage = "respond")
  <2>1. s.stage = "respond" /\ s.test = IF WritesDir(o) THEN t ELSE 0
    BY <1>6, <1>9 DEF RunOk, Typed, Fields, Free
  <2>2. files \in [0 .. MaxJobs -> FileStates]
    BY DEF OpInv, FilesInv
  <2>3. CASE opened /\ WritesDir(o)
    <3>1. files' = [files EXCEPT ![t] = "written"] /\ s.test = t
      BY <1>7, <2>1, <2>3
    <3> QED
      BY <1>3, <2>1, <2>2, <3>1 DEF FileStates, Written, Jobs
  <2>4. CASE ~(opened /\ WritesDir(o))
    BY <1>7, <2>2, <2>4 DEF Written
  <2> QED
    BY <2>3, <2>4
<1> QED
  BY <1>1, <1>7, <1>8, <1>9, <1>10, <1>11, SendKeeps, OperationsAssumption

\* Whatever testDDA allowed is about a directory that both see.
LEMMA AfterTestOk ==
  ASSUME NEW c, NEW r, RunOk(c, r), r.stage \in {"test", "respond"}, started \in Nat, NEW d,
         PlainKey \notin clashed /\ (d.read \/ d.write) => r.op.dir \in Shared
  PROVE  RunOk(c, AfterTest(r, d))
<1>1. PICK s : s = [r EXCEPT !.dda = d, !.test = 0]
  OBVIOUS
<1>2. /\ DOMAIN s = Fields /\ s.op = r.op /\ s.stage = r.stage /\ s.job = r.job /\ s.test = 0
      /\ s.dda = d /\ s.calls = r.calls /\ s.value = r.value
  BY <1>1 DEF RunOk, Typed, Fields, Free
<1>3. Asks(s.op) /\ Admitted(s.op) /\ s.op \in Operations[c]
  BY <1>2 DEF RunOk, OpFits
<1>4. /\ s.job \in 0 .. started /\ s.calls \in 0 .. MaxCalls /\ s.value \in Seq(Byte)
      /\ 0 \in 0 .. started /\ <<>> \in Seq(Byte) /\ Granted(s)
  BY <1>2 DEF RunOk, Typed, Granted
<1>5. ASSUME s.op.name = "testDDA" PROVE RunOk(c, AfterTest(r, d))
  <2>1. AfterTest(r, d) = Returned(s, "ok")
    BY <1>1, <1>5 DEF AfterTest
  <2>2. PICK x : x = Returned(s, "ok")
    OBVIOUS
  <2>3. /\ DOMAIN x = Fields /\ x.op = s.op /\ x.stage = "idle" /\ x.job = s.job /\ x.test = 0
        /\ x.dda = s.dda /\ x.calls = s.calls /\ x.value = <<>>
    BY <2>2, ReturnedIs
  <2>4. Typed(x) /\ OpFits(c, x) /\ JobFits(x) /\ Granted(x)
    <3>1. Typed(x)
      BY <1>4, <2>3 DEF Typed, Stages
    <3>2. OpFits(c, x) /\ JobFits(x)
      BY <2>3 DEF OpFits, JobFits
    <3>3. Granted(x)
      BY <1>4, <2>3 DEF Granted
    <3> QED
      BY <3>1, <3>2, <3>3
  <2> QED
    BY <2>1, <2>2, <2>4 DEF RunOk
<1>6. ASSUME s.op.name # "testDDA",
             NEW x, AfterTest(r, d) = x, DOMAIN x = Fields,
             x.op = s.op /\ x.job = s.job /\ x.test = 0 /\ x.dda = s.dda
               /\ x.calls = s.calls /\ x.value = s.value,
             x.stage = "request" \/ (x.stage = "open" /\ s.op.name = "putDisk")
      PROVE  RunOk(c, AfterTest(r, d))
  <2>1. Typed(x)
    BY <1>4, <1>6 DEF Typed, Stages
  <2>2. s.op.name \in {"putDisk", "getDisk"}
    BY <1>3, <1>6 DEF Asks, ReadsDir, WritesDir
  <2>3. OpFits(c, x)
    BY <1>3, <1>6, <2>2 DEF OpFits
  <2>4. JobFits(x)
    BY <1>6 DEF JobFits
  <2>5. Granted(x)
    BY <1>4, <1>6 DEF Granted
  <2> QED
    BY <1>6, <2>1, <2>3, <2>4, <2>5 DEF RunOk
<1>7. ASSUME s.op.name # "testDDA" PROVE RunOk(c, AfterTest(r, d))
  <2>1. PICK x : x = AfterTest(r, d)
    OBVIOUS
  <2>2. \/ x = [s EXCEPT !.stage = "open"] /\ s.op.name = "putDisk"
        \/ x = [s EXCEPT !.stage = "request"]
    BY <1>1, <1>7, <2>1 DEF AfterTest
  <2>3. /\ DOMAIN x = Fields
        /\ x.op = s.op /\ x.job = s.job /\ x.test = 0 /\ x.dda = s.dda
        /\ x.calls = s.calls /\ x.value = s.value
        /\ x.stage = "request" \/ (x.stage = "open" /\ s.op.name = "putDisk")
    BY <1>2, <2>2 DEF Fields, Free
  <2> QED
    BY <1>6, <1>7, <2>1, <2>3
<1> QED
  BY <1>5, <1>7

\* An operation that has the result d of its testDDA, and whose file it has
\* removed, or failed to.
LEMMA TestEnds ==
  ASSUME OpInv, mgr # "crashed", NEW c \in Clients, run[c].stage \in {"test", "respond"}, NEW d,
         PlainKey \notin clashed /\ (d.read \/ d.write) => run[c].op.dir \in Shared,
         Becomes(c, AfterTest(run[c], d)), RemoveFile(c), UNCHANGED taken
  PROVE  OpInv'
<1>1. RunOk(c, run[c]) /\ Usable(c) /\ started \in Nat
  BY DEF OpInv, RunInv, AliveInv, UseInv
<1>2. PICK s : s = AfterTest(run[c], d)
  OBVIOUS
<1>3. RunOk(c, s) /\ Becomes(c, s)
  BY <1>1, <1>2, AfterTestOk
<1>4. taken' \subseteq Jobs /\ files \in [0 .. MaxJobs -> FileStates]
  BY DEF OpInv, FilesInv
<1>5. PICK after \in {"none", "left"} :
        files' = [files EXCEPT ![run[c].test] = IF @ = "none" THEN @ ELSE after]
  BY DEF RemoveFile
<1>6. /\ files' \in [0 .. MaxJobs -> FileStates]
      /\ \A i \in Written' : i \in Written /\ i # run[c].test
  <2>1. PICK x : x = IF files[run[c].test] = "none" THEN files[run[c].test] ELSE after
    OBVIOUS
  <2>2. x \in FileStates /\ x # "written" /\ files' = [files EXCEPT ![run[c].test] = x]
    BY <1>5, <2>1 DEF FileStates
  <2>3. files' \in [0 .. MaxJobs -> FileStates]
    BY <1>4, <2>2
  <2>4. ASSUME NEW i \in 1 .. MaxJobs, files'[i] = "written"
        PROVE  files[i] = "written" /\ i # run[c].test
    <3>1. i \in 0 .. MaxJobs
      BY NodeThreadAssumption
    <3> QED
      BY <1>4, <2>2, <2>4, <3>1
  <2> QED
    BY <2>3, <2>4 DEF Written, Jobs
<1> QED
  BY <1>1, <1>3, <1>4, <1>6, BecomesKeeps

\* testDDA fails, and nothing is allowed.
LEMMA TestFailedKeeps ==
  ASSUME OpInv, NEW c \in Clients, TestFailed(c)
  PROVE  OpInv'
<1>1. mgr # "crashed" /\ run[c].stage \in {"test", "respond"}
      /\ Becomes(c, AfterTest(run[c], Denied)) /\ RemoveFile(c) /\ UNCHANGED taken
  BY DEF TestFailed, Stage
<1>2. ~Denied.read /\ ~Denied.write
  BY DEF Denied
<1> QED
  BY <1>1, <1>2, TestEnds

\* The verdict of the node that comes back to testDDAResponse is one about this
\* very request, unless two plain commands were under way together.
LEMMA VerdictIsShared ==
  ASSUME OpInv, mgr # "crashed", NEW c \in Clients, run[c].stage = "respond", Result(c) = "ok",
         PlainKey \notin clashed, answer[Front(c).re].read \/ answer[Front(c).re].write
  PROVE  run[c].op.dir \in Shared
<1>1. /\ RunOk(c, run[c]) /\ RInv /\ AnswerInv
      /\ run[c].job \in Jobs
  BY NodeThreadAssumption DEF OpInv, RunInv, AliveInv, BaseInv, RunOk, JobFits, Jobs
<1>2. PICK j \in Jobs : j = run[c].job
  BY <1>1
<1>3. attr[j] = TestDDAResponse /\ arg[j].dir = run[c].op.dir
  BY <1>1, <1>2 DEF RunOk, JobFits
<1>4. Key(j) = PlainKey /\ attr[j].id = ""
  BY <1>3, PlainKeys DEF TestDDAResponse
<1>5. script[j] # <<>> /\ Len(view[j]) = Len(script[j]) /\ Tells(view[j], j)
      /\ pos[j] = Len(script[j])
  BY <1>1, <1>2, <1>4, AnsweredByItsOwn DEF Result
<1>6. pos[j] \in Nat /\ pos[j] # 0
  <2>1. j \in 0 .. MaxJobs /\ pos[j] \in Nat /\ script[j] \in Seq(WordSet)
    BY <1>1, <1>2, NodeThreadAssumption DEF Jobs, RInv, IInv, WireInv
  <2> DEFINE s == script[j]
  <2>2. s \in Seq(WordSet) /\ s # <<>>
    BY <1>5, <2>1
  <2> HIDE DEF s
  <2>3. Len(s) # 0
    BY <2>2, TailOf
  <2> QED
    BY <1>5, <2>1, <2>3 DEF s
<1>7. view[j][1].re = j
  BY <1>5, <1>6 DEF Tells
<1>8. answer[j].read \/ answer[j].write
  BY <1>2, <1>7 DEF Front
<1> QED
  BY <1>1, <1>2, <1>3, <1>8, NodeThreadAssumption DEF AnswerInv, Jobs

\* testDDAResponse returns.
LEMMA TestCompletedKeeps ==
  ASSUME OpInv, NEW c \in Clients, TestCompleted(c)
  PROVE  OpInv'
<1>1. mgr # "crashed" /\ run[c].stage = "respond" /\ Result(c) = "ok"
      /\ RemoveFile(c) /\ UNCHANGED taken
  BY DEF TestCompleted, Stage
<1>2. PICK m : m = Front(c)
  OBVIOUS
<1>3. PICK d : d = [read |-> m.h = "TestDDAComplete" /\ answer[m.re]["read"],
                    write |-> m.h = "TestDDAComplete" /\ answer[m.re]["write"]]
  OBVIOUS
<1>4. Becomes(c, AfterTest(run[c], d))
  BY <1>2, <1>3 DEF TestCompleted
<1>5. (d.read => answer[m.re].read) /\ (d.write => answer[m.re].write)
  BY <1>3
<1>6. PlainKey \notin clashed /\ (d.read \/ d.write) => run[c].op.dir \in Shared
  BY <1>1, <1>2, <1>5, VerdictIsShared
<1> QED
  BY <1>1, <1>4, <1>6, TestEnds

-----------------------------------------------------------------------------
(* putDisk, and the other puts and gets.                                    *)

\* The hash of a file is tried.
LEMMA HashKeeps ==
  ASSUME OpInv, NEW c \in Clients, OpenFile(c) \/ OpenFails(c) \/ HashBlock(c)
  PROVE  OpInv'
<1>1. /\ mgr # "crashed" /\ run[c].stage \in {"open", "hash"}
      /\ RunOk(c, run[c]) /\ Usable(c) /\ taken \subseteq Jobs
  BY DEF OpenFile, OpenFails, HashBlock, Stage, OpInv, RunInv, AliveInv, UseInv, FilesInv
<1>2. ASSUME NEW how, Return(c, how) PROVE OpInv'
  BY <1>1, <1>2, ReturnKeeps DEF Return
<1>3. ASSUME NEW s, Becomes(c, s), UNCHANGED <<files, taken>>,
             s.stage = "hash", DOMAIN s = Fields,
             s.op = run[c].op /\ s.job = run[c].job /\ s.test = run[c].test
               /\ s.dda = run[c].dda /\ s.calls = run[c].calls /\ s.value = run[c].value
      PROVE  OpInv'
  <2>1. Typed(s) /\ OpFits(c, s) /\ JobFits(s) /\ Granted(s)
    <3>1. Typed(s)
      BY <1>1, <1>3 DEF RunOk, Typed, Stages
    <3>2. OpFits(c, s)
      BY <1>1, <1>3 DEF RunOk, OpFits
    <3>3. JobFits(s) /\ Granted(s)
      BY <1>1, <1>3 DEF RunOk, JobFits, Granted
    <3> QED
      BY <3>1, <3>2, <3>3
  <2>2. RunOk(c, s)
    BY <2>1 DEF RunOk
  <2> QED
    BY <1>1, <1>3, <2>2, FilesKept, BecomesKeeps
<1>4. CASE OpenFile(c)
  <2>1. PICK word \in WordSizes, n \in SaltBytes :
          Becomes(c, [run[c] EXCEPT
                        !.stage = "hash", !.salt = n,
                        !.sha = SHA256_update(SHA256_init(word), Piece("salt", 1, n))])
    BY <1>4 DEF OpenFile
  <2>2. PICK s : s = [run[c] EXCEPT
                        !.stage = "hash", !.salt = n,
                        !.sha = SHA256_update(SHA256_init(word), Piece("salt", 1, n))]
    OBVIOUS
  <2>3. /\ DOMAIN s = Fields /\ s.stage = "hash"
        /\ s.op = run[c].op /\ s.job = run[c].job /\ s.test = run[c].test
        /\ s.dda = run[c].dda /\ s.calls = run[c].calls /\ s.value = run[c].value
    BY <1>1, <2>2 DEF RunOk, Typed, Fields, Free
  <2> QED
    BY <1>3, <1>4, <2>1, <2>2, <2>3 DEF OpenFile
<1>5. CASE OpenFails(c)
  BY <1>2, <1>5 DEF OpenFails
<1>6. CASE HashBlock(c)
  <2>1. PICK upto : upto = run[c].offset + ReadBytes
    OBVIOUS
  <2>2. CASE upto > run[c].op.length
    BY <1>2, <1>6, <2>1, <2>2 DEF HashBlock
  <2>3. CASE ~(upto > run[c].op.length)
    <3>1. PICK s : s = [run[c] EXCEPT
                          !.sha = SHA256_update(@, Piece("file", run[c].offset + 1, upto)),
                          !.offset = upto]
      OBVIOUS
    <3>2. Becomes(c, s) /\ UNCHANGED <<files, taken>> /\ run[c].stage = "hash"
      BY <1>6, <2>1, <2>3, <3>1 DEF HashBlock, Stage
    <3>3. /\ DOMAIN s = Fields /\ s.stage = run[c].stage
          /\ s.op = run[c].op /\ s.job = run[c].job /\ s.test = run[c].test
          /\ s.dda = run[c].dda /\ s.calls = run[c].calls /\ s.value = run[c].value
      BY <1>1, <3>1 DEF RunOk, Typed, Fields, Free
    <3> QED
      BY <1>3, <3>2, <3>3
  <2> QED
    BY <2>2, <2>3
<1> QED
  BY <1>4, <1>5, <1>6

\* A put is one of the requests of its client, unless its fields refuse it.
LEMMA PutIsRequest ==
  ASSUME NEW c \in Clients, NEW o \in Operations[c], o.name \in Puts,
         o.global = "1" => o.persistent, NEW id \in Identifiers(o.id)
  PROVE  ClientPut(id, [global |-> o.global = "1", persistent |-> o.persistent]) \in Requests
<1>1. PICK p : p = [global |-> o.global = "1", persistent |-> o.persistent]
  OBVIOUS
<1>2. o.persistent \in BOOLEAN
  BY OperationsAssumption
<1>3. p \in [global : BOOLEAN, persistent : BOOLEAN]
  BY <1>1, <1>2
<1>4. p.global => p.persistent
  BY <1>1
<1>5. p \in Persistences
  BY <1>3, <1>4 DEF Persistences
<1> QED
  BY <1>1, <1>5, OperationsAssumption

\* A get is one, too.
LEMMA GetIsRequest ==
  ASSUME NEW c \in Clients, NEW o \in Operations[c], o.name \in Gets, ~GetRefused(o),
         NEW id \in Identifiers(o.id)
  PROVE  /\ GetDisk(id, GetPersistence(o)) \in Requests
         /\ FetchData(id, GetPersistence(o)) \in Requests
         /\ GetDirect(id, GetPersistence(o)) \subseteq Requests
<1>1. PICK p : p = GetPersistence(o)
  OBVIOUS
<1>2. o.persistent \in BOOLEAN /\ GetGlobal(o) \in BOOLEAN
  BY OperationsAssumption DEF GetGlobal
<1>3. p \in [global : BOOLEAN, persistent : BOOLEAN]
  BY <1>1, <1>2 DEF GetPersistence
<1>4. p.global => p.persistent
  BY <1>1 DEF GetPersistence, GetRefused
<1>5. p \in Persistences
  BY <1>3, <1>4 DEF Persistences
<1> QED
  BY <1>1, <1>5, OperationsAssumption

\* The fields of a put: it uses the caller's file where both see it or with a
\* hash.
LEMMA PutArg ==
  ASSUME started \in Nat, NEW a, a.text = <<>>, a.content = 0,
         a.from = "disk" /\ PlainKey \notin clashed => a.hash \/ a.dir \in Shared
  PROVE  ArgOk(a)
<1>1. <<>> \in Seq(Byte) /\ 0 \in 0 .. started
  OBVIOUS
<1> QED
  BY <1>1 DEF ArgOk

\* A put under way in an operation that has begun before.
LEMMA PutKeeps ==
  ASSUME OpInv, mgr # "crashed", NEW c \in Clients, run[c].stage \in {"request", "put"},
         run[c].op.name = "putDisk", run[c].op.global = "1" => run[c].op.persistent,
         NEW from, from \in {"disk", "direct"}, NEW stage, stage \in {"put", "sent"},
         Put(c, run[c].op, from, [run[c] EXCEPT !.stage = stage]), UNCHANGED files
  PROVE  OpInv'
<1>1. RunOk(c, run[c]) /\ Usable(c) /\ started \in Nat
  BY DEF OpInv, RunInv, AliveInv, UseInv
<1>2. PICK o : o = run[c].op
  OBVIOUS
<1>3. PICK id \in Identifiers(o.id) :
        Send(c, ClientPut(id, [global |-> o.global = "1", persistent |-> o.persistent]),
             [NoArg EXCEPT !.dir = o.dir, !.from = from,
                           !.hash = from = "disk" /\ ~run[c].dda.read],
             [run[c] EXCEPT !.stage = stage])
  BY <1>2 DEF Put
<1>4. PICK r : r = ClientPut(id, [global |-> o.global = "1", persistent |-> o.persistent])
  OBVIOUS
<1>5. PICK a : a = [NoArg EXCEPT !.dir = o.dir, !.from = from,
                                 !.hash = from = "disk" /\ ~run[c].dda.read]
  OBVIOUS
<1>6. PICK s : s = [run[c] EXCEPT !.stage = stage]
  OBVIOUS
<1>7. o \in Operations[c] /\ o.name \in Puts
  BY <1>1, <1>2 DEF RunOk, OpFits, Puts
<1>8. r \in Requests
  BY <1>2, <1>4, <1>7, PutIsRequest
<1>9. ArgOk(a)
  <2>1. a.text = <<>> /\ a.content = 0 /\ a.dir = o.dir /\ a.from = from
        /\ a.hash = (from = "disk" /\ ~run[c].dda.read)
    BY <1>5 DEF NoArg
  <2>2. a.from = "disk" /\ PlainKey \notin clashed => a.hash \/ a.dir \in Shared
    BY <1>1, <1>2, <2>1 DEF RunOk, Granted
  <2> QED
    BY <1>1, <2>1, <2>2, PutArg
<1>10. SentOk(c, r, a, s)
  <2>1. /\ DOMAIN s = Fields /\ s.op = o /\ s.stage = stage /\ s.test = run[c].test
        /\ s.dda = run[c].dda /\ s.calls = run[c].calls /\ s.value = run[c].value
    BY <1>1, <1>2, <1>6 DEF RunOk, Typed, Fields, Free
  <2>2. OpFits(c, s)
    BY <1>1, <1>2, <1>7, <2>1 DEF OpFits
  <2>3. Granted(s)
    BY <1>1, <1>2, <2>1 DEF RunOk, Granted
  <2>4. r.cmd = "ClientPut"
    BY <1>4 DEF ClientPut, Command
  <2> QED
    BY <1>1, <2>1, <2>2, <2>3, <2>4 DEF SentOk, RunOk, Typed, Stages
<1> QED
  BY <1>1, <1>3, <1>4, <1>5, <1>6, <1>8, <1>9, <1>10, FilesKept, SendKeeps

\* The put from disk, and its fallback.
LEMMA PutDiskKeeps ==
  ASSUME OpInv, NEW c \in Clients,
         PutFromDisk(c) \/ PutFromDiskEnds(c) \/ PutFallback(c) \/ PutEnds(c)
  PROVE  OpInv'
<1>1. RunOk(c, run[c]) /\ taken \subseteq Jobs
  BY DEF OpInv, RunInv, FilesInv
<1>2. ASSUME NEW how, Becomes(c, Returned(run[c], how)), UNCHANGED <<files, taken>>,
             mgr # "crashed", run[c].stage # "respond"
      PROVE  OpInv'
  BY <1>1, <1>2, ReturnKeeps
<1>3. CASE PutFromDisk(c)
  <2>1. mgr # "crashed" /\ run[c].stage = "request" /\ run[c].op.name = "putDisk"
    BY <1>3 DEF PutFromDisk, Stage
  <2>2. CASE PutRefusal(c, run[c].op) # "none"
    BY <1>2, <1>3, <2>1, <2>2 DEF PutFromDisk, Return
  <2>3. CASE PutRefusal(c, run[c].op) = "none"
    <3>1. run[c].op.global = "1" => run[c].op.persistent
      BY <2>3 DEF PutRefusal
    <3>2. Put(c, run[c].op, "disk", [run[c] EXCEPT !.stage = "put"]) /\ UNCHANGED files
      BY <1>3, <2>3 DEF PutFromDisk
    <3> QED
      BY <2>1, <3>1, <3>2, PutKeeps
  <2> QED
    BY <2>2, <2>3
<1>4. CASE PutFromDiskEnds(c) \/ PutEnds(c)
  BY <1>2, <1>4 DEF PutFromDiskEnds, PutEnds, Stage
<1>5. CASE PutFallback(c)
  <2>1. mgr # "crashed" /\ run[c].stage = "put" /\ run[c].op.name = "putDisk"
        /\ (run[c].op.global = "1" => run[c].op.persistent)
    BY <1>1, <1>5 DEF PutFallback, Stage, RunOk, OpFits
  <2>2. CASE Put(c, run[c].op, "direct", [run[c] EXCEPT !.stage = "sent"]) /\ UNCHANGED files
    BY <2>1, <2>2, PutKeeps
  <2>3. CASE Return(c, "FileError")
    BY <1>2, <2>1, <2>3 DEF Return
  <2> QED
    BY <1>5, <2>2, <2>3 DEF PutFallback
<1> QED
  BY <1>3, <1>4, <1>5

\* putData and putRedirect.
LEMMA StartPutKeeps ==
  ASSUME OpInv, NEW c \in Clients, NEW o \in Operations[c], StartPut(c, o)
  PROVE  OpInv'
<1>1. Starts(c, o) /\ o.name \in Puts
  BY DEF StartPut, Puts
<1>2. CASE PutRefusal(c, o) # "none"
  BY <1>1, <1>2, ThrowKeeps DEF StartPut
<1>3. CASE PutRefusal(c, o) = "none"
  <2>1. PICK from \in {"direct", "redirect"} :
          Put(c, o, from, [Started(c, o) EXCEPT !.stage = "sent"])
    BY <1>3 DEF StartPut
  <2>2. PICK id \in Identifiers(o.id) :
          Send(c, ClientPut(id, [global |-> o.global = "1", persistent |-> o.persistent]),
               [NoArg EXCEPT !.dir = o.dir, !.from = from,
                             !.hash = from = "disk" /\ ~run[c].dda.read],
               [Started(c, o) EXCEPT !.stage = "sent"])
    BY <2>1 DEF Put
  <2>3. PICK r : r = ClientPut(id, [global |-> o.global = "1", persistent |-> o.persistent])
    OBVIOUS
  <2>4. PICK a : a = [NoArg EXCEPT !.dir = o.dir, !.from = from,
                                   !.hash = from = "disk" /\ ~run[c].dda.read]
    OBVIOUS
  <2>5. PICK s : s = [Started(c, o) EXCEPT !.stage = "sent"]
    OBVIOUS
  <2>6. o.global = "1" => o.persistent
    BY <1>3 DEF PutRefusal
  <2>7. r \in Requests
    BY <1>1, <2>3, <2>6, PutIsRequest
  <2>8. ArgOk(a) /\ started \in Nat
    <3>1. a.text = <<>> /\ a.content = 0 /\ a.from # "disk" /\ started \in Nat
      BY <2>4 DEF NoArg, OpInv
    <3> QED
      BY <3>1, PutArg
  <2>9. Send(c, r, a, s) /\ UNCHANGED files /\ "sent" \in Stages /\ 0 \in 0 .. started
    BY <1>3, <2>2, <2>3, <2>4, <2>5, <2>8 DEF StartPut, Stages
  <2> QED
    BY <1>1, <2>5, <2>7, <2>8, <2>9, StartKeeps
<1> QED
  BY <1>2, <1>3

\* An operation that returns as soon as its request is queued.
LEMMA SendReturns ==
  ASSUME OpInv, NEW c \in Clients, Usable(c), run[c].stage # "respond",
         NEW r \in Requests, NEW a, ArgOk(a), NEW b, b.calls \in 0 .. MaxCalls, Granted(b),
         NEW how, Send(c, r, a, Returned(b, how)), UNCHANGED files
  PROVE  OpInv'
<1>1. PICK s : s = Returned(b, how)
  OBVIOUS
<1>2. /\ DOMAIN s = Fields /\ s.op = b.op /\ s.stage = "idle" /\ s.test = 0
      /\ s.dda = b.dda /\ s.calls = b.calls /\ s.value = <<>>
  BY <1>1, ReturnedIs
<1>3. SentOk(c, r, a, s)
  <2>1. OpFits(c, s) /\ Granted(s)
    BY <1>2 DEF OpFits, Granted
  <2>2. <<>> \in Seq(Byte) /\ 0 \in 0 .. started /\ "idle" \in Stages
    BY DEF OpInv, Stages
  <2> QED
    BY <1>2, <2>1, <2>2 DEF SentOk
<1> QED
  BY <1>1, <1>3, FilesKept, SendKeeps

\* fetchData and getDirect.
LEMMA StartGetKeeps ==
  ASSUME OpInv, NEW c \in Clients, NEW o \in Operations[c], StartGet(c, o)
  PROVE  OpInv'
<1>1. Starts(c, o) /\ o.name \in {"fetchData", "getDirect"} /\ ~GetRefused(o)
  BY DEF StartGet
<1>2. PICK id \in Identifiers(o.id) :
        \E r : /\ r = FetchData(id, GetPersistence(o)) \/ r \in GetDirect(id, GetPersistence(o))
              /\ Get(c, r, o)
  BY DEF StartGet
<1>3. PICK r : /\ r = FetchData(id, GetPersistence(o)) \/ r \in GetDirect(id, GetPersistence(o))
               /\ Get(c, r, o)
  BY <1>2
<1>4. r \in Requests
  BY <1>1, <1>3, GetIsRequest DEF Gets
<1>5. PICK a : a = [NoArg EXCEPT !.from = o.name]
  OBVIOUS
<1>6. ArgOk(a)
  <2>1. a.text = <<>> /\ a.content = 0 /\ a.from # "disk" /\ started \in Nat
    BY <1>1, <1>5 DEF NoArg, OpInv
  <2> QED
    BY <2>1, PutArg
<1>7. PICK f : f = Started(c, o)
  OBVIOUS
<1>8. /\ f.calls \in 0 .. MaxCalls /\ ~f.dda.read /\ ~f.dda.write
      /\ Usable(c) /\ run[c].stage = "idle"
  BY <1>1, <1>7, StartedIs
<1>9. Granted(f)
  BY <1>8 DEF Granted
<1>10. Send(c, r, a, Returned(f, "ticket")) /\ UNCHANGED files
  BY <1>3, <1>5, <1>7 DEF Get
<1> QED
  BY <1>4, <1>6, <1>8, <1>9, <1>10, SendReturns

\* getDisk behind its test.
LEMMA GetDiskKeeps ==
  ASSUME OpInv, NEW c \in Clients, GetToDisk(c) \/ GetWithoutDisk(c)
  PROVE  OpInv'
<1>1. /\ mgr # "crashed" /\ run[c].stage = "request" /\ run[c].op.name = "getDisk"
      /\ RunOk(c, run[c]) /\ Usable(c) /\ taken \subseteq Jobs
  BY DEF GetToDisk, GetWithoutDisk, Stage, OpInv, RunInv, AliveInv, UseInv, FilesInv
<1>2. CASE GetWithoutDisk(c)
  BY <1>1, <1>2, ReturnKeeps DEF GetWithoutDisk, Return
<1>3. CASE GetToDisk(c)
  <2>1. PICK o : o = run[c].op
    OBVIOUS
  <2>2. PICK id \in Identifiers(o.id) :
          Send(c, GetDisk(id, GetPersistence(o)), [NoArg EXCEPT !.dir = o.dir, !.from = "disk"],
               Returned(run[c], "ticket"))
    BY <1>3, <2>1 DEF GetToDisk
  <2>3. PICK r : r = GetDisk(id, GetPersistence(o))
    OBVIOUS
  <2>4. PICK a : a = [NoArg EXCEPT !.dir = o.dir, !.from = "disk"]
    OBVIOUS
  <2>5. o \in Operations[c] /\ o.name \in Gets /\ ~GetRefused(o)
    BY <1>1, <2>1 DEF RunOk, OpFits, Admitted, Gets
  <2>6. r \in Requests
    BY <2>3, <2>5, GetIsRequest
  <2>7. ArgOk(a)
    <3>1. a.text = <<>> /\ a.content = 0 /\ a.dir = o.dir /\ started \in Nat
      BY <2>4 DEF NoArg, OpInv
    <3>2. PlainKey \notin clashed => o.dir \in Shared
      BY <1>1, <1>3, <2>1 DEF GetToDisk, RunOk, Granted
    <3> QED
      BY <3>1, <3>2, PutArg
  <2>8. run[c].calls \in 0 .. MaxCalls /\ Granted(run[c]) /\ UNCHANGED files
    BY <1>1, <1>3 DEF RunOk, Typed, GetToDisk
  <2>9. Send(c, r, a, Returned(run[c], "ticket"))
    BY <2>2, <2>3, <2>4
  <2> QED
    BY <1>1, <2>6, <2>7, <2>8, <2>9, SendReturns
<1> QED
  BY <1>2, <1>3

-----------------------------------------------------------------------------
(* Persistent requests and notes.                                           *)

\* modifyPersistentRequest and removePersistentRequest.
LEMMA ModifyKeeps ==
  ASSUME OpInv, NEW c \in Clients, NEW o \in Operations[c], Modify(c, o)
  PROVE  OpInv'
<1>1. /\ Starts(c, o) /\ UNCHANGED files
      /\ Send(c, ModifyPersistentRequest, NoArg, Returned(Started(c, o), "ok"))
  BY DEF Modify
<1>2. PICK f : f = Started(c, o)
  OBVIOUS
<1>3. /\ f.calls \in 0 .. MaxCalls /\ ~f.dda.read /\ ~f.dda.write
      /\ Usable(c) /\ run[c].stage = "idle"
  BY <1>1, <1>2, StartedIs
<1>4. Granted(f) /\ ModifyPersistentRequest \in Requests
  BY <1>3, OperationsAssumption DEF Granted
<1>5. PICK a : a = NoArg
  OBVIOUS
<1>6. ArgOk(a)
  <2>1. a.text = <<>> /\ a.content = 0 /\ a.from # "disk" /\ started \in Nat
    BY <1>5 DEF NoArg, OpInv
  <2> QED
    BY <2>1, PutArg
<1> QED
  BY <1>1, <1>2, <1>3, <1>4, <1>5, <1>6, SendReturns

\* A persistent ticket is that of a request that was made.
LEMMA PersistentIsMade ==
  ASSUME IInv, NEW j \in PersistentJobs
  PROVE  j \in 1 .. started
<1>1. j \in Jobs /\ (outcome[j] = "ticket" \/ \E k \in Keys : jobs[k] = j)
  BY DEF PersistentJobs
<1>2. started \in Nat /\ Len(queue) \in Nat
  BY DEF IInv, QueueInv
<1>3. CASE outcome[j] = "ticket"
  BY <1>1, <1>2, <1>3 DEF IInv, ClientInv, Jobs
<1>4. CASE \E k \in Keys : jobs[k] = j
  <2>1. j <= Taken
    BY <1>1, <1>4 DEF IInv, MapInv
  <2> QED
    BY <1>1, <1>2, <2>1 DEF Taken, Jobs
<1> QED
  BY <1>1, <1>3, <1>4

\* removePersistentRequest queues its request.
LEMMA RemoveStarts ==
  ASSUME OpInv, NEW c \in Clients, NEW o \in Operations[c], Remove(c, o)
  PROVE  OpInv'
<1>1. Starts(c, o) /\ UNCHANGED files /\ mgr # "crashed"
  BY DEF Remove, Starts
<1>2. PICK j \in PersistentJobs :
        Send(c, RemovePersistentRequest, NoArg,
             [Started(c, o) EXCEPT !.stage = "remove", !.test = j])
  BY DEF Remove
<1>3. j \in 1 .. started /\ started \in Nat
  BY <1>1, PersistentIsMade DEF OpInv, AliveInv, BaseInv, RInv
<1>4. PICK a : a = NoArg
  OBVIOUS
<1>5. ArgOk(a)
  <2>1. a.text = <<>> /\ a.content = 0 /\ a.from # "disk"
    BY <1>4 DEF NoArg
  <2> QED
    BY <1>3, <2>1, PutArg
<1>6. PICK s : s = [Started(c, o) EXCEPT !.stage = "remove", !.test = j]
  OBVIOUS
<1>7. j \in 0 .. started /\ "remove" \in Stages /\ RemovePersistentRequest \in Requests
  BY <1>3, OperationsAssumption DEF Stages
<1>8. Send(c, RemovePersistentRequest, a, s)
  BY <1>2, <1>4, <1>6
<1> QED
  BY <1>1, <1>3, <1>5, <1>6, <1>7, <1>8, StartKeeps

\* Its wait on the ticket that is to be removed.
LEMMA RemoveKeeps ==
  ASSUME OpInv, NEW c \in Clients, RemoveConfirmed(c) \/ RemoveEnds(c) \/ RemoveGivesUp(c)
  PROVE  OpInv'
<1>1. /\ mgr # "crashed" /\ run[c].stage \in {"remove", "removed"}
      /\ RunOk(c, run[c]) /\ Usable(c) /\ taken \subseteq Jobs
  BY DEF RemoveConfirmed, RemoveEnds, RemoveGivesUp, Stage, OpInv, RunInv, AliveInv, UseInv,
         FilesInv
<1>2. ASSUME NEW how, Return(c, how) PROVE OpInv'
  BY <1>1, <1>2, ReturnKeeps DEF Return
<1>3. CASE RemoveConfirmed(c)
  <2>1. PICK s : s = [run[c] EXCEPT !.stage = "removed"]
    OBVIOUS
  <2>2. Becomes(c, s) /\ taken' = taken \cup {run[c].test} /\ UNCHANGED files
    BY <1>3, <2>1 DEF RemoveConfirmed
  <2>3. /\ DOMAIN s = Fields /\ s.stage = "removed"
        /\ s.op = run[c].op /\ s.job = run[c].job /\ s.test = run[c].test
        /\ s.dda = run[c].dda /\ s.calls = run[c].calls /\ s.value = run[c].value
    BY <1>1, <2>1 DEF RunOk, Typed, Fields, Free
  <2>4. RunOk(c, s)
    <3>1. Typed(s)
      BY <1>1, <2>3 DEF RunOk, Typed, Stages
    <3>2. OpFits(c, s)
      BY <1>1, <2>3 DEF RunOk, OpFits
    <3>3. JobFits(s) /\ Granted(s)
      BY <1>1, <2>3 DEF RunOk, JobFits, Granted
    <3> QED
      BY <3>1, <3>2, <3>3 DEF RunOk
  <2>5. run[c].test \in Jobs
    <3>1. run[c].test \in 1 .. started /\ started \in 0 .. MaxJobs
      BY <1>1 DEF RunOk, JobFits, OpInv
    <3> QED
      BY <3>1, NodeThreadAssumption DEF Jobs
  <2> QED
    BY <1>1, <2>2, <2>4, <2>5, FilesKept, BecomesKeeps
<1>4. CASE RemoveEnds(c) \/ RemoveGivesUp(c)
  BY <1>2, <1>4 DEF RemoveEnds, RemoveGivesUp
<1> QED
  BY <1>3, <1>4

\* The text of a note that a client sets.
LEMMA NoteArg ==
  ASSUME NEW c \in Clients, NEW o \in Operations[c], o.name = "modifyPeerNote", started \in Nat,
         NEW a, a = [NoArg EXCEPT !.text = Encode(o.note)]
  PROVE  ArgOk(a)
<1>1. o.note \in Seq(Byte)
  BY OperationsAssumption
<1>2. PICK text : text = Encode(o.note)
  OBVIOUS
<1>3. text \in Seq(Byte)
  BY <1>1, <1>2, EncodeTyped
<1>4. a.text = text /\ a.content = 0 /\ a.from = "none"
  BY <1>2 DEF NoArg
<1> QED
  BY <1>3, <1>4 DEF ArgOk

\* modifyPeerNote and listPeerNotes.
LEMMA StartNoteKeeps ==
  ASSUME OpInv, NEW c \in Clients, NEW o \in Operations[c], StartNote(c, o)
  PROVE  OpInv'
<1>1. Starts(c, o) /\ UNCHANGED files /\ started \in Nat
  BY DEF StartNote, OpInv
<1>2. PICK r \in {ModifyPeerNote, ListPeerNotes} : \E a :
        /\ Send(c, r, a, [Started(c, o) EXCEPT !.stage = "note"])
        /\ \/ o.name = "modifyPeerNote" /\ a = [NoArg EXCEPT !.text = Encode(o.note)]
           \/ a = NoArg
  BY DEF StartNote
<1>3. PICK a :
        /\ Send(c, r, a, [Started(c, o) EXCEPT !.stage = "note"])
        /\ \/ o.name = "modifyPeerNote" /\ a = [NoArg EXCEPT !.text = Encode(o.note)]
           \/ a = NoArg
  BY <1>2
<1>4. ArgOk(a)
  <2>1. CASE a = NoArg
    <3>1. a.text = <<>> /\ a.content = 0 /\ a.from # "disk"
      BY <2>1 DEF NoArg
    <3> QED
      BY <1>1, <3>1, PutArg
  <2>2. CASE o.name = "modifyPeerNote" /\ a = [NoArg EXCEPT !.text = Encode(o.note)]
    BY <1>1, <2>2, NoteArg
  <2> QED
    BY <1>3, <2>1, <2>2
<1>5. PICK s : s = [Started(c, o) EXCEPT !.stage = "note"]
  OBVIOUS
<1>6. r \in Requests /\ "note" \in Stages /\ 0 \in 0 .. started
  BY <1>1, <1>3, OperationsAssumption DEF Stages
<1>7. Send(c, r, a, s)
  BY <1>3, <1>5
<1> QED
  BY <1>1, <1>4, <1>5, <1>6, <1>7, StartKeeps

\* A note comes back as bytes, or not at all.
LEMMA NoteEndsKeeps ==
  ASSUME OpInv, NEW c \in Clients, NoteEnds(c)
  PROVE  OpInv'
<1>1. /\ mgr # "crashed" /\ run[c].stage = "note" /\ RunOk(c, run[c]) /\ started \in Nat
      /\ AnswerInv /\ taken \subseteq Jobs /\ UNCHANGED <<files, taken>>
  BY DEF NoteEnds, Stage, OpInv, RunInv, AliveInv, FilesInv
<1>2. PICK text : text = answer[Front(c).re].text
  OBVIOUS
<1>3. PICK how :
        /\ how = "ok" => Result(c) = "ok" /\ Decode(text) # Illegal
        /\ Becomes(c, [Returned(run[c], how) EXCEPT
                         !.value = IF how = "ok" THEN Decode(text) ELSE <<>>])
  <2>1. PICK how :
          /\ how = IF Result(c) # "ok" THEN Result(c)
                   ELSE IF \E i \in DOMAIN NotesIn(c) : NotesIn(c)[i].h # "PeerNote"
                        THEN "bad_lexical_cast"
                   ELSE IF Decode(text) = Illegal THEN "IllegalBase64" ELSE "ok"
          /\ Becomes(c, [Returned(run[c], how) EXCEPT
                           !.value = IF how = "ok" THEN Decode(text) ELSE <<>>])
    BY <1>2 DEF NoteEnds
  <2> QED
    BY <2>1
<1>4. PICK v : v = IF how = "ok" THEN Decode(text) ELSE <<>>
  OBVIOUS
<1>5. v \in Seq(Byte)
  <2>1. CASE how = "ok"
    <3>1. Front(c).re \in 0 .. MaxJobs
      BY <1>1, <1>3, <2>1, FrontTyped DEF RunOk, JobFits
    <3>2. text \in Seq(Byte)
      BY <1>1, <1>2, <3>1 DEF AnswerInv
    <3> QED
      BY <1>3, <1>4, <2>1, <3>2, DecodeTyped
  <2>2. CASE how # "ok"
    <3>1. v = <<>>
      BY <1>4, <2>2
    <3> QED
      BY <3>1
  <2> QED
    BY <2>1, <2>2
<1>6. PICK r : r = Returned(run[c], how)
  OBVIOUS
<1>7. RunOk(c, r)
  BY <1>1, <1>6, ReturnedOk
<1>8. PICK s : s = [r EXCEPT !.value = v]
  OBVIOUS
<1>9. /\ DOMAIN s = Fields /\ s.stage = r.stage /\ s.op = r.op /\ s.job = r.job /\ s.test = r.test
      /\ s.dda = r.dda /\ s.calls = r.calls /\ s.value = v
  BY <1>7, <1>8 DEF RunOk, Typed, Fields, Free
<1>10. RunOk(c, s)
  <2>1. Typed(s)
    BY <1>5, <1>7, <1>9 DEF RunOk, Typed
  <2>2. OpFits(c, s)
    BY <1>7, <1>9 DEF RunOk, OpFits
  <2>3. JobFits(s) /\ Granted(s)
    BY <1>7, <1>9 DEF RunOk, JobFits, Granted
  <2> QED
    BY <2>1, <2>2, <2>3 DEF RunOk
<1>11. r.stage = "idle" /\ Becomes(c, s)
  BY <1>3, <1>4, <1>6, <1>8, ReturnedIs
<1> QED
  BY <1>1, <1>9, <1>10, <1>11, FilesKept, BecomesKeeps

-----------------------------------------------------------------------------
(* The node's answers, and the end of the program.                          *)

\* A program that has crashed does nothing but receive.
LEMMA CrashedKeeps ==
  ASSUME OpInv, mgr' = "crashed", note' \in Seq(Byte),
         UNCHANGED <<started, attr, clashed, outcome, view, life, run, arg, files, taken>>
  PROVE  OpInv'
<1>1. started \in Nat /\ started' \in Nat /\ Grows /\ RunInv /\ ArgInv /\ FilesInv
      /\ LifeTypeOK /\ LifeSafe
  BY DEF OpInv, Grows
<1>2. RunInv'
  BY <1>1, RunSame
<1>3. ArgInv'
  BY <1>1 DEF ArgInv, ArgOk
<1>4. FilesInv'
  BY <1>1 DEF FilesInv
<1>5. LifeTypeOK'
  BY <1>1 DEF LifeTypeOK, life
<1>6. LifeSafe'
  <2>1. BuiltAfterHello' /\ OneIterationLeft'
    BY <1>1 DEF LifeSafe, BuiltAfterHello, Said, OneIterationLeft, life
  <2>2. ~Managing'
    BY DEF Managing
  <2> QED
    BY <2>1, <2>2 DEF LifeSafe, ShutdownEndsManager, OrphansEnd
<1> QED
  BY <1>2, <1>3, <1>4, <1>5, <1>6 DEF OpInv

\* The test that counts for a response is one of its directory.
LEMMA LatestTestIs ==
  ASSUME IInv, NEW d, NEW j, LatestTest(d, j) # 0
  PROVE  arg[LatestTest(d, j)].dir = d
<1> DEFINE before == {i \in DOMAIN sent : /\ attr[sent[i]].cmd = "TestDDARequest"
                                          /\ arg[sent[i]].dir = d /\ sent[i] < j}
<1>1. before # {} /\ LatestTest(d, j) = sent[CHOOSE i \in before : \A k \in before : k <= i]
  BY DEF LatestTest
<1>2. sent \in Seq(Jobs) /\ Len(sent) \in Nat /\ DOMAIN sent = 1 .. Len(sent)
  BY DEF IInv, QueueInv
<1>3. before \subseteq 1 .. Len(sent) /\ \A i \in before : arg[sent[i]].dir = d
  BY <1>2
<1> HIDE DEF before
<1>4. \E i \in before : \A k \in before : k <= i
  <2> DEFINE D == {Len(sent) - i : i \in before}
  <2>1. D \in SUBSET Nat /\ D # {}
    BY <1>1, <1>2, <1>3
  <2>2. PICK x \in D : \A y \in D : x <= y
    BY <2>1, LeastElement
  <2>3. PICK i \in before : x = Len(sent) - i
    BY <2>2
  <2>4. ASSUME NEW k \in before PROVE k <= i
    <3>1. Len(sent) - k \in D
      OBVIOUS
    <3>2. Len(sent) - i <= Len(sent) - k
      BY <2>2, <2>3, <3>1
    <3> QED
      BY <1>2, <1>3, <3>2
  <2> QED
    BY <2>4
<1>5. (CHOOSE i \in before : \A k \in before : k <= i) \in before
  BY <1>4
<1> QED
  BY <1>1, <1>3, <1>5

\* The node allows only what the client has shown it, or what it has seen
\* itself.
LEMMA VerdictOk ==
  ASSUME OpInv, mgr # "crashed", NEW j \in 0 .. MaxJobs, NEW v \in Verdicts(j)
  PROVE  /\ DOMAIN v = DOMAIN NoAnswer /\ v.text \in Seq(Byte)
         /\ v.read \/ v.write => arg[j].dir \in Shared
<1>1. PICK t : t = LatestTest(arg[j].dir, j)
  OBVIOUS
<1>2. \/ v = [read |-> t # 0 /\ arg[t].read /\ arg[j].content = t,
              write |-> t # 0 /\ files[t] # "none" /\ arg[j].dir \in Shared,
              text |-> <<>>]
      \/ v = NoAnswer
  BY <1>1 DEF Verdicts
<1>3. /\ DOMAIN v = DOMAIN NoAnswer /\ v.text = <<>>
      /\ v.read => t # 0 /\ arg[j].content = t
      /\ v.write => arg[j].dir \in Shared
  <2>1. CASE v = NoAnswer
    BY <2>1 DEF NoAnswer
  <2>2. ASSUME NEW a \in BOOLEAN, NEW b \in BOOLEAN, v = [read |-> a, write |-> b, text |-> <<>>],
               a => t # 0 /\ arg[j].content = t, b => arg[j].dir \in Shared
        PROVE  /\ DOMAIN v = DOMAIN NoAnswer /\ v.text = <<>>
               /\ v.read => t # 0 /\ arg[j].content = t
               /\ v.write => arg[j].dir \in Shared
    BY <2>2 DEF NoAnswer
  <2>3. CASE v = [read |-> t # 0 /\ arg[t].read /\ arg[j].content = t,
                  write |-> t # 0 /\ files[t] # "none" /\ arg[j].dir \in Shared,
                  text |-> <<>>]
    BY <2>2, <2>3
  <2> QED
    BY <1>2, <2>1, <2>3
<1>4. ASSUME t # 0, arg[j].content = t PROVE arg[j].dir \in Shared
  <2>1. ArgOk(arg[j]) /\ IInv
    BY DEF OpInv, ArgInv, AliveInv, BaseInv, RInv
  <2>2. arg[t].dir \in Shared
    BY <1>4, <2>1 DEF ArgOk
  <2>3. arg[t].dir = arg[j].dir
    BY <1>1, <1>4, <2>1, LatestTestIs
  <2> QED
    BY <2>2, <2>3
<1>5. v.text \in Seq(Byte)
  <2>1. <<>> \in Seq(Byte)
    OBVIOUS
  <2> QED
    BY <1>3, <2>1
<1> QED
  BY <1>3, <1>4, <1>5

\* What the node's word for request j says beside its kind.
LEMMA AnswerSays ==
  ASSUME OpInv, NEW j \in 0 .. MaxJobs, Answer(j)
  PROVE  /\ note' \in Seq(Byte)
         /\ \/ \E v \in Verdicts(j) : answer' = [answer EXCEPT ![j] = v]
            \/ answer' = [answer EXCEPT ![j].text = note']
            \/ answer' = answer
<1>1. note \in Seq(Byte) /\ arg[j].text \in Seq(Byte)
  BY DEF OpInv, FilesInv, ArgInv, ArgOk
<1>2. PICK h : h = script[j][pos'[j]].h
  OBVIOUS
<1>3. CASE h = "TestDDAComplete"
  <2>1. (\E v \in Verdicts(j) : answer' = [answer EXCEPT ![j] = v]) /\ UNCHANGED note
    BY <1>2, <1>3, Zenon DEF Answer
  <2> QED
    BY <1>1, <2>1
<1>4. CASE h = "PeerNote"
  <2>1. /\ note' = IF attr[j].cmd = "ModifyPeerNote" THEN arg[j].text ELSE note
        /\ answer' = [answer EXCEPT ![j].text = note']
    BY <1>2, <1>4, Zenon DEF Answer
  <2> QED
    BY <1>1, <2>1
<1>5. CASE h # "TestDDAComplete" /\ h # "PeerNote"
  <2>1. UNCHANGED <<answer, note>>
    BY <1>2, <1>5, Zenon DEF Answer
  <2> QED
    BY <1>1, <2>1
<1> QED
  BY <1>3, <1>4, <1>5

\* The node says its next word to a program that is there to hear it.
LEMMA AnswerKeeps ==
  ASSUME OpInv, mgr # "crashed", NEW j \in 0 .. MaxJobs, Answer(j)
  PROVE  OpInv'
<1>1. /\ NodeAnswers(j) /\ UNCHANGED <<life, run, arg, files, taken>>
      /\ UNCHANGED <<started, attr, clashed, mgr>>
  BY DEF Answer, NodeAnswers, ticket, manager
<1>2. started \in Nat /\ Grows /\ [LifeNext]_lifeVars
  BY <1>1 DEF Grows, OpInv, LifeNext
<1>3. BaseInv' /\ LifeTypeOK' /\ LifeSafe' /\ started' \in 0 .. MaxJobs
  BY <1>2, BaseSafe
<1>4. RunInv /\ ArgInv /\ FilesInv /\ UseInv /\ AnswerInv /\ TestFilesRemoved /\ IInv
  BY DEF OpInv, AliveInv, BaseInv, RInv
<1>5. /\ note' \in Seq(Byte)
      /\ \/ \E v \in Verdicts(j) : answer' = [answer EXCEPT ![j] = v]
         \/ answer' = [answer EXCEPT ![j].text = note']
         \/ answer' = answer
  BY AnswerSays
<1>6. RunInv'
  BY <1>1, <1>2, <1>4, RunSame
<1>7. ArgInv'
  BY <1>1, <1>4 DEF ArgInv, ArgOk
<1>8. UseInv'
  BY <1>1, <1>4 DEF UseInv, Usable, life
<1>9. j <= started
  <2>1. pos[j] < Len(script[j])
    BY <1>1 DEF NodeAnswers
  <2>2. ASSUME j > started PROVE FALSE
    <3>1. j \in Jobs /\ j > Taken
      <4>1. Len(queue) \in Nat /\ started \in Nat /\ MaxJobs \in Nat
        BY <1>4, NodeThreadAssumption DEF IInv, QueueInv
      <4> QED
        BY <2>2, <4>1 DEF Taken, Jobs
    <3>2. script[j] = <<>> /\ pos[j] \in Nat
      BY <1>4, <3>1 DEF IInv, WireInv
    <3> QED
      BY <2>1, <3>2
  <2> QED
    BY <1>2, <2>2, NodeThreadAssumption
<1>10. AnswerInv'
  <2>1. DOMAIN answer' = 0 .. MaxJobs /\ \A i \in 0 .. MaxJobs : i # j => answer'[i] = answer[i]
    BY <1>4, <1>5 DEF AnswerInv
  <2>2. PICK x : x = answer'[j]
    OBVIOUS
  <2>3. /\ DOMAIN x = DOMAIN NoAnswer /\ x.text \in Seq(Byte)
        /\ x.read \/ x.write => arg[j].dir \in Shared
    <3>1. CASE \E v \in Verdicts(j) : answer' = [answer EXCEPT ![j] = v]
      BY <1>4, <2>2, <3>1, VerdictOk DEF AnswerInv
    <3>2. CASE answer' = [answer EXCEPT ![j].text = note']
      <4>1. PICK a, n : a = answer[j] /\ n = note'
        OBVIOUS
      <4>2. DOMAIN a = DOMAIN NoAnswer /\ (a.read \/ a.write => arg[j].dir \in Shared)
        BY <1>4, <4>1 DEF AnswerInv
      <4>3. x = [a EXCEPT !.text = n]
        BY <1>4, <2>2, <3>2, <4>1 DEF AnswerInv
      <4>4. DOMAIN x = DOMAIN NoAnswer /\ x.text = n /\ x.read = a.read /\ x.write = a.write
        BY <4>2, <4>3 DEF NoAnswer
      <4> QED
        BY <1>5, <4>1, <4>2, <4>4
    <3>3. CASE answer' = answer
      BY <1>4, <2>2, <3>3 DEF AnswerInv
    <3> QED
      BY <1>5, <3>1, <3>2, <3>3
  <2>4. ASSUME NEW i \in 0 .. MaxJobs
        PROVE  /\ i > started => answer'[i] = NoAnswer
               /\ DOMAIN answer'[i] = DOMAIN NoAnswer
               /\ answer'[i].text \in Seq(Byte)
               /\ answer'[i].read \/ answer'[i].write => arg[i].dir \in Shared
    <3>1. CASE i = j
      BY <1>2, <1>9, <2>2, <2>3, <3>1
    <3>2. CASE i # j
      BY <1>4, <2>1, <3>2 DEF AnswerInv
    <3> QED
      BY <3>1, <3>2
  <2> QED
    BY <1>1, <2>1, <2>4 DEF AnswerInv
<1>11. FilesInv'
  BY <1>1, <1>4, <1>5 DEF FilesInv
<1>12. TestFilesRemoved'
  BY <1>1, <1>4 DEF TestFilesRemoved
<1> QED
  BY <1>3, <1>6, <1>7, <1>8, <1>10, <1>11, <1>12 DEF OpInv, AliveInv

-----------------------------------------------------------------------------
(* The steps under the operations.                                          *)

\* The object is not taken from an operation that is under way.
LEMMA UnderneathMoves ==
  ASSUME Underneath
  PROVE  /\ mgr # "crashed"
         /\ [LifeNext]_lifeVars \/ \E c \in Clients : PutLockedOut(c) /\ UNCHANGED life
         /\ \A c \in Clients : Usable(c) /\ run[c].stage # "idle" => Usable(c)'
<1>1. CASE Starting
  <2>1. mgr # "crashed" /\ (object # "built" \/ UNCHANGED life)
    BY <1>1 DEF Starting, Construct, ConnectRefused, ConstructorEnds, Call
  <2> QED
    BY <1>1, <2>1 DEF LifeNext, Usable, life
<1>2. CASE ManagerStep
  <2>1. mgr # "crashed"
    BY <1>2 DEF ManagerStep, ManagerRuns, InterruptThrown, InterruptSeen, Managing,
                Manager, NoMessage, SocketFails, DoMessage, NoRequest, SendClientReq
  <2>2. UNCHANGED <<object, phase>>
    BY <1>2 DEF ManagerStep, ManagerRuns, InterruptThrown, InterruptSeen, ManagerEndsNow
  <2> QED
    BY <1>2, <2>1, <2>2 DEF LifeNext, Usable
<1>3. CASE Idle(Owner) /\ ShuttingDown
  <2>1. mgr # "crashed" /\ UNCHANGED object
    BY <1>3 DEF ShuttingDown, ShutdownBegins, ShutdownEnds, Call
  <2> QED
    BY <1>3, <2>1 DEF LifeNext, Usable, Idle
<1>4. CASE (\A c \in Clients : Idle(c)) /\ Destroy
  BY <1>4 DEF LifeNext, Idle, Destroy
<1>5. ASSUME NEW c \in Clients, (~LockedOut(c) /\ ClientStep(c)) \/ PutLockedOut(c), UNCHANGED life
      PROVE  /\ mgr # "crashed"
             /\ [LifeNext]_lifeVars \/ \E d \in Clients : PutLockedOut(d) /\ UNCHANGED life
             /\ \A d \in Clients : Usable(d) => Usable(d)'
  <2>1. mgr # "crashed"
    BY <1>5 DEF ClientStep, WaitOver, GetResponse, GiveUp, Waiting, PutLockedOut
  <2>2. ClientStep(c) => LifeNext
    BY <1>5 DEF LifeNext
  <2> QED
    BY <1>5, <2>1, <2>2 DEF Usable, life
<1> QED
  BY <1>1, <1>2, <1>3, <1>4, <1>5 DEF Underneath

\* Nor do they take anything else from it.
LEMMA UnderneathKeeps ==
  ASSUME OpInv, Underneath, UNCHANGED opVars
  PROVE  OpInv'
<1>1. /\ mgr # "crashed"
      /\ [LifeNext]_lifeVars \/ \E c \in Clients : PutLockedOut(c) /\ UNCHANGED life
      /\ \A c \in Clients : Usable(c) /\ run[c].stage # "idle" => Usable(c)'
  BY UnderneathMoves
<1>2. UNCHANGED <<run, arg, answer, files, note, taken>>
  BY DEF opVars
<1>3. /\ RunInv /\ ArgInv /\ FilesInv /\ UseInv /\ AnswerInv /\ TestFilesRemoved /\ IInv
      /\ started \in 0 .. MaxJobs
  BY <1>1 DEF OpInv, AliveInv, BaseInv, RInv
<1>4. started' \in 0 .. MaxJobs /\ started <= started' /\ BaseInv' /\ LifeTypeOK' /\ LifeSafe'
  BY <1>1, BaseSafe
<1>5. started \in Nat /\ started' \in Nat
  BY <1>3, <1>4
<1>6. Grows
  <2>1. CASE [LifeNext]_lifeVars
    BY <1>2, <1>3, <2>1, LifeGrows DEF Grows
  <2>2. CASE \E c \in Clients : PutLockedOut(c) /\ UNCHANGED life
    BY <1>2, <1>4, <2>2 DEF Grows, PutLockedOut, ticket, manager
  <2> QED
    BY <1>1, <2>1, <2>2
<1>7. RunInv'
  BY <1>2, <1>3, <1>5, <1>6, RunSame
<1>8. ArgInv'
  <2>1. ASSUME NEW j \in 0 .. MaxJobs
        PROVE  (j \notin 1 .. started' => arg'[j] = NoArg) /\ ArgOk(arg[j])'
    <3>1. PICK x : x = arg[j]
      OBVIOUS
    <3>2. ArgOk(x) /\ (j \notin 1 .. started => x = NoArg)
      BY <1>3, <3>1 DEF ArgInv
    <3>3. ArgOk(x)'
      BY <1>3, <1>5, <1>6, <3>2, ArgKept
    <3>4. arg'[j] = x
      BY <1>2, <3>1
    <3>5. j \notin 1 .. started' => j \notin 1 .. started
      BY <1>4, <1>5
    <3> QED
      BY <3>2, <3>3, <3>4, <3>5 DEF ArgOk
  <2> QED
    BY <1>2, <1>3, <2>1 DEF ArgInv
<1>9. UseInv'
  BY <1>1, <1>2, <1>3 DEF UseInv, Usable
<1>10. AnswerInv'
  <2>1. \A j \in 0 .. MaxJobs : j > started' => j > started
    BY <1>4, <1>5, NodeThreadAssumption
  <2> QED
    BY <1>2, <1>3, <2>1 DEF AnswerInv
<1>11. FilesInv' /\ TestFilesRemoved'
  BY <1>1, <1>2, <1>3 DEF FilesInv, TestFilesRemoved
<1> QED
  BY <1>4, <1>7, <1>8, <1>9, <1>10, <1>11 DEF OpInv, AliveInv

-----------------------------------------------------------------------------
(* Every step.                                                              *)

\* The operations' steps.
LEMMA OperateKeeps ==
  ASSUME OpInv, NEW c \in Clients, Operate(c)
  PROVE  OpInv'
<1>1. CASE AnswerTest(c) \/ TestCompleted(c) \/ TestFailed(c)
  BY <1>1, AnswerTestKeeps, TestCompletedKeeps, TestFailedKeeps
<1>2. CASE OpenFile(c) \/ OpenFails(c) \/ HashBlock(c)
  BY <1>2, HashKeeps
<1>3. CASE PutFromDisk(c) \/ PutFromDiskEnds(c) \/ PutFallback(c) \/ PutEnds(c)
  BY <1>3, PutDiskKeeps
<1>4. CASE GetToDisk(c) \/ GetWithoutDisk(c)
  BY <1>4, GetDiskKeeps
<1>5. CASE UndefinedCrashes(c)
  <2>1. /\ mgr' = "crashed" /\ note' = note
        /\ UNCHANGED <<started, attr, clashed, outcome, view, life, run, arg, files, taken>>
    BY <1>5 DEF UndefinedCrashes, ticket, client, opVars
  <2>2. note' \in Seq(Byte)
    BY <2>1 DEF OpInv, FilesInv
  <2> QED
    BY <2>1, <2>2, CrashedKeeps
<1>6. CASE RemoveConfirmed(c) \/ RemoveEnds(c) \/ RemoveGivesUp(c)
  BY <1>6, RemoveKeeps
<1>7. CASE NoteEnds(c)
  BY <1>7, NoteEndsKeeps
<1>8. ASSUME NEW o \in Operations[c],
             \/ StartTest(c, o) \/ StartPut(c, o) \/ StartGet(c, o) \/ GetThrows(c, o)
             \/ Modify(c, o) \/ Remove(c, o) \/ StartNote(c, o)
      PROVE  OpInv'
  <2>1. CASE GetThrows(c, o)
    BY <2>1, ThrowKeeps DEF GetThrows
  <2> QED
    BY <1>8, <2>1, StartTestKeeps, StartPutKeeps, StartGetKeeps, ModifyKeeps, RemoveStarts,
       StartNoteKeeps
<1> QED
  BY <1>1, <1>2, <1>3, <1>4, <1>5, <1>6, <1>7, <1>8 DEF Operate

\* A program starts without an operation.
LEMMA OpStarts ==
  ASSUME OpInit
  PROVE  OpInv
<1>1. /\ LifeInit /\ started = 0 /\ clashed = {} /\ object = "none" /\ phase = "use"
      /\ farewell = 0 /\ pending = "no" /\ late = 0 /\ dangling = FALSE
      /\ outcome = [j \in Jobs |-> "none"]
  BY DEF OpInit, LifeInit, Init
<1>2. /\ run = [c \in Clients |-> Free] /\ arg = [j \in 0 .. MaxJobs |-> NoArg]
      /\ answer = [j \in 0 .. MaxJobs |-> NoAnswer] /\ taken = {}
      /\ files = [j \in 0 .. MaxJobs |-> "none"]
      /\ note \in InitialNotes
  BY DEF OpInit
<1>3. BaseInv
  BY <1>1, InitLifeInv, ObjectStarts, InitHeldInv DEF BaseInv, LifeInit
<1>4. LifeTypeOK /\ LifeSafe
  <2>1. LifeTypeOK
    <3>1. 0 \in 0 .. MaxJobs /\ 0 \in Nat
      BY NodeThreadAssumption
    <3> QED
      BY <1>1, <3>1 DEF LifeTypeOK
  <2> QED
    BY <1>3, <2>1
       DEF BaseInv, LifeInv, LateInv, GreetInv, FarewellInv, LifeSafe, OneIterationLeft
<1>5. <<>> \in Seq(Byte) /\ 0 \in 0 .. started /\ 0 \in 0 .. MaxCalls
  BY <1>1, OperationsAssumption
<1>6. RunInv
  <2>1. PICK r : r = Free
    OBVIOUS
  <2>2. /\ DOMAIN r = Fields /\ r.stage = "idle" /\ r.job = 0 /\ r.test = 0
        /\ r.calls = 0 /\ r.value = <<>> /\ r.dda = [read |-> FALSE, write |-> FALSE]
    BY <2>1 DEF Fields, Free
  <2>3. ~r.dda.read /\ ~r.dda.write
    <3>1. ASSUME NEW d, d = [read |-> FALSE, write |-> FALSE] PROVE ~d.read /\ ~d.write
      BY <3>1
    <3> QED
      BY <2>2, <3>1
  <2>4. ASSUME NEW c \in Clients PROVE RunOk(c, r)
    <3>1. Typed(r)
      BY <1>5, <2>2 DEF Typed, Stages
    <3> QED
      BY <2>2, <2>3, <3>1 DEF RunOk, OpFits, JobFits, Granted
  <2> QED
    BY <1>2, <2>1, <2>4 DEF RunInv
<1>7. ArgInv
  <2>1. PICK a : a = NoArg
    OBVIOUS
  <2>2. a.text = <<>> /\ a.content = 0 /\ a.from = "none"
    BY <2>1 DEF NoArg
  <2>3. ArgOk(a)
    BY <1>5, <2>2 DEF ArgOk
  <2> QED
    BY <1>2, <2>1, <2>3 DEF ArgInv
<1>8. UseInv
  BY <1>2 DEF UseInv, Free
<1>9. AnswerInv
  <2>1. PICK a : a = NoAnswer
    OBVIOUS
  <2>2. a.text = <<>> /\ ~a.read /\ ~a.write
    BY <2>1 DEF NoAnswer
  <2> QED
    BY <1>2, <1>5, <2>1, <2>2 DEF AnswerInv
<1>10. FilesInv /\ TestFilesRemoved
  <2>1. note \in Seq(0 .. 127)
    BY <1>2, OperationsAssumption
  <2>2. 0 .. 127 \subseteq Byte
    BY DEF Byte
  <2>3. note \in Seq(Byte)
    <3>1. ASSUME NEW A, NEW B, A \subseteq B, NEW s \in Seq(A) PROVE s \in Seq(B)
      BY <3>1
    <3> QED
      BY <2>1, <2>2, <3>1
  <2>4. files \in [0 .. MaxJobs -> FileStates]
    BY <1>2 DEF FileStates
  <2>5. TestFilesRemoved
    BY <1>2 DEF TestFilesRemoved, Jobs
  <2> QED
    BY <1>2, <2>3, <2>4, <2>5 DEF FilesInv
<1> QED
  BY <1>1, <1>3, <1>4, <1>5, <1>6, <1>7, <1>8, <1>9, <1>10, NodeThreadAssumption
     DEF OpInv, AliveInv

\* Every step keeps the invariant.
LEMMA OpSteps ==
  ASSUME OpInv, [OpNext]_allVars
  PROVE  OpInv'
<1>1. ASSUME NEW j \in 0 .. MaxJobs, Answer(j) PROVE OpInv'
  <2>1. CASE mgr # "crashed"
    BY <1>1, <2>1, AnswerKeeps
  <2>2. CASE mgr = "crashed"
    <3>1. /\ mgr' = "crashed"
          /\ UNCHANGED <<started, attr, clashed, outcome, view, life, run, arg, files, taken>>
      BY <1>1, <2>2 DEF Answer, NodeAnswers, ticket, manager, client
    <3> QED
      BY <1>1, <3>1, AnswerSays, CrashedKeeps
  <2> QED
    BY <2>1, <2>2
<1>2. CASE UNCHANGED allVars
  <2>1. /\ UNCHANGED <<started, attr, clashed, outcome, view, life, run, arg, files, taken>>
        /\ UNCHANGED <<mgr, note, answer, lifeVars>>
    BY <1>2 DEF allVars, lifeVars, vars, ticket, manager, client, opVars
  <2>2. CASE mgr = "crashed"
    <3>1. note' \in Seq(Byte) /\ mgr' = "crashed"
      BY <2>1, <2>2 DEF OpInv, FilesInv
    <3> QED
      BY <2>1, <3>1, CrashedKeeps
  <2>3. CASE mgr # "crashed"
    <3>1. BaseInv' /\ LifeTypeOK' /\ LifeSafe' /\ started' \in 0 .. MaxJobs
      BY <2>1, <2>3, BaseSafe
    <3>2. /\ RunInv /\ ArgInv /\ FilesInv /\ UseInv /\ AnswerInv /\ TestFilesRemoved
          /\ started \in Nat
      BY <2>3 DEF OpInv, AliveInv
    <3>3. RunInv'
      BY <2>1, <3>2, RunSame DEF Grows
    <3>4. ArgInv'
      BY <2>1, <3>2 DEF ArgInv, ArgOk
    <3>5. UseInv' /\ AnswerInv'
      BY <2>1, <3>2 DEF UseInv, Usable, AnswerInv, life
    <3>6. FilesInv' /\ TestFilesRemoved'
      BY <2>1, <3>2 DEF FilesInv, TestFilesRemoved
    <3> QED
      BY <3>1, <3>3, <3>4, <3>5, <3>6 DEF OpInv, AliveInv
  <2> QED
    BY <2>2, <2>3
<1> QED
  BY <1>1, <1>2, OperateKeeps, UnderneathKeeps DEF OpNext

-----------------------------------------------------------------------------
(* The theorems.                                                            *)

\* The invariant holds from the start and through every step of the clients,
\* of the object, of the manager and of the node.
THEOREM OperationsInvariant == OpSpec => []OpInv
<1>1. OpInit => OpInv
  BY OpStarts
<1>2. OpInv /\ [OpNext]_allVars => OpInv'
  BY OpSteps
<1> QED
  BY <1>1, <1>2, PTL DEF OpSpec

\* Every variable has its type.
THEOREM OperationsTypeCorrect == OpSpec => []OpTypeOK
<1>1. OpInv => OpTypeOK
  <2> SUFFICES ASSUME OpInv PROVE OpTypeOK
    OBVIOUS
  <2>1. LifeTypeOK /\ FilesInv /\ started \in 0 .. MaxJobs
    BY DEF OpInv
  <2>2. ASSUME NEW c \in Clients
        PROVE  /\ run[c].stage \in Stages
               /\ run[c].job \in 0 .. started /\ run[c].test \in 0 .. started
               /\ run[c].calls \in 0 .. MaxCalls
               /\ run[c].value \in Seq(Byte)
    BY DEF OpInv, RunInv, RunOk, Typed
  <2>3. ASSUME NEW j \in 0 .. MaxJobs PROVE arg[j].content \in 0 .. MaxJobs
    <3>1. arg[j].content \in 0 .. started
      BY DEF OpInv, ArgInv, ArgOk
    <3> QED
      BY <2>1, <3>1, NodeThreadAssumption
  <2> QED
    BY <2>1, <2>2, <2>3 DEF OpTypeOK, FilesInv, FileStates
<1> QED
  BY <1>1, OperationsInvariant, PTL

\* testDDA leaves no file behind that it has not tried to remove, however its
\* two requests end and whoever else is at work.
THEOREM TestFilesAreRemoved == OpSpec => []TestFilesRemoved
<1>1. OpInv => TestFilesRemoved
  BY DEF OpInv, AliveInv, TestFilesRemoved
<1> QED
  BY <1>1, OperationsInvariant, PTL

\* putDisk and getDisk let the node use a file only in a directory that both
\* see, or one that a hash vouches for, until plain commands have crossed.
THEOREM UsedDirectoryIsShared == OpSpec => []DiskIsShared
<1>1. OpInv => DiskIsShared
  <2> SUFFICES ASSUME OpInv, ~PlainClashed, NEW j \in 1 .. started, arg[j].from = "disk"
               PROVE  arg[j].hash \/ arg[j].dir \in Shared
    BY DEF DiskIsShared
  <2>1. j \in 0 .. MaxJobs
    BY NodeThreadAssumption DEF OpInv
  <2> QED
    BY <2>1 DEF OpInv, ArgInv, ArgOk, PlainClashed, PlainKey
<1> QED
  BY <1>1, OperationsInvariant, PTL

\* Whoever runs an operation has an object that was greeted; and its end is
\* that of its manager, under the operations as without them.
THEOREM ObjectLivesUnderOperations ==
  OpSpec => [](BuiltAfterHello /\ ShutdownEndsManager /\ OrphansEnd /\ OneIterationLeft)
<1>1. OpInv => BuiltAfterHello /\ ShutdownEndsManager /\ OrphansEnd /\ OneIterationLeft
  BY DEF OpInv, LifeSafe
<1> QED
  BY <1>1, OperationsInvariant, PTL

-----------------------------------------------------------------------------
(* The fallback of putDisk.                                                 *)

\* Nothing that a put is told is about a get.
LEMMA PutWords ==
  ASSUME NEW w, w \in PutAnswers \/ w = Words(<<"IdentifierCollision">>), NEW i \in 1 .. Len(w)
  PROVE  w[i].h # "GetFailed"
<1>1. \A h : Word(h).h = h
  BY DEF Word
<1>2. \A h, code : Failed(h, code).h = h
  BY DEF Failed
<1>3. ASSUME NEW u, NEW v, w = <<u, v>>, u.h # "GetFailed", v.h # "GetFailed"
      PROVE  w[i].h # "GetFailed"
  <2>1. Len(w) = 2 /\ w[1] = u /\ w[2] = v
    BY <1>3
  <2>2. i = 1 \/ i = 2
    BY <2>1
  <2> QED
    BY <1>3, <2>1, <2>2
<1>4. ASSUME NEW u, w = <<u>>, u.h # "GetFailed" PROVE w[i].h # "GetFailed"
  <2>1. Len(w) = 1 /\ w[1] = u
    BY <1>4
  <2>2. i = 1
    BY <2>1
  <2> QED
    BY <1>4, <2>1, <2>2
<1>5. CASE w = Words(<<"URIGenerated", "PutSuccessful">>)
  BY <1>1, <1>3, <1>5, TwoWords
<1>6. CASE w = Words(<<"ProtocolError">>) \/ w = Words(<<"IdentifierCollision">>)
  BY <1>1, <1>4, <1>6, OneWord
<1>7. CASE w = <<Word("SimpleProgress"), Failed("PutFailed", "1")>>
  BY <1>1, <1>2, <1>3, <1>7
<1>8. CASE w = Cancelled("PutFailed", "10")
  BY <1>1, <1>2, <1>3, <1>8 DEF Cancelled
<1> QED
  BY <1>5, <1>6, <1>7, <1>8 DEF PutAnswers

\* The first words of a conversation.
LEMMA SaidSoFar ==
  ASSUME NEW S, NEW w \in Seq(S), NEW p \in Nat, p <= Len(w)
  PROVE  /\ DOMAIN SubSeq(w, 1, p) = 1 .. p
         /\ \A i \in 1 .. p : SubSeq(w, 1, p)[i] = w[i]
  OBVIOUS

\* A put that has an error among its messages was told so itself; and it is over,
\* or its request is cancelled.
LEMMA FallbackHasCause ==
  ASSUME OpInv, NEW c \in Clients, PutFallback(c), Key(run[c].job) \notin clashed
  PROVE  LET said == SubSeq(script[run[c].job], 1, pos[run[c].job])
         IN  /\ \E i \in DOMAIN said : IsError(said[i])
             /\ finished[run[c].job] \/ \E i \in DOMAIN said : said[i].code = "10"
<1>1. PICK j : j = run[c].job
  OBVIOUS
<1>2. /\ mgr # "crashed" /\ run[c].stage = "put" /\ outcome[j] = "ticket"
      /\ IsError(resp[j][Len(resp[j])])
  BY <1>1 DEF PutFallback, Stage, PutRejected, Result, LastMessage
<1>3. /\ RInv /\ IInv /\ HoldsInv /\ ErrorInv /\ ConfirmedInv /\ TicketInv /\ WireInv
      /\ started \in 0 .. MaxJobs
  BY <1>2 DEF OpInv, AliveInv, BaseInv, HeldInv, RInv, IInv
<1>4. j \in 1 .. started /\ attr[j].cmd = "ClientPut"
  BY <1>1, <1>2 DEF OpInv, RunInv, RunOk, JobFits
<1>5. j \in Jobs /\ j \in 0 .. MaxJobs
  BY <1>3, <1>4, NodeThreadAssumption DEF Jobs
<1>6. PICK s, w, p : s = resp[j] /\ w = script[j] /\ p = pos[j]
  OBVIOUS
<1>7. s \in Seq(StoredSet) /\ s # <<>> /\ w \in Seq(WordSet) /\ p \in Nat /\ p <= Len(w)
  BY <1>2, <1>3, <1>5, <1>6 DEF TicketInv, WireInv, ConfirmedInv
<1>8. PICK n : n = Len(s)
  OBVIOUS
<1>9. n \in Nat \ {0} /\ n \in 1 .. n
  BY <1>7, <1>8, TailOf
<1>10. n <= p /\ s[n].h = w[n].h /\ s[n].code = w[n].code
  <2>1. Holds(s, j)
    BY <1>1, <1>3, <1>5, <1>6 DEF HoldsInv
  <2> QED
    BY <1>6, <1>8, <1>9, <2>1 DEF Holds
<1>11. IsError(s[n]) /\ (s[n].last \/ Cancels(s[n]))
  BY <1>2, <1>3, <1>5, <1>6, <1>8, <1>9 DEF ErrorInv
<1>12. s[n].last => finished[j]
  BY <1>3, <1>5, <1>6, <1>7, <1>8 DEF TicketInv
<1>13. w[n].h # "GetFailed"
  <2>1. n \in 1 .. Len(w)
    BY <1>7, <1>9, <1>10
  <2>2. w # <<>>
    BY <2>1
  <2>3. w \in Answers(attr[j]) \/ w = Words(<<"IdentifierCollision">>)
    BY <1>3, <1>5, <1>6, <2>2 DEF RInv, ScriptInv
  <2>4. Answers(attr[j]) = PutAnswers
    BY <1>4, Zenon DEF Answers
  <2> QED
    BY <2>1, <2>3, <2>4, PutWords
<1>14. finished[j] \/ w[n].code = "10"
  BY <1>10, <1>11, <1>12, <1>13 DEF Cancels
<1>15. IsError(w[n])
  BY <1>10, <1>11 DEF IsError
<1> DEFINE said == SubSeq(w, 1, p)
<1>16. n \in DOMAIN said /\ said[n] = w[n]
  <2>1. DOMAIN said = 1 .. p /\ \A i \in 1 .. p : said[i] = w[i]
    BY <1>7, SaidSoFar
  <2>2. n \in 1 .. p
    BY <1>7, <1>9, <1>10
  <2> QED
    BY <2>1, <2>2
<1> QED
  BY <1>1, <1>6, <1>14, <1>15, <1>16

\* An operation's step is a request, a step without one, or the end of the program.
LEMMA OwnStep ==
  ASSUME NEW d \in Clients, Operate(d)
  PROVE  \/ \E r, a, s : Send(d, r, a, s)
         \/ \E s : Becomes(d, s)
         \/ UndefinedCrashes(d)
<1> DEFINE OneStep == (\E r, a, s : Send(d, r, a, s)) \/ (\E s : Becomes(d, s))
<1>1. ASSUME NEW r, NEW a, NEW s, Send(d, r, a, s) PROVE OneStep
  BY <1>1
<1>2. ASSUME NEW s, Becomes(d, s) PROVE OneStep
  BY <1>2
<1> HIDE DEF OneStep
<1>3. ASSUME NEW how, Return(d, how) PROVE OneStep
  BY <1>2, <1>3 DEF Return
<1>4. ASSUME NEW o, NEW from, NEW s, Put(d, o, from, s) PROVE OneStep
  BY <1>1, <1>4 DEF Put
<1>5. ASSUME NEW r, NEW o, Get(d, r, o) PROVE OneStep
  BY <1>1, <1>5 DEF Get
<1>6. ASSUME AnswerTest(d) \/ TestCompleted(d) \/ TestFailed(d) PROVE OneStep
  BY <1>1, <1>2, <1>6 DEF AnswerTest, TestCompleted, TestFailed
<1>7. ASSUME OpenFile(d) \/ OpenFails(d) \/ HashBlock(d) PROVE OneStep
  BY <1>2, <1>3, <1>7 DEF OpenFile, OpenFails, HashBlock
<1>8. ASSUME PutFromDisk(d) \/ PutFromDiskEnds(d) \/ PutFallback(d) \/ PutEnds(d) PROVE OneStep
  BY <1>2, <1>3, <1>4, <1>8 DEF PutFromDisk, PutFromDiskEnds, PutFallback, PutEnds
<1>9. ASSUME GetToDisk(d) \/ GetWithoutDisk(d) PROVE OneStep
  BY <1>1, <1>3, <1>9 DEF GetToDisk, GetWithoutDisk
<1>10. ASSUME RemoveConfirmed(d) \/ RemoveEnds(d) \/ RemoveGivesUp(d) \/ NoteEnds(d) PROVE OneStep
  BY <1>2, <1>3, <1>10 DEF RemoveConfirmed, RemoveEnds, RemoveGivesUp, NoteEnds
<1>11. ASSUME NEW o \in Operations[d],
              \/ StartTest(d, o) \/ StartPut(d, o) \/ StartGet(d, o) \/ GetThrows(d, o)
              \/ Modify(d, o) \/ Remove(d, o) \/ StartNote(d, o)
       PROVE  OneStep
  BY <1>1, <1>2, <1>4, <1>5, <1>11
     DEF StartTest, StartPut, StartGet, GetThrows, Modify, Remove, StartNote
<1> QED
  BY <1>6, <1>7, <1>8, <1>9, <1>10, <1>11 DEF Operate, OneStep

\* A client's operation changes none but its own.
LEMMA OwnRun ==
  ASSUME NEW d \in Clients, Operate(d)
  PROVE  \/ UNCHANGED run
         \/ \E s : run' = [run EXCEPT ![d] = s]
BY OwnStep DEF Send, Becomes, UndefinedCrashes, opVars

\* What follows a put from disk but its own end is its fallback.
LEMMA OnlyFallback ==
  ASSUME OpInv, [OpNext]_allVars, NEW c \in Clients, run[c].stage = "put", run'[c].stage = "sent"
  PROVE  PutFallback(c)
<1>1. PICK d \in Clients : Operate(d) /\ ~UNCHANGED run
  BY DEF OpNext, Answer, opVars, allVars
<1>2. d = c
  <2> SUFFICES ASSUME d # c PROVE FALSE
    OBVIOUS
  <2>1. PICK s : run' = [run EXCEPT ![d] = s]
    BY <1>1, OwnRun
  <2>2. run'[c] = run[c]
    BY <2>1 DEF OpInv, RunInv
  <2> QED
    BY <2>2
<1>3. Operate(c)
  BY <1>1, <1>2
<1>4. \A t : Stage(c, t) => t = "put"
  BY DEF Stage
<1>5. \A o : ~Starts(c, o)
  BY DEF Starts
<1>6. ~PutFromDiskEnds(c)
  <2> SUFFICES ASSUME PutFromDiskEnds(c) PROVE FALSE
    OBVIOUS
  <2>1. run' = [run EXCEPT ![c] = Returned(run[c], Result(c))]
    BY DEF PutFromDiskEnds, Becomes
  <2>2. run'[c] = Returned(run[c], Result(c))
    BY <2>1 DEF OpInv, RunInv
  <2>3. run'[c].stage = "idle"
    BY <2>2, ReturnedIs
  <2> QED
    BY <2>3
<1>7. /\ ~AnswerTest(c) /\ ~TestCompleted(c) /\ ~TestFailed(c) /\ ~OpenFile(c) /\ ~OpenFails(c)
      /\ ~HashBlock(c) /\ ~PutFromDisk(c) /\ ~PutEnds(c) /\ ~GetToDisk(c) /\ ~GetWithoutDisk(c)
  BY <1>4 DEF AnswerTest, TestCompleted, TestFailed, OpenFile, OpenFails, HashBlock, PutFromDisk,
              PutEnds, GetToDisk, GetWithoutDisk
<1>8. /\ ~RemoveConfirmed(c) /\ ~RemoveEnds(c) /\ ~RemoveGivesUp(c) /\ ~NoteEnds(c)
      /\ ~UndefinedCrashes(c)
  BY <1>1, <1>4 DEF RemoveConfirmed, RemoveEnds, RemoveGivesUp, NoteEnds, UndefinedCrashes, opVars
<1>9. \A o : /\ ~StartTest(c, o) /\ ~StartPut(c, o) /\ ~StartGet(c, o) /\ ~GetThrows(c, o)
             /\ ~Modify(c, o) /\ ~Remove(c, o) /\ ~StartNote(c, o)
  BY <1>5 DEF StartTest, StartPut, StartGet, GetThrows, Modify, Remove, StartNote
<1> QED
  BY <1>3, <1>6, <1>7, <1>8, <1>9 DEF Operate

\* putDisk sends the data only after the node has refused or cancelled the put,
\* whoever else is at work and whatever becomes of the manager, until its key
\* has clashed.
THEOREM FallbackHasItsCause == OpSpec => FallbackForCause
<1>1. OpInv /\ [OpNext]_allVars =>
        \A c \in Clients :
          run[c].stage = "put" /\ run'[c].stage = "sent" /\ Key(run[c].job) \notin clashed =>
            LET said == SubSeq(script[run[c].job], 1, pos[run[c].job])
            IN  /\ \E i \in DOMAIN said : IsError(said[i])
                /\ finished[run[c].job] \/ \E i \in DOMAIN said : said[i].code = "10"
  BY OnlyFallback, FallbackHasCause
<1> QED
  BY <1>1, OperationsInvariant, PTL DEF OpSpec, FallbackForCause

-----------------------------------------------------------------------------
(* The notes of a peer.                                                     *)

\* What modifyPeerNote has returned is the note that it was given.
NoteOk(r) ==
  /\ r.how = "ok" =>
       /\ SubSeq(r.value, 1, Len(r.op.note)) = r.op.note
       /\ Len(r.value) - Len(r.op.note) \in 0 .. 2 /\ Len(r.value) % 3 = 0
       /\ \A i \in Len(r.op.note) + 1 .. Len(r.value) : r.value[i] = 0
  /\ r.how = "IllegalBase64" =>
       \E i \in DOMAIN Encode(r.op.note) : Encode(r.op.note)[i] \in {126, 45}

\* A modifyPeerNote waits for its own request, which has the coded note; or it
\* has returned.
Asked(r) ==
  r.op.name = "modifyPeerNote" =>
    /\ r.stage \in {"idle", "note"}
    /\ r.stage = "idle" /\ PlainKey \notin clashed => NoteOk(r)
    /\ r.stage = "note" => /\ r.how = "none"
                           /\ attr[r.job] = ModifyPeerNote
                           /\ arg[r.job].text = Encode(r.op.note)

\* The node answers a request that sets the note with the text it has set.
NoteSaid ==
  \A j \in 1 .. started :
    attr[j] = ModifyPeerNote /\ pos[j] # 0 /\ script[j][1].h = "PeerNote" =>
      answer[j].text = arg[j].text

AskedInv == \A c \in Clients : Asked(run[c])
NoteInv == AskedInv /\ (mgr # "crashed" => NoteSaid)

\* A step that begins or continues another operation.
LEMMA OtherOperation ==
  ASSUME OpInv, AskedInv, NEW d \in Clients, Operate(d), ~NoteEnds(d),
         \A o \in Operations[d] : ~StartNote(d, o)
  PROVE  \/ UNCHANGED run
         \/ \E s : run' = [run EXCEPT ![d] = s] /\ s.op.name # "modifyPeerNote"
<1> DEFINE Other == \E s : run' = [run EXCEPT ![d] = s] /\ s.op.name # "modifyPeerNote"
<1>1. ASSUME NEW r, NEW a, NEW s, Send(d, r, a, s), DOMAIN s = Fields,
             s.op.name # "modifyPeerNote"
      PROVE  Other
  <2>1. PICK n : n = started'
    OBVIOUS
  <2>2. PICK t : t = [s EXCEPT !.job = n]
    OBVIOUS
  <2>3. t.op = s.op
    BY <1>1, <2>2, NumberSet
  <2>4. run' = [run EXCEPT ![d] = t]
    BY <1>1, <2>1, <2>2 DEF Send
  <2> QED
    BY <1>1, <2>3, <2>4
<1>2. ASSUME NEW s, Becomes(d, s), s.op.name # "modifyPeerNote" PROVE Other
  BY <1>2 DEF Becomes
<1>3. ASSUME NEW r, NEW how, Becomes(d, Returned(r, how)), r.op.name # "modifyPeerNote" PROVE Other
  <2>1. PICK s : s = Returned(r, how)
    OBVIOUS
  <2> QED
    BY <1>2, <1>3, <2>1, ReturnedIs
<1>4. ASSUME NEW r, NEW a, NEW q, NEW how, Send(d, r, a, Returned(q, how)),
             q.op.name # "modifyPeerNote"
      PROVE  Other
  <2>1. PICK s : s = Returned(q, how)
    OBVIOUS
  <2> QED
    BY <1>1, <1>4, <2>1, ReturnedIs
<1>5. ASSUME NEW o, NEW from, NEW s, Put(d, o, from, s), DOMAIN s = Fields,
             s.op.name # "modifyPeerNote"
      PROVE  Other
  BY <1>1, <1>5 DEF Put
<1> HIDE DEF Other
<1>6. ASSUME run[d].stage \notin {"idle", "note"}
      PROVE  run[d].op.name # "modifyPeerNote" /\ DOMAIN run[d] = Fields
  BY <1>6 DEF AskedInv, Asked, OpInv, RunInv, RunOk, Typed
<1>7. ASSUME NEW how, Return(d, how), run[d].stage \notin {"idle", "note"} PROVE Other
  BY <1>3, <1>6, <1>7 DEF Return
<1>8. ASSUME NEW e, Becomes(d, AfterTest(run[d], e)), run[d].stage \notin {"idle", "note"}
      PROVE  Other
  <2>1. PICK s : s = [run[d] EXCEPT !.dda = e, !.test = 0]
    OBVIOUS
  <2>2. DOMAIN s = Fields /\ s.op = run[d].op
    BY <1>6, <1>8, <2>1 DEF Fields, Free
  <2>3. PICK x : x = AfterTest(run[d], e)
    OBVIOUS
  <2>4. \/ x = Returned(s, "ok")
        \/ x = [s EXCEPT !.stage = "open"]
        \/ x = [s EXCEPT !.stage = "request"]
    BY <2>1, <2>3 DEF AfterTest
  <2>5. x.op = s.op
    <3>1. x = Returned(s, "ok") => x.op = s.op
      BY ReturnedIs
    <3> QED
      BY <2>2, <2>4, <3>1 DEF Fields, Free
  <2> QED
    BY <1>2, <1>6, <1>8, <2>2, <2>3, <2>5
<1>9. CASE AnswerTest(d)
  <2>1. PICK r, a, n : Send(d, r, a, [run[d] EXCEPT !.stage = "respond", !.test = n])
    BY <1>9 DEF AnswerTest
  <2>2. run[d].stage = "test"
    BY <1>9 DEF AnswerTest, Stage
  <2>3. PICK s : s = [run[d] EXCEPT !.stage = "respond", !.test = n]
    OBVIOUS
  <2>4. DOMAIN s = Fields /\ s.op = run[d].op
    BY <1>6, <2>2, <2>3 DEF Fields, Free
  <2>5. Send(d, r, a, s)
    BY ONLY <2>1, <2>3
  <2>6. s.op.name # "modifyPeerNote"
    BY <1>6, <2>2, <2>4
  <2>7. Other
    BY ONLY <1>1, <2>4, <2>5, <2>6
  <2> QED
    BY ONLY <2>7 DEF Other
<1>10. CASE TestCompleted(d) \/ TestFailed(d)
  <2>1. run[d].stage \in {"test", "respond"} /\ \E e : Becomes(d, AfterTest(run[d], e))
    BY <1>10 DEF TestCompleted, TestFailed, Stage
  <2> QED
    BY <1>8, <2>1 DEF Other
<1>11. CASE OpenFile(d) \/ OpenFails(d) \/ HashBlock(d)
  <2>1. run[d].stage \in {"open", "hash"}
    BY <1>11 DEF OpenFile, OpenFails, HashBlock, Stage
  <2>2. \/ \E how : Return(d, how)
        \/ \E n, h : Becomes(d, [run[d] EXCEPT !.stage = "hash", !.salt = n, !.sha = h])
        \/ \E n, h : Becomes(d, [run[d] EXCEPT !.sha = h, !.offset = n])
    BY <1>11 DEF OpenFile, OpenFails, HashBlock
  <2>3. ASSUME NEW n, NEW h,
               NEW s, Becomes(d, s),
               \/ s = [run[d] EXCEPT !.stage = "hash", !.salt = n, !.sha = h]
               \/ s = [run[d] EXCEPT !.sha = h, !.offset = n]
        PROVE  Other
    <3>1. DOMAIN run[d] = Fields /\ run[d].op.name # "modifyPeerNote"
      BY <1>6, <2>1
    <3>2. s.op = run[d].op
      BY ONLY <2>3, <3>1 DEF Fields, Free
    <3>3. s.op.name # "modifyPeerNote"
      BY <3>1, <3>2
    <3> QED
      BY <1>2, <2>3, <3>3
  <2> QED
    BY <1>7, <2>1, <2>2, <2>3 DEF Other
<1>12. CASE PutFromDisk(d) \/ PutFallback(d)
  <2>1. run[d].stage \in {"request", "put"}
    BY <1>12 DEF PutFromDisk, PutFallback, Stage
  <2>2. \/ \E how : Return(d, how)
        \/ \E from, stage : Put(d, run[d].op, from, [run[d] EXCEPT !.stage = stage])
    BY <1>12 DEF PutFromDisk, PutFallback
  <2>3. ASSUME NEW from, NEW stage, Put(d, run[d].op, from, [run[d] EXCEPT !.stage = stage])
        PROVE  Other
    <3>1. PICK s : s = [run[d] EXCEPT !.stage = stage]
      OBVIOUS
    <3>2. DOMAIN s = Fields /\ s.op = run[d].op
      BY <1>6, <2>1, <3>1 DEF Fields, Free
    <3> QED
      BY <1>5, <1>6, <2>1, <2>3, <3>1, <3>2
  <2> QED
    BY <1>7, <2>1, <2>2, <2>3 DEF Other
<1>13. CASE PutFromDiskEnds(d) \/ PutEnds(d)
  <2>1. run[d].stage \in {"put", "sent"} /\ \E how : Becomes(d, Returned(run[d], how))
    BY <1>13 DEF PutFromDiskEnds, PutEnds, Stage
  <2> QED
    BY <1>3, <1>6, <2>1 DEF Other
<1>14. CASE GetToDisk(d) \/ GetWithoutDisk(d)
  <2>1. run[d].stage = "request"
    BY <1>14 DEF GetToDisk, GetWithoutDisk, Stage
  <2>2. \/ \E how : Return(d, how)
        \/ \E r, a : Send(d, r, a, Returned(run[d], "ticket"))
    BY <1>14 DEF GetToDisk, GetWithoutDisk
  <2> QED
    BY <1>4, <1>6, <1>7, <2>1, <2>2 DEF Other
<1>15. CASE UndefinedCrashes(d)
  BY <1>15 DEF UndefinedCrashes, opVars
<1>16. CASE RemoveConfirmed(d) \/ RemoveEnds(d) \/ RemoveGivesUp(d)
  <2>1. run[d].stage \in {"remove", "removed"}
    BY <1>16 DEF RemoveConfirmed, RemoveEnds, RemoveGivesUp, Stage
  <2>2. \/ \E how : Return(d, how)
        \/ Becomes(d, [run[d] EXCEPT !.stage = "removed"])
    BY <1>16 DEF RemoveConfirmed, RemoveEnds, RemoveGivesUp
  <2>3. ASSUME Becomes(d, [run[d] EXCEPT !.stage = "removed"]) PROVE Other
    <3>1. PICK s : s = [run[d] EXCEPT !.stage = "removed"]
      OBVIOUS
    <3>2. s.op = run[d].op
      BY <1>6, <2>1, <3>1 DEF Fields, Free
    <3> QED
      BY <1>2, <1>6, <2>1, <2>3, <3>1, <3>2
  <2> QED
    BY <1>7, <2>1, <2>2, <2>3 DEF Other
<1>17. ASSUME NEW o \in Operations[d],
              \/ StartTest(d, o) \/ StartPut(d, o) \/ StartGet(d, o) \/ GetThrows(d, o)
              \/ Modify(d, o) \/ Remove(d, o)
       PROVE  Other
  <2>1. Starts(d, o) /\ o.name # "modifyPeerNote"
    BY <1>17 DEF StartTest, StartPut, StartGet, GetThrows, Modify, Remove, ReadsDir, WritesDir, Gets
  <2>2. PICK f : f = Started(d, o)
    OBVIOUS
  <2>3. DOMAIN f = Fields /\ f.op = o
    BY <2>1, <2>2, StartedIs
  <2>4. ASSUME NEW stage, NEW n, NEW s,
               \/ s = [f EXCEPT !.stage = stage] \/ s = [f EXCEPT !.stage = stage, !.test = n]
        PROVE  DOMAIN s = Fields /\ s.op = o
    BY <2>3, <2>4 DEF Fields, Free
  <2>5. ASSUME NEW r, NEW a, NEW stage, NEW n, NEW s, Send(d, r, a, s),
               \/ s = [f EXCEPT !.stage = stage] \/ s = [f EXCEPT !.stage = stage, !.test = n]
        PROVE  Other
    BY <1>1, <2>1, <2>4, <2>5
  <2>6. CASE StartTest(d, o) \/ Remove(d, o)
    BY <2>2, <2>5, <2>6 DEF StartTest, Remove
  <2>7. CASE StartPut(d, o)
    <3>1. \/ \E how : Becomes(d, Returned(f, how))
          \/ \E from : Put(d, o, from, [f EXCEPT !.stage = "sent"])
      BY <2>2, <2>7 DEF StartPut
    <3>2. ASSUME NEW from, Put(d, o, from, [f EXCEPT !.stage = "sent"]) PROVE Other
      BY <1>5, <2>1, <2>4, <3>2
    <3> QED
      BY <1>3, <2>1, <2>3, <3>1, <3>2
  <2>8. CASE StartGet(d, o)
    <3>1. \E r, a : Send(d, r, a, Returned(f, "ticket"))
      BY <2>2, <2>8 DEF StartGet, Get
    <3> QED
      BY <1>4, <2>1, <2>3, <3>1
  <2>9. CASE GetThrows(d, o)
    <3>1. Becomes(d, Returned(f, "invalid_argument"))
      BY <2>2, <2>9 DEF GetThrows
    <3> QED
      BY <1>3, <2>1, <2>3, <3>1
  <2>10. CASE Modify(d, o)
    <3>1. \E r, a : Send(d, r, a, Returned(f, "ok"))
      BY <2>2, <2>10 DEF Modify
    <3> QED
      BY <1>4, <2>1, <2>3, <3>1
  <2> QED
    BY <1>17, <2>6, <2>7, <2>8, <2>9, <2>10
<1> QED
  BY <1>9, <1>10, <1>11, <1>12, <1>13, <1>14, <1>15, <1>16, <1>17 DEF Operate, Other

\* What is asked stays asked.
LEMMA AskedKept ==
  ASSUME started \in Nat, Grows, NEW r, Asked(r), JobFits(r)
  PROVE  Asked(r)'
<1>1. r.stage = "note" => /\ attr'[r.job] = attr[r.job] /\ arg'[r.job] = arg[r.job]
  BY DEF JobFits, Grows
<1>2. PlainKey \notin clashed' => PlainKey \notin clashed
  BY DEF Grows
<1> QED
  BY <1>1, <1>2 DEF Asked, NoteOk

\* The clients' operations, when at most one of them goes on.
LEMMA AskedBy ==
  ASSUME OpInv, AskedInv, Grows, NEW d \in Clients,
         \/ UNCHANGED run
         \/ \E s : run' = [run EXCEPT ![d] = s] /\ Asked(s)'
  PROVE  AskedInv'
<1> SUFFICES ASSUME NEW c \in Clients PROVE Asked(run[c])'
  BY DEF AskedInv
<1>1. PICK r : r = run[c]
  OBVIOUS
<1>2. Asked(r)'
  <2>1. started \in Nat /\ Asked(r) /\ JobFits(r)
    BY <1>1 DEF OpInv, RunInv, RunOk, AskedInv
  <2> QED
    BY <2>1, AskedKept
<1>3. CASE run'[c] = r
  BY ONLY <1>2, <1>3 DEF Asked, NoteOk
<1>4. CASE run'[c] # r
  <2>1. PICK s : run' = [run EXCEPT ![d] = s] /\ Asked(s)'
    BY <1>1, <1>4
  <2>2. run'[c] = s
    BY <1>1, <1>4, <2>1 DEF OpInv, RunInv
  <2>3. Asked(s)'
    BY ONLY <2>1
  <2> QED
    BY ONLY <2>2, <2>3 DEF Asked, NoteOk
<1> QED
  BY <1>3, <1>4

\* The request of modifyPeerNote has the coded note.
LEMMA StartNoteAsks ==
  ASSUME OpInv, NEW d \in Clients, NEW o \in Operations[d], StartNote(d, o)
  PROVE  \E s : run' = [run EXCEPT ![d] = s] /\ Asked(s)'
<1>1. PICK r, a :
        /\ Send(d, r, a, [Started(d, o) EXCEPT !.stage = "note"])
        /\ r \in {ModifyPeerNote, ListPeerNotes}
        /\ o.name = "modifyPeerNote" =>
             r = ModifyPeerNote /\ a = [NoArg EXCEPT !.text = Encode(o.note)]
  BY DEF StartNote
<1>2. PICK f : f = Started(d, o)
  OBVIOUS
<1>3. Starts(d, o) /\ DOMAIN f = Fields /\ f.op = o /\ f.how = "none" /\ Usable(d)
  <2>1. Starts(d, o)
    BY DEF StartNote
  <2>2. DOMAIN f = Fields /\ f.op = o /\ Usable(d)
    BY <1>2, <2>1, StartedIs
  <2>3. f.how = "none"
    BY <1>2 DEF Started, Free
  <2> QED
    BY <2>1, <2>2, <2>3
<1>4. PICK s : s = [f EXCEPT !.stage = "note"]
  OBVIOUS
<1>5. DOMAIN s = Fields /\ s.op = o /\ s.how = "none" /\ s.stage = "note"
  BY <1>3, <1>4 DEF Fields, Free
<1>6. Send(d, r, a, s) /\ r \in Requests
  BY <1>1, <1>2, <1>4, OperationsAssumption
<1>7. attr'[started'] = r /\ arg'[started'] = a
  BY <1>3, <1>6, SendSteps
<1>8. PICK n : n = started'
  OBVIOUS
<1>9. PICK t : t = [s EXCEPT !.job = n]
  OBVIOUS
<1>10. t.op = o /\ t.how = "none" /\ t.stage = "note" /\ t.job = n
  BY <1>5, <1>9, NumberSet
<1>11. o.name = "modifyPeerNote" => attr'[n] = ModifyPeerNote /\ arg'[n].text = Encode(o.note)
  <2> SUFFICES ASSUME o.name = "modifyPeerNote"
               PROVE  attr'[n] = ModifyPeerNote /\ arg'[n].text = Encode(o.note)
    OBVIOUS
  <2>1. PICK text : text = Encode(o.note)
    OBVIOUS
  <2>2. a = [NoArg EXCEPT !.text = text]
    BY <1>1, <2>1
  <2>3. a.text = text
    BY <2>2 DEF NoArg
  <2> QED
    BY <1>1, <1>7, <1>8, <2>1, <2>3
<1>12. Asked(t)'
  BY <1>10, <1>11 DEF Asked
<1>13. run' = [run EXCEPT ![d] = t]
  BY <1>6, <1>8, <1>9 DEF Send
<1> QED
  BY <1>12, <1>13

\* The node's answers to it are of one word.
LEMMA NoteWords ==
  ASSUME RInv, NEW j \in Jobs, attr[j] = ModifyPeerNote, script[j] # <<>>
  PROVE  Len(script[j]) = 1
<1>1. attr[j].id = "" /\ attr[j].cmd = "ModifyPeerNote"
  BY PlainKeys DEF ModifyPeerNote
<1>2. script[j] \in Answers(attr[j])
  BY <1>1 DEF RInv, ScriptInv
<1>3. script[j] \in {Words(<<"PeerNote">>), Words(<<"UnknownPeerNoteType">>)}
  BY <1>1, <1>2, Zenon DEF Answers
<1>4. PICK h : script[j] = <<Word(h)>>
  BY <1>3, OneWord
<1> QED
  BY <1>4

\* What modifyPeerNote returns is what came of its own note.
LEMMA NoteEndsAsks ==
  ASSUME OpInv, AskedInv, NoteSaid, NEW c \in Clients, NoteEnds(c)
  PROVE  \E s : run' = [run EXCEPT ![c] = s] /\ Asked(s)'
<1>1. PICK r, j : r = run[c] /\ j = r.job
  OBVIOUS
<1>2. /\ mgr # "crashed" /\ r.stage = "note" /\ RunOk(c, r) /\ Asked(r)
      /\ started \in Nat /\ j \in 1 .. started
  BY <1>1 DEF NoteEnds, Stage, OpInv, RunInv, RunOk, JobFits, AskedInv
<1>3. PICK text : text = answer[Front(c).re].text
  OBVIOUS
<1>4. PICK how :
        /\ how = IF Result(c) # "ok" THEN Result(c)
                 ELSE IF \E i \in DOMAIN NotesIn(c) : NotesIn(c)[i].h # "PeerNote"
                      THEN "bad_lexical_cast"
                 ELSE IF Decode(text) = Illegal THEN "IllegalBase64" ELSE "ok"
        /\ Becomes(c, [Returned(run[c], how) EXCEPT
                         !.value = IF how = "ok" THEN Decode(text) ELSE <<>>])
  BY <1>3 DEF NoteEnds
<1>5. PICK v : v = IF how = "ok" THEN Decode(text) ELSE <<>>
  OBVIOUS
<1>6. PICK q : q = Returned(r, how)
  OBVIOUS
<1>7. PICK s : s = [q EXCEPT !.value = v]
  OBVIOUS
<1>8. s.op = r.op /\ s.stage = "idle" /\ s.how = how /\ s.value = v
  <2>1. DOMAIN q = Fields /\ q.op = r.op /\ q.stage = "idle" /\ q.how = how
    BY <1>6, ReturnedIs
  <2> QED
    BY <1>7, <2>1 DEF Fields, Free
<1>9. run' = [run EXCEPT ![c] = s] /\ UNCHANGED lifeVars
  BY <1>1, <1>4, <1>5, <1>6, <1>7 DEF Becomes
<1>10. clashed' = clashed
  BY <1>9 DEF lifeVars, vars, manager
<1>11. ASSUME r.op.name = "modifyPeerNote", PlainKey \notin clashed, how \in {"ok", "IllegalBase64"}
       PROVE  text = Encode(r.op.note)
  <2>1. attr[j] = ModifyPeerNote /\ arg[j].text = Encode(r.op.note)
    BY <1>1, <1>2, <1>11 DEF Asked
  <2>2. RInv /\ j \in Jobs
    BY <1>2, NodeThreadAssumption DEF OpInv, AliveInv, BaseInv, Jobs
  <2>3. Result(c) = outcome[j] /\ Front(c) = view[j][1]
    BY <1>1 DEF Result, Front
  <2>4. outcome[j] = "ok"
    <3>1. outcome[j] \in {"none", "ticket", "ok", "error", "timeout", "failure"}
      BY <2>2 DEF RInv, IInv, ClientInv
    <3> QED
      BY <1>4, <1>11, <2>3, <3>1
  <2>5. Key(j) = PlainKey /\ attr[j].id = ""
    BY <2>1, PlainKeys DEF ModifyPeerNote
  <2>6. script[j] # <<>> /\ Tells(view[j], j) /\ pos[j] = Len(script[j])
        /\ view[j] \in Seq(StoredSet)
    BY <1>11, <2>2, <2>4, <2>5, AnsweredByItsOwn
  <2>7. pos[j] = 1
    BY <2>1, <2>2, <2>6, NoteWords
  <2>8. Len(view[j]) = 1 /\ view[j][1].h = script[j][1].h /\ view[j][1].re = j
    BY <2>6, <2>7 DEF Tells
  <2>9. NotesIn(c) = SubSeq(view[j], 1, 1)
    BY <1>1, <1>11 DEF NotesIn
  <2>10. \A i \in DOMAIN NotesIn(c) : NotesIn(c)[i].h = "PeerNote"
    BY <1>4, <1>11, <2>3, <2>4
  <2>11. view[j][1].h = "PeerNote"
    <3> DEFINE w == view[j]
    <3>1. w \in Seq(StoredSet) /\ Len(w) = 1
      BY <2>6, <2>8
    <3> HIDE DEF w
    <3>2. 1 \in DOMAIN SubSeq(w, 1, 1) /\ SubSeq(w, 1, 1)[1] = w[1]
      BY <3>1
    <3> QED
      BY <2>9, <2>10, <3>2 DEF w
  <2>12. answer[j].text = arg[j].text
    <3>1. pos[j] # 0 /\ script[j][1].h = "PeerNote"
      BY <2>7, <2>8, <2>11
    <3> QED
      BY ONLY <1>2, <2>1, <3>1, NoteSaid DEF NoteSaid
  <2> QED
    BY <1>3, <2>1, <2>3, <2>8, <2>12
<1>12. ASSUME r.op.name = "modifyPeerNote", PlainKey \notin clashed PROVE NoteOk(s)
  <2>1. CASE how \notin {"ok", "IllegalBase64"}
    BY <1>8, <2>1 DEF NoteOk
  <2>2. CASE how \in {"ok", "IllegalBase64"}
    <3>1. text = Encode(r.op.note)
      BY <1>11, <1>12, <2>2
    <3>2. r.op.note \in Seq(Byte)
      <4>1. r.op \in Operations[c]
        BY <1>2 DEF RunOk, OpFits
      <4> QED
        BY <1>12, <4>1, OperationsAssumption
    <3>3. PICK in : in = r.op.note
      OBVIOUS
    <3>4. PICK back : back = Decode(Encode(in))
      OBVIOUS
    <3>5. in \in Seq(Byte) /\ Decode(text) = back
      BY <3>1, <3>2, <3>3, <3>4
    <3>6. /\ back = Illegal => \E i \in DOMAIN Encode(in) : Encode(in)[i] \in {126, 45}
          /\ back # Illegal =>
               /\ SubSeq(back, 1, Len(in)) = in
               /\ Len(back) - Len(in) \in 0 .. 2 /\ Len(back) % 3 = 0
               /\ \A i \in Len(in) + 1 .. Len(back) : back[i] = 0
      BY <3>4, <3>5, NoteComesBack
    <3>7. /\ how = "IllegalBase64" => back = Illegal
          /\ how = "ok" => back # Illegal /\ v = back
      <4>1. Result(c) = "ok"
        <5>1. j \in Jobs /\ RInv /\ Result(c) = outcome[j]
          BY <1>1, <1>2, NodeThreadAssumption DEF OpInv, AliveInv, BaseInv, Jobs, Result
        <5>2. outcome[j] \in {"none", "ticket", "ok", "error", "timeout", "failure"}
          BY <5>1 DEF RInv, IInv, ClientInv
        <5>3. outcome[j] # "IllegalBase64" 
          BY <5>2
        <5> QED
          BY <1>4, <2>2, <5>1, <5>3
      <4> QED
        BY <1>4, <1>5, <3>5, <4>1
    <3>8. s.op.note = in
      BY <1>8, <3>3
    <3> QED
      BY <1>8, <3>6, <3>7, <3>8 DEF NoteOk
  <2> QED
    BY <2>1, <2>2
<1>13. Asked(s)'
  <2>1. r.op.name = "modifyPeerNote" /\ PlainKey \notin clashed' => NoteOk(s)
    BY <1>10, <1>12
  <2> QED
    BY <1>8, <2>1 DEF Asked, NoteOk
<1> QED
  BY <1>9, <1>13

\* What an operation's step does with what has been asked and said.
LEMMA OperateGrows ==
  ASSUME OpInv, NEW d \in Clients, Operate(d)
  PROVE  /\ Grows /\ UNCHANGED <<script, pos, answer>>
         /\ started' \in 0 .. MaxJobs
<1>1. started \in 0 .. MaxJobs /\ started \in Nat
  BY DEF OpInv
<1>2. ASSUME NEW r, NEW a, NEW s, Send(d, r, a, s)
      PROVE  Grows /\ UNCHANGED <<script, pos, answer>> /\ started' \in 0 .. MaxJobs
  <2>1. /\ mgr # "crashed" /\ started < MaxJobs /\ started' = started + 1
        /\ attr' = [attr EXCEPT ![started'] = r] /\ arg' = [arg EXCEPT ![started'] = a]
        /\ UNCHANGED <<clashed, script, pos, answer>>
    BY <1>2 DEF Send, Call, node
  <2>2. DOMAIN attr = 0 .. MaxJobs /\ DOMAIN arg = 0 .. MaxJobs
    BY <2>1 DEF OpInv, ArgInv, AliveInv, BaseInv, RInv, IInv, WireInv
  <2>3. \A j \in 1 .. started : j # started' /\ j \in 0 .. MaxJobs
    BY <1>1, <2>1, NodeThreadAssumption
  <2>4. \A j \in 1 .. started : attr'[j] = attr[j] /\ arg'[j] = arg[j]
    BY <2>1, <2>2, <2>3
  <2>5. started' \in 0 .. MaxJobs /\ started <= started'
    BY <1>1, <2>1, NodeThreadAssumption
  <2> QED
    BY <2>1, <2>4, <2>5 DEF Grows
<1>3. ASSUME UNCHANGED <<started, attr, arg, clashed>>
      PROVE  Grows /\ started' \in 0 .. MaxJobs
  BY <1>1, <1>3 DEF Grows
<1>4. ASSUME NEW s, Becomes(d, s)
      PROVE  Grows /\ UNCHANGED <<script, pos, answer>> /\ started' \in 0 .. MaxJobs
  BY <1>3, <1>4 DEF Becomes, lifeVars, vars, ticket, manager, node
<1>5. CASE UndefinedCrashes(d)
  BY <1>3, <1>5 DEF UndefinedCrashes, opVars, ticket, node
<1> QED
  BY <1>2, <1>4, <1>5, OwnStep

\* The steps of NodeLife, as far as the connection goes.
LEMMA WireMoves ==
  ASSUME IInv, Underneath
  PROVE  /\ UNCHANGED pos
         /\ \A j \in Jobs : pos[j] # 0 => script'[j] = script[j]
<1> DEFINE Goal == UNCHANGED pos /\ \A j \in Jobs : pos[j] # 0 => script'[j] = script[j]
<1>1. ASSUME UNCHANGED node PROVE Goal
  BY <1>1 DEF node
<1>2. ASSUME SendClientReq PROVE Goal
  <2>1. PICK j : j = Head(queue)
    OBVIOUS
  <2>2. /\ queue # <<>> /\ UNCHANGED pos
        /\ UNCHANGED script \/ \E s : script' = [script EXCEPT ![j] = s]
    BY <1>2, <2>1 DEF SendClientReq
  <2>3. j \in Jobs /\ j > Taken
    <3>1. j \in Jobs /\ j = Taken + 1 /\ Taken \in Nat
      BY <2>1, <2>2, HeadIsNext DEF IInv
    <3> QED
      BY <3>1
  <2>4. pos[j] = 0
    <3>1. script[j] = <<>> /\ pos[j] \in Nat /\ pos[j] <= Len(script[j])
      BY <2>3, NodeThreadAssumption DEF IInv, WireInv, Jobs
    <3> QED
      BY <3>1
  <2>5. \A i \in Jobs : i # j => script'[i] = script[i]
    <3>1. DOMAIN script = 0 .. MaxJobs /\ \A i \in Jobs : i \in 0 .. MaxJobs
      BY NodeThreadAssumption DEF IInv, WireInv, Jobs
    <3> QED
      BY ONLY <2>2, <3>1
  <2> QED
    BY <2>2, <2>4, <2>5
<1>3. ASSUME Manager PROVE Goal
  BY <1>1, <1>2, <1>3 DEF Manager, NoMessage, SocketFails, DoMessage, NoRequest
<1> HIDE DEF Goal
<1>4. ASSUME NEW c, NEW r, Call(c, r) PROVE Goal
  BY <1>1, <1>4 DEF Call
<1>5. ASSUME NEW c, ClientStep(c) \/ PutLockedOut(c) PROVE Goal
  BY <1>1, <1>5 DEF ClientStep, WaitOver, GetResponse, GiveUp, PutLockedOut
<1>6. CASE Starting
  BY <1>1, <1>4, <1>6 DEF Starting, Construct, ConnectRefused, ConstructorEnds, vars, Goal
<1>7. CASE ManagerStep
  BY <1>1, <1>3, <1>7 DEF ManagerStep, ManagerRuns, InterruptThrown, InterruptSeen, ManagerEndsNow, Goal
<1>8. CASE ShuttingDown
  BY <1>1, <1>4, <1>8 DEF ShuttingDown, ShutdownBegins, ShutdownEnds, vars, Goal
<1>9. CASE Destroy
  BY <1>1, <1>9 DEF Destroy, vars, Goal
<1> QED
  BY <1>5, <1>6, <1>7, <1>8, <1>9 DEF Underneath, Goal

\* What was said about notes stays.
LEMMA NoteKept ==
  ASSUME OpInv, mgr # "crashed", NoteSaid, Grows, started' \in 0 .. MaxJobs,
         UNCHANGED <<pos, answer>>, \A j \in Jobs : pos[j] # 0 => script'[j] = script[j]
  PROVE  NoteSaid'
<1> SUFFICES ASSUME NEW j \in 1 .. started', attr'[j] = ModifyPeerNote, pos[j] # 0,
                    script'[j][1].h = "PeerNote"
             PROVE  answer[j].text = arg'[j].text
  BY DEF NoteSaid
<1>1. IInv /\ started \in 0 .. MaxJobs /\ j \in Jobs /\ j \in 0 .. MaxJobs
  BY NodeThreadAssumption DEF OpInv, AliveInv, BaseInv, RInv, Jobs
<1>2. j \in 1 .. started
  <2> SUFFICES ASSUME j > started PROVE FALSE
    BY <1>1
  <2>1. j > Taken
    <3>1. Len(queue) \in Nat
      BY <1>1 DEF IInv, QueueInv
    <3> QED
      BY <1>1, <3>1 DEF Taken, Jobs
  <2>2. script[j] = <<>> /\ pos[j] \in Nat /\ pos[j] <= Len(script[j])
    BY <1>1, <2>1 DEF IInv, WireInv
  <2> QED
    BY <2>2
<1>3. attr'[j] = attr[j] /\ arg'[j] = arg[j] /\ script'[j] = script[j]
  BY <1>1, <1>2 DEF Grows
<1> QED
  BY <1>2, <1>3 DEF NoteSaid

\* The node says of a note that was set what was set.
LEMMA NoteAnswered ==
  ASSUME OpInv, mgr # "crashed", NoteSaid, NEW i \in 0 .. MaxJobs, Answer(i)
  PROVE  NoteSaid'
<1>1. /\ RInv /\ AnswerInv /\ WireInv /\ started \in 0 .. MaxJobs
  BY DEF OpInv, AliveInv, BaseInv, RInv, IInv
<1>2. /\ UNCHANGED <<started, attr, arg, script>> /\ pos[i] < Len(script[i])
      /\ pos' = [pos EXCEPT ![i] = @ + 1]
  BY DEF Answer, NodeAnswers, ticket
<1> SUFFICES ASSUME NEW j \in 1 .. started, attr[j] = ModifyPeerNote, pos'[j] # 0,
                    script[j][1].h = "PeerNote"
             PROVE  answer'[j].text = arg[j].text
  BY <1>2 DEF NoteSaid
<1>3. j \in Jobs /\ j \in 0 .. MaxJobs
  BY <1>1, NodeThreadAssumption DEF Jobs
<1>4. CASE i # j
  <2>1. pos'[j] = pos[j]
    BY <1>1, <1>2, <1>3, <1>4 DEF WireInv
  <2>2. answer'[j] = answer[j]
    BY <1>1, <1>3, <1>4, AnswerSays DEF AnswerInv
  <2> QED
    BY <2>1, <2>2 DEF NoteSaid
<1>5. CASE i = j
  <2>1. pos[j] \in Nat /\ script[j] \in Seq(WordSet) /\ pos[j] < Len(script[j])
    BY <1>1, <1>2, <1>3, <1>5 DEF WireInv
  <2>2. script[j] # <<>>
    BY <2>1
  <2>3. Len(script[j]) = 1
    BY <1>1, <1>3, <2>2, NoteWords
  <2>4. pos'[j] = 1
    BY <1>1, <1>2, <1>3, <1>5, <2>1, <2>3 DEF WireInv
  <2>5. script[i][pos'[i]].h = "PeerNote"
    BY <1>5, <2>4
  <2>6. attr[i].cmd = "ModifyPeerNote"
    BY <1>5, PlainKeys DEF ModifyPeerNote
  <2>7. /\ note' = IF attr[i].cmd = "ModifyPeerNote" THEN arg[i].text ELSE note
        /\ answer' = [answer EXCEPT ![i].text = note']
    BY <2>5, Zenon DEF Answer
  <2>8. PICK n, a : n = note' /\ a = answer[i]
    OBVIOUS
  <2>9. n = arg[j].text /\ answer' = [answer EXCEPT ![i] = [a EXCEPT !.text = n]]
    BY <1>5, <2>6, <2>7, <2>8
  <2>10. DOMAIN a = DOMAIN NoAnswer
    BY <1>1, <2>8 DEF AnswerInv
  <2>11. [a EXCEPT !.text = n].text = n
    BY <2>10 DEF NoAnswer
  <2> QED
    BY <1>1, <1>3, <1>5, <2>9, <2>11 DEF AnswerInv
<1> QED
  BY <1>4, <1>5

\* Every step keeps what is known of the notes.
LEMMA NoteSteps ==
  ASSUME OpInv, NoteInv, [OpNext]_allVars
  PROVE  NoteInv'
<1>1. ASSUME NEW d \in Clients, Operate(d) PROVE NoteInv'
  <2>1. Grows /\ UNCHANGED <<script, pos, answer>> /\ started' \in 0 .. MaxJobs
    BY <1>1, OperateGrows
  <2>2. AskedInv'
    <3>1. CASE NoteEnds(d)
      <4>1. mgr # "crashed"
        BY <3>1 DEF NoteEnds, Stage
      <4> QED
        BY <2>1, <3>1, <4>1, NoteEndsAsks, AskedBy DEF NoteInv
    <3>2. CASE \E o \in Operations[d] : StartNote(d, o)
      BY <2>1, <3>2, StartNoteAsks, AskedBy DEF NoteInv
    <3>3. CASE ~NoteEnds(d) /\ \A o \in Operations[d] : ~StartNote(d, o)
      <4>1. \/ UNCHANGED run
            \/ \E s : run' = [run EXCEPT ![d] = s] /\ s.op.name # "modifyPeerNote"
        BY <1>1, <3>3, OtherOperation DEF NoteInv
      <4>2. ASSUME NEW s, s.op.name # "modifyPeerNote" PROVE Asked(s)'
        BY <4>2 DEF Asked
      <4> QED
        BY <2>1, <4>1, <4>2, AskedBy DEF NoteInv
    <3> QED
      BY <3>1, <3>2, <3>3
  <2>3. ASSUME mgr' # "crashed" PROVE NoteSaid'
    <3>1. mgr # "crashed"
      <4>1. ASSUME NEW r, NEW a, NEW s, Send(d, r, a, s) PROVE mgr # "crashed"
        BY <4>1 DEF Send, Call
      <4>2. ASSUME NEW s, Becomes(d, s) PROVE mgr' = mgr
        BY <4>2 DEF Becomes, lifeVars, vars, manager
      <4> QED
        BY <1>1, <2>3, <4>1, <4>2, OwnStep DEF UndefinedCrashes
    <3> QED
      BY <2>1, <3>1, NoteKept DEF NoteInv
  <2> QED
    BY <2>2, <2>3 DEF NoteInv
<1>2. ASSUME Grows, UNCHANGED run PROVE AskedInv'
  BY <1>2, OwnerAssumption, AskedBy DEF NoteInv
<1>3. ASSUME NEW j \in 0 .. MaxJobs, Answer(j) PROVE NoteInv'
  <2>1. /\ UNCHANGED <<started, attr, arg, clashed, run, mgr>>
    BY <1>3 DEF Answer, NodeAnswers, ticket, manager
  <2>2. Grows
    BY <2>1 DEF Grows, OpInv
  <2> QED
    BY <1>2, <1>3, <2>1, <2>2, NoteAnswered DEF NoteInv
<1>4. ASSUME Underneath, UNCHANGED opVars PROVE NoteInv'
  <2>1. mgr # "crashed" /\ UNCHANGED <<run, arg, answer>> /\ IInv
    BY <1>4, UnderneathMoves DEF opVars, OpInv, AliveInv, BaseInv, RInv
  <2>2. started' \in 0 .. MaxJobs /\ started <= started'
    BY <1>4, <2>1, BaseSafe, UnderneathMoves
  <2>3. Grows
    <3>1. CASE [LifeNext]_lifeVars
      BY <2>1, <3>1, LifeGrows DEF Grows
    <3>2. CASE \E c \in Clients : PutLockedOut(c) /\ UNCHANGED life
      BY <2>1, <2>2, <3>2 DEF Grows, PutLockedOut, ticket, manager
    <3> QED
      BY <1>4, <3>1, <3>2, UnderneathMoves
  <2>4. UNCHANGED pos /\ \A j \in Jobs : pos[j] # 0 => script'[j] = script[j]
    BY <1>4, <2>1, WireMoves
  <2> QED
    BY <1>2, <2>1, <2>2, <2>3, <2>4, NoteKept DEF NoteInv
<1>5. CASE UNCHANGED allVars
  <2>1. UNCHANGED <<run, started, attr, arg, clashed, mgr, pos, script, answer>>
    BY <1>5 DEF allVars, lifeVars, vars, ticket, manager, node, opVars
  <2>2. Grows /\ started' \in 0 .. MaxJobs
    BY <2>1 DEF Grows, OpInv
  <2> QED
    BY <1>2, <2>1, <2>2, NoteKept DEF NoteInv
<1> QED
  BY <1>1, <1>3, <1>4, <1>5 DEF OpNext

\* modifyPeerNote returns the note it was given, with zeros up to a whole group
\* at most, or the exception for a character that the decoder does not know; unless
\* plain commands have crossed, and whoever else sets notes meanwhile.
THEOREM NotesReturn == OpSpec => []NotesComeBack
<1>1. OpInit => NoteInv
  <2> SUFFICES ASSUME OpInit PROVE NoteInv
    OBVIOUS
  <2>1. started = 0 /\ run = [c \in Clients |-> Free]
    BY DEF OpInit, LifeInit, Init
  <2>2. Free.op.name # "modifyPeerNote"
    BY DEF Free
  <2>3. AskedInv
    BY <2>1, <2>2 DEF AskedInv, Asked
  <2>4. NoteSaid
    BY <2>1 DEF NoteSaid
  <2> QED
    BY <2>3, <2>4 DEF NoteInv
<1>2. OpInv /\ NoteInv /\ [OpNext]_allVars => NoteInv'
  BY NoteSteps
<1>3. NoteInv => NotesComeBack
  <2> SUFFICES ASSUME NoteInv, NEW c \in Clients, run[c].op.name = "modifyPeerNote", ~PlainClashed
               PROVE  NoteOk(run[c])
    BY DEF NotesComeBack, NoteOk
  <2>1. Asked(run[c]) /\ PlainKey \notin clashed
    BY DEF NoteInv, AskedInv, PlainClashed, PlainKey
  <2> QED
    BY <2>1 DEF Asked, NoteOk
<1> QED
  BY <1>1, <1>2, <1>3, OperationsInvariant, PTL DEF OpSpec

-----------------------------------------------------------------------------
(* The hash of putDisk.                                                     *)

\* What goes into a hash.
Elements ==
  {<<what, i>> : what \in {"salt", "file"}, i \in Nat}
  \cup {Mark, <<"zero">>} \cup {<<"length", h, l>> : h \in Nat, l \in Nat}

\* The part of the salt and of the file that the operation r has hashed.
Absorbs(r) == Absorbed(Elements, r.sha, Piece("salt", 1, r.salt) \o Piece("file", 1, r.offset))

\* An operation that may yet hash has read nothing; one that hashes has absorbed
\* what it read, unless its words have eight bytes.
Hashed(r) ==
  /\ r.stage \in {"test", "respond", "open"} => r.offset = 0
  /\ r.stage = "hash" => /\ r.salt \in Nat /\ r.offset \in Nat
                         /\ Absorbs(r) \/ r.sha \in Wide(Elements)

HashInv == \A c \in Clients : Hashed(run[c])

\* What SHA256_final adds are elements.
LEMMA ElementsHaveMarks == HasMarks(Elements)
  BY DEF HasMarks, Elements

\* A piece of the salt or of the file is of elements.
LEMMA PieceTyped ==
  ASSUME NEW what \in {"salt", "file"}, NEW from \in Nat \ {0}, NEW to \in Nat, from <= to + 1
  PROVE  Piece(what, from, to) \in Seq(Elements) /\ Len(Piece(what, from, to)) = to - from + 1
<1>1. PICK n : n = to - from + 1
  OBVIOUS
<1>2. n \in Nat
  BY <1>1
<1>3. \A i \in 1 .. n : from + i - 1 \in Nat /\ <<what, from + i - 1>> \in Elements
  <2> SUFFICES ASSUME NEW i \in 1 .. n PROVE from + i - 1 \in Nat /\ <<what, from + i - 1>> \in Elements
    OBVIOUS
  <2>1. PICK k : k = from + i - 1
    OBVIOUS
  <2>2. k \in Nat
    BY <1>2, <2>1
  <2> QED
    BY <2>1, <2>2 DEF Elements
<1> HIDE DEF Elements
<1>4. [i \in 1 .. n |-> <<what, from + i - 1>>] \in Seq(Elements)
  BY <1>2, <1>3
<1> QED
  BY <1>1, <1>2, <1>4 DEF Piece

\* The pieces of what is hashed next follow those that were.
LEMMA PieceGrows ==
  ASSUME NEW n \in Nat, NEW o \in Nat, NEW u \in Nat, o <= u
  PROVE  (Piece("salt", 1, n) \o Piece("file", 1, o)) \o Piece("file", o + 1, u)
           = Piece("salt", 1, n) \o Piece("file", 1, u)
<1>1. PICK s, a, b, c : /\ s = Piece("salt", 1, n) /\ a = Piece("file", 1, o)
                        /\ b = Piece("file", o + 1, u) /\ c = Piece("file", 1, u)
  OBVIOUS
<1>2. /\ s \in Seq(Elements)
      /\ a \in Seq(Elements) /\ Len(a) = o
      /\ b \in Seq(Elements) /\ Len(b) = u - o
      /\ c \in Seq(Elements) /\ Len(c) = u
  <2>1. s \in Seq(Elements)
    BY <1>1, 1 \in Nat \ {0}, 1 <= n + 1, PieceTyped
  <2>2. a \in Seq(Elements) /\ Len(a) = o - 1 + 1
    BY <1>1, 1 \in Nat \ {0}, 1 <= o + 1, PieceTyped
  <2>3. b \in Seq(Elements) /\ Len(b) = u - (o + 1) + 1
    <3>1. o + 1 \in Nat \ {0} /\ o + 1 <= u + 1
      OBVIOUS
    <3> QED
      BY <1>1, <3>1, PieceTyped
  <2>4. c \in Seq(Elements) /\ Len(c) = u - 1 + 1
    BY <1>1, 1 \in Nat \ {0}, 1 <= u + 1, PieceTyped
  <2> QED
    BY <2>1, <2>2, <2>3, <2>4
<1>3. /\ \A i \in 1 .. o : a[i] = <<"file", 1 + i - 1>>
      /\ \A i \in 1 .. u - o : b[i] = <<"file", o + 1 + i - 1>>
      /\ \A i \in 1 .. u : c[i] = <<"file", 1 + i - 1>>
  BY <1>1 DEF Piece
<1>4. PICK d : d = a \o b
  OBVIOUS
<1>5. d = c
  <2>1. d \in Seq(Elements) /\ Len(d) = u
    BY ONLY <1>2, <1>4, o \in Nat, u \in Nat
  <2>2. \A i \in 1 .. u : d[i] = c[i]
    <3> SUFFICES ASSUME NEW i \in 1 .. u PROVE d[i] = c[i]
      OBVIOUS
    <3>1. CASE i <= o
      <4>1. d[i] = a[i]
        <5>1. i \in 1 .. Len(a) /\ Len(b) \in Nat
          BY <1>2, <3>1
        <5> QED
          BY ONLY <1>2, <1>4, <5>1
      <4> QED
        BY <1>3, <3>1, <4>1
    <3>2. CASE i > o
      <4>1. d[i] = b[i - o]
        BY ONLY <1>2, <1>4, <3>2, i \in 1 .. u, o \in Nat, u \in Nat
      <4>2. i - o \in 1 .. u - o /\ o + 1 + (i - o) - 1 = 1 + i - 1
        BY <3>2
      <4>3. b[i - o] = <<"file", o + 1 + (i - o) - 1>>
        BY ONLY <1>3, <4>2
      <4>4. c[i] = <<"file", 1 + i - 1>>
        BY ONLY <1>3, i \in 1 .. u
      <4> QED
        BY ONLY <4>1, <4>2, <4>3, <4>4
    <3> QED
      BY <3>1, <3>2
  <2>3. d = [i \in 1 .. u |-> d[i]] /\ c = [i \in 1 .. u |-> c[i]]
    BY ONLY <1>2, <2>1
  <2> QED
    BY ONLY <2>2, <2>3
<1>6. (s \o a) \o b = s \o (a \o b)
  <2>1. s \in Seq(Elements) /\ a \in Seq(Elements) /\ b \in Seq(Elements)
    BY ONLY <1>2
  <2> QED
    BY ONLY <2>1, ConcatAssoc
<1> QED
  BY ONLY <1>1, <1>4, <1>5, <1>6

\* Of no file there is nothing.
LEMMA PieceOfNone ==
  ASSUME NEW n \in Nat
  PROVE  Piece("salt", 1, n) \o Piece("file", 1, 0) = <<>> \o Piece("salt", 1, n)
<1>1. PICK s, a : s = Piece("salt", 1, n) /\ a = Piece("file", 1, 0)
  OBVIOUS
<1>2. s \in Seq(Elements) /\ a \in Seq(Elements) /\ Len(a) = 0 - 1 + 1
  BY <1>1, PieceTyped
<1>3. a = <<>>
  BY ONLY <1>2
<1>4. <<>> \o s = s /\ s \o <<>> = s
  BY ONLY <1>2
<1> QED
  BY ONLY <1>1, <1>3, <1>4

\* The digest of what was absorbed is that of the whole message.
LEMMA HashIsDigested ==
  ASSUME NEW ctx, NEW m, Absorbed(Elements, ctx, m)
  PROVE  SHA256_final(ctx).H = Digested(m)
<1>1. PICK z \in 0 .. BlockBytes - 1 :
        /\ (Len(m) + 1 + z) % BlockBytes = LengthPlace
        /\ SHA256_final(ctx).H = BlocksOf(Padded(m, z), (Len(m) + 1 + z) \div BlockBytes)
  BY FinalPads, ElementsHaveMarks
<1>2. PICK n : n = Len(m)
  OBVIOUS
<1>3. n \in Nat
  BY <1>2 DEF Absorbed
<1> DEFINE zeros == CHOOSE y \in 0 .. BlockBytes - 1 : (n + 1 + y) % BlockBytes = LengthPlace
<1>4. zeros = z
  <2>1. zeros \in 0 .. BlockBytes - 1 /\ (n + 1 + zeros) % BlockBytes = LengthPlace
    BY <1>1, <1>2
  <2> HIDE DEF zeros
  <2>2. BlockBytes \in Nat \ {0} /\ n + 1 \in Nat
    BY <1>3, BlockTyped
  <2>3. (n + 1 + zeros) % BlockBytes = (n + 1 + z) % BlockBytes
    BY <1>1, <1>2, <2>1
  <2> QED
    BY <2>1, <2>2, <2>3, ModInjective
<1>5. Digested(m) = BlocksOf(Padded(m, zeros), (n + 1 + zeros) \div BlockBytes)
  BY <1>2 DEF Digested, BlocksOf, Padded, LengthPlace
<1> HIDE DEF zeros
<1> QED
  BY <1>1, <1>2, <1>4, <1>5

\* The number of a request does not matter to the hash.
LEMMA HashedNumber ==
  ASSUME NEW s, DOMAIN s = Fields, Hashed(s), NEW n, NEW t, t = [s EXCEPT !.job = n]
  PROVE  Hashed(t)
<1>1. t.stage = s.stage /\ t.sha = s.sha /\ t.salt = s.salt /\ t.offset = s.offset
  BY DEF Fields, Free
<1> QED
  BY ONLY <1>1, Hashed(s) DEF Hashed, Absorbs

\* Nor does a state matter that hashes neither now nor later.
Aside(s) == s.stage \notin {"test", "respond", "open", "hash"}

\* The steps of putDisk that hash.
LEMMA OpenHashes ==
  ASSUME OpInv, HashInv, NEW d \in Clients, OpenFile(d)
  PROVE  \E s : run' = [run EXCEPT ![d] = s] /\ Hashed(s)
<1>1. PICK r : r = run[d]
  OBVIOUS
<1>2. DOMAIN r = Fields /\ r.stage = "open" /\ r.offset = 0
  BY <1>1 DEF OpenFile, Stage, HashInv, Hashed, OpInv, RunInv, RunOk, Typed
<1>3. PICK word \in WordSizes, n \in SaltBytes :
        Becomes(d, [run[d] EXCEPT
                      !.stage = "hash", !.salt = n,
                      !.sha = SHA256_update(SHA256_init(word), Piece("salt", 1, n))])
  BY DEF OpenFile
<1>4. n \in Nat /\ word \in {4, 8}
  BY OperationsAssumption, Sha256Assumption
<1>5. PICK p, h : p = Piece("salt", 1, n) /\ h = SHA256_update(SHA256_init(word), p)
  OBVIOUS
<1>6. PICK s : s = [r EXCEPT !.stage = "hash", !.salt = n, !.sha = h]
  OBVIOUS
<1>7. s = [run[d] EXCEPT !.stage = "hash", !.salt = n,
                         !.sha = SHA256_update(SHA256_init(word), Piece("salt", 1, n))]
  BY <1>1, <1>5, <1>6
<1>8. run' = [run EXCEPT ![d] = s]
  BY <1>3, <1>7 DEF Becomes
<1>9. s.stage = "hash" /\ s.salt = n /\ s.sha = h /\ s.offset = 0
  BY <1>2, <1>6 DEF Fields, Free
<1>10. p \in Seq(Elements)
  BY <1>4, <1>5, PieceTyped
<1>11. ASSUME Absorbs(s) \/ s.sha \in Wide(Elements)
       PROVE  \E x : run' = [run EXCEPT ![d] = x] /\ Hashed(x)
  <2>1. s.salt \in Nat /\ s.offset \in Nat
    BY <1>4, <1>9
  <2>2. Hashed(s)
    BY ONLY <1>9, <1>11, <2>1 DEF Hashed
  <2> QED
    BY <1>8, <2>2
<1>12. CASE word = 4
  <2>1. Piece("salt", 1, n) \o Piece("file", 1, 0) = <<>> \o p
    BY <1>4, <1>5, PieceOfNone
  <2>2. Absorbed(Elements, h, <<>> \o p)
    BY <1>5, <1>10, <1>12, InitAbsorbs, UpdateAbsorbs
  <2>3. Absorbed(Elements, h, Piece("salt", 1, n) \o Piece("file", 1, 0))
    BY ONLY <2>1, <2>2, Zenon
  <2>4. Absorbs(s)
    BY ONLY <1>9, <2>3, Zenon DEF Absorbs
  <2> QED
    BY <1>11, <2>4
<1>13. CASE word = 8
  <2>1. SHA256_update(SHA256_init(8), p) \in Wide(Elements)
    BY <1>10, WideInit, WideUpdate
  <2>2. s.sha \in Wide(Elements)
    BY <1>5, <1>9, <1>13, <2>1
  <2> QED
    BY <1>11, <2>2
<1> QED
  BY <1>4, <1>12, <1>13

\* A round of its loop.
LEMMA BlockHashes ==
  ASSUME OpInv, HashInv, NEW d \in Clients, HashBlock(d)
  PROVE  \E s : run' = [run EXCEPT ![d] = s] /\ Hashed(s)
<1>1. PICK r : r = run[d]
  OBVIOUS
<1>2. /\ DOMAIN r = Fields /\ r.stage = "hash" /\ r.salt \in Nat /\ r.offset \in Nat
      /\ Absorbs(r) \/ r.sha \in Wide(Elements)
  BY <1>1 DEF HashBlock, Stage, HashInv, Hashed, OpInv, RunInv, RunOk, Typed
<1>3. ASSUME NEW how, Return(d, how) PROVE \E s : run' = [run EXCEPT ![d] = s] /\ Hashed(s)
  <2>1. PICK s : s = Returned(r, how)
    OBVIOUS
  <2>2. run' = [run EXCEPT ![d] = s] /\ s.stage = "idle"
    BY <1>1, <1>3, <2>1, ReturnedIs DEF Return, Becomes
  <2> QED
    BY <2>2 DEF Hashed
<1>4. PICK o, u, n : o = r.offset /\ u = o + ReadBytes /\ n = r.salt
  OBVIOUS
<1>5. o \in Nat /\ u \in Nat /\ n \in Nat /\ o <= u
  BY <1>2, <1>4, OperationsAssumption
<1>6. PICK p, h : p = Piece("file", o + 1, u) /\ h = SHA256_update(r.sha, p)
  OBVIOUS
<1>7. PICK s : s = [r EXCEPT !.sha = h, !.offset = u]
  OBVIOUS
<1>8. CASE \A how : ~Return(d, how)
  <2>1. Becomes(d, [run[d] EXCEPT
                      !.sha = SHA256_update(@, Piece("file", run[d].offset + 1,
                                                     run[d].offset + ReadBytes)),
                      !.offset = run[d].offset + ReadBytes])
    BY <1>8 DEF HashBlock
  <2>2. run' = [run EXCEPT ![d] = s]
    BY <1>1, <1>4, <1>6, <1>7, <2>1 DEF Becomes
  <2>3. s.stage = "hash" /\ s.salt = n /\ s.sha = h /\ s.offset = u
    BY <1>2, <1>4, <1>7 DEF Fields, Free
  <2>4. p \in Seq(Elements)
    <3>1. o + 1 \in Nat \ {0} /\ o + 1 <= u + 1
      BY <1>5
    <3> QED
      BY <1>5, <1>6, <3>1, PieceTyped
  <2>5. ASSUME Absorbs(r) PROVE Absorbs(s)
    <3>1. PICK m : m = Piece("salt", 1, n) \o Piece("file", 1, o)
      OBVIOUS
    <3>2. Absorbed(Elements, r.sha, m)
      BY <1>4, <2>5, <3>1 DEF Absorbs
    <3>3. Absorbed(Elements, h, m \o p)
      BY <1>6, <2>4, <3>2, UpdateAbsorbs
    <3>4. m \o p = Piece("salt", 1, n) \o Piece("file", 1, u)
      BY <1>5, <1>6, <3>1, PieceGrows
    <3> QED
      BY <2>3, <3>3, <3>4 DEF Absorbs
  <2>6. ASSUME r.sha \in Wide(Elements) PROVE s.sha \in Wide(Elements)
    BY <1>6, <2>3, <2>4, <2>6, WideUpdate
  <2>7. Hashed(s)
    BY <1>2, <1>5, <2>3, <2>5, <2>6 DEF Hashed
  <2> QED
    BY <2>2, <2>7
<1> QED
  BY <1>3, <1>8

\* A step that begins, ends or continues an operation and hashes nothing.
LEMMA OtherHashes ==
  ASSUME OpInv, HashInv, NEW d \in Clients, Operate(d), ~OpenFile(d), ~HashBlock(d)
  PROVE  \/ UNCHANGED run
         \/ \E s : run' = [run EXCEPT ![d] = s] /\ Hashed(s)
<1> DEFINE Goal == UNCHANGED run \/ \E s : run' = [run EXCEPT ![d] = s] /\ Hashed(s)
<1>1. ASSUME NEW r, NEW a, NEW s, Send(d, r, a, s), DOMAIN s = Fields, Hashed(s)
      PROVE  Goal
  <2>1. PICK n : n = started'
    OBVIOUS
  <2>2. PICK t : t = [s EXCEPT !.job = n]
    OBVIOUS
  <2>3. Hashed(t)
    BY <1>1, <2>2, HashedNumber
  <2>4. run' = [run EXCEPT ![d] = t]
    BY <1>1, <2>1, <2>2 DEF Send
  <2> QED
    BY <2>3, <2>4
<1>2. ASSUME NEW s, Becomes(d, s), Hashed(s) PROVE Goal
  BY <1>2 DEF Becomes
<1> HIDE DEF Goal
<1>3. ASSUME NEW r, NEW how
      PROVE  DOMAIN Returned(r, how) = Fields /\ Hashed(Returned(r, how))
  <2>1. PICK s : s = Returned(r, how)
    OBVIOUS
  <2>2. DOMAIN s = Fields /\ s.stage = "idle"
    BY <2>1, ReturnedIs
  <2> QED
    BY <2>1, <2>2 DEF Hashed
<1>4. ASSUME NEW s, Aside(s) PROVE Hashed(s)
  BY <1>4 DEF Aside, Hashed
<1>5. ASSUME NEW how, Return(d, how) PROVE Goal
  BY <1>2, <1>3, <1>5 DEF Return
<1>6. DOMAIN run[d] = Fields /\ Hashed(run[d])
  BY DEF OpInv, RunInv, RunOk, Typed, HashInv
<1>7. ASSUME NEW stage \in {"request", "put", "sent", "removed"}, NEW s,
             s = [run[d] EXCEPT !.stage = stage]
      PROVE  DOMAIN s = Fields /\ Hashed(s)
  <2>1. DOMAIN s = Fields /\ s.stage = stage
    BY <1>6, <1>7 DEF Fields, Free
  <2> QED
    BY <1>4, <1>7, <2>1 DEF Aside
<1>8. ASSUME NEW e, Becomes(d, AfterTest(run[d], e)), run[d].stage \in {"test", "respond"}
      PROVE  Goal
  <2>1. PICK s : s = [run[d] EXCEPT !.dda = e, !.test = 0]
    OBVIOUS
  <2>2. /\ DOMAIN s = Fields
        /\ s.offset = 0
    <3>1. DOMAIN s = Fields /\ s.offset = run[d].offset
      BY <1>6, <2>1 DEF Fields, Free
    <3> QED
      BY <1>6, <1>8, <3>1 DEF Hashed
  <2>3. PICK x : x = AfterTest(run[d], e)
    OBVIOUS
  <2>4. \/ x = Returned(s, "ok")
        \/ x = [s EXCEPT !.stage = "open"]
        \/ x = [s EXCEPT !.stage = "request"]
    BY <2>1, <2>3 DEF AfterTest
  <2>5. Hashed(x)
    <3>1. x = Returned(s, "ok") => Hashed(x)
      BY <1>3
    <3>2. \A stage \in {"open", "request"} :
            x = [s EXCEPT !.stage = stage] =>
              x.stage = stage /\ x.offset = 0
      BY <2>2 DEF Fields, Free
    <3>3. x.stage \in {"open", "request"} /\ x.offset = 0 => Hashed(x)
      BY DEF Hashed
    <3> QED
      BY <2>4, <3>1, <3>2, <3>3
  <2> QED
    BY <1>2, <1>8, <2>3, <2>5
<1>9. CASE AnswerTest(d)
  <2>1. PICK r, a, n : Send(d, r, a, [run[d] EXCEPT !.stage = "respond", !.test = n])
    BY <1>9 DEF AnswerTest
  <2>2. run[d].stage = "test"
    BY <1>9 DEF AnswerTest, Stage
  <2>3. PICK s : s = [run[d] EXCEPT !.stage = "respond", !.test = n]
    OBVIOUS
  <2>4. DOMAIN s = Fields /\ s.stage = "respond" /\ s.offset = run[d].offset
    BY <1>6, <2>3 DEF Fields, Free
  <2>5. Hashed(s)
    BY <1>6, <2>2, <2>4 DEF Hashed
  <2>6. Send(d, r, a, s)
    BY ONLY <2>1, <2>3
  <2> QED
    BY <1>1, <2>4, <2>5, <2>6 DEF Goal
<1>10. CASE TestCompleted(d) \/ TestFailed(d)
  <2>1. run[d].stage \in {"test", "respond"} /\ \E e : Becomes(d, AfterTest(run[d], e))
    BY <1>10 DEF TestCompleted, TestFailed, Stage
  <2> QED
    BY <1>8, <2>1 DEF Goal
<1>11. CASE OpenFails(d) \/ RemoveEnds(d) \/ RemoveGivesUp(d) \/ GetWithoutDisk(d)
  <2>1. \E how : Return(d, how)
    BY <1>11 DEF OpenFails, RemoveEnds, RemoveGivesUp, GetWithoutDisk
  <2> QED
    BY <1>5, <2>1 DEF Goal
<1>12. CASE PutFromDisk(d) \/ PutFallback(d)
  <2>1. \/ \E how : Return(d, how)
        \/ \E from, r, a : \E stage \in {"request", "put", "sent", "removed"} :
             Send(d, r, a, [run[d] EXCEPT !.stage = stage])
    BY <1>12 DEF PutFromDisk, PutFallback, Put
  <2>2. ASSUME NEW r, NEW a, NEW stage \in {"request", "put", "sent", "removed"},
               Send(d, r, a, [run[d] EXCEPT !.stage = stage])
        PROVE  Goal
    <3>1. PICK s : s = [run[d] EXCEPT !.stage = stage]
      OBVIOUS
    <3>2. DOMAIN s = Fields /\ Hashed(s)
      BY <1>7, <2>2, <3>1
    <3> QED
      BY <1>1, <2>2, <3>1, <3>2
  <2> QED
    BY <1>5, <2>1, <2>2 DEF Goal
<1>13. CASE PutFromDiskEnds(d) \/ PutEnds(d)
  <2>1. \E how : Becomes(d, Returned(run[d], how))
    BY <1>13 DEF PutFromDiskEnds, PutEnds
  <2> QED
    BY <1>2, <1>3, <2>1 DEF Goal
<1>14. CASE GetToDisk(d)
  <2>1. \E r, a : Send(d, r, a, Returned(run[d], "ticket"))
    BY <1>14 DEF GetToDisk
  <2> QED
    BY <1>1, <1>3, <2>1 DEF Goal
<1>15. CASE UndefinedCrashes(d)
  BY <1>15 DEF UndefinedCrashes, opVars, Goal
<1>16. CASE RemoveConfirmed(d)
  <2>1. PICK s : s = [run[d] EXCEPT !.stage = "removed"]
    OBVIOUS
  <2>2. Becomes(d, s)
    BY <1>16, <2>1 DEF RemoveConfirmed
  <2> QED
    BY <1>2, <1>7, <2>1, <2>2 DEF Goal
<1>17. CASE NoteEnds(d)
  <2>1. PICK how, v : Becomes(d, [Returned(run[d], how) EXCEPT !.value = v])
    BY <1>17 DEF NoteEnds
  <2>2. PICK q : q = Returned(run[d], how)
    OBVIOUS
  <2>3. PICK s : s = [q EXCEPT !.value = v]
    OBVIOUS
  <2>4. DOMAIN q = Fields /\ q.stage = "idle"
    BY <2>2, ReturnedIs
  <2>5. s.stage = "idle"
    BY <2>3, <2>4 DEF Fields, Free
  <2>6. Hashed(s)
    BY <2>5 DEF Hashed
  <2> QED
    BY <1>2, <2>1, <2>2, <2>3, <2>6 DEF Goal
<1>18. ASSUME NEW o \in Operations[d],
              \/ StartTest(d, o) \/ StartPut(d, o) \/ StartGet(d, o) \/ GetThrows(d, o)
              \/ Modify(d, o) \/ Remove(d, o) \/ StartNote(d, o)
       PROVE  Goal
  <2>1. PICK f : f = Started(d, o)
    OBVIOUS
  <2>2. DOMAIN f = Fields /\ f.offset = 0
    BY <2>1 DEF Started, Fields, Free
  <2>3. ASSUME NEW stage \in {"test", "sent", "remove", "note"}, NEW n, NEW s,
               \/ s = [f EXCEPT !.stage = stage] \/ s = [f EXCEPT !.stage = stage, !.test = n]
        PROVE  DOMAIN s = Fields /\ Hashed(s)
    <3>1. DOMAIN s = Fields /\ s.stage = stage /\ s.offset = 0
      BY <2>2, <2>3 DEF Fields, Free
    <3> QED
      BY <3>1 DEF Hashed
  <2>4. ASSUME NEW r, NEW a, NEW stage \in {"test", "sent", "remove", "note"}, NEW n, NEW s,
               Send(d, r, a, s),
               \/ s = [f EXCEPT !.stage = stage] \/ s = [f EXCEPT !.stage = stage, !.test = n]
        PROVE  Goal
    BY <1>1, <2>3, <2>4
  <2>5. CASE StartTest(d, o) \/ Remove(d, o) \/ StartNote(d, o)
    BY <2>1, <2>4, <2>5 DEF StartTest, Remove, StartNote
  <2>6. CASE StartPut(d, o)
    <3>1. \/ \E how : Becomes(d, Returned(f, how))
          \/ \E r, a : Send(d, r, a, [f EXCEPT !.stage = "sent"])
      BY <2>1, <2>6 DEF StartPut, Put
    <3> QED
      BY <1>2, <1>3, <2>4, <3>1
  <2>7. CASE StartGet(d, o) \/ Modify(d, o)
    <3>1. \E r, a, how : Send(d, r, a, Returned(f, how))
      BY <2>1, <2>7 DEF StartGet, Get, Modify
    <3> QED
      BY <1>1, <1>3, <3>1
  <2>8. CASE GetThrows(d, o)
    <3>1. Becomes(d, Returned(f, "invalid_argument"))
      BY <2>1, <2>8 DEF GetThrows
    <3> QED
      BY <1>2, <1>3, <3>1
  <2> QED
    BY <1>18, <2>5, <2>6, <2>7, <2>8
<1> QED
  BY <1>9, <1>10, <1>11, <1>12, <1>13, <1>14, <1>15, <1>16, <1>17, <1>18 DEF Operate, Goal

\* Every step keeps what has been hashed.
LEMMA HashSteps ==
  ASSUME OpInv, HashInv, [OpNext]_allVars
  PROVE  HashInv'
<1>1. ASSUME UNCHANGED run PROVE HashInv'
  BY <1>1 DEF HashInv, Hashed, Absorbs
<1>2. ASSUME NEW d \in Clients, NEW s, run' = [run EXCEPT ![d] = s], Hashed(s) PROVE HashInv'
  <2> SUFFICES ASSUME NEW c \in Clients PROVE Hashed(run'[c])
    BY DEF HashInv, Hashed, Absorbs
  <2>1. run'[c] = IF c = d THEN s ELSE run[c]
    BY <1>2 DEF OpInv, RunInv
  <2> QED
    BY <1>2, <2>1 DEF HashInv
<1>3. ASSUME NEW d \in Clients, Operate(d) PROVE HashInv'
  BY <1>1, <1>2, <1>3, OpenHashes, BlockHashes, OtherHashes
<1>4. CASE \E j \in 0 .. MaxJobs : Answer(j)
  BY <1>1, <1>4 DEF Answer
<1>5. CASE Underneath /\ UNCHANGED opVars
  BY <1>1, <1>5 DEF opVars
<1>6. CASE UNCHANGED allVars
  BY <1>1, <1>6 DEF allVars, opVars
<1> QED
  BY <1>3, <1>4, <1>5, <1>6 DEF OpNext

\* In a build with words of four bytes, however reads and blocks fall, putDisk's
\* loop has at every round the SHA-256 of the salt and of what was read of the
\* file, with the padding that the digest of a message of their length has.
THEOREM HashesTheFile == OpSpec => []HashIsOfFile
<1>1. OpInit => HashInv
  <2> SUFFICES ASSUME OpInit, NEW c \in Clients PROVE Hashed(run[c])
    BY DEF HashInv
  <2>1. run[c] = Free
    BY DEF OpInit
  <2>2. Free.stage = "idle"
    BY DEF Free
  <2> QED
    BY <2>1, <2>2 DEF Hashed
<1>2. OpInv /\ HashInv /\ [OpNext]_allVars => HashInv'
  BY HashSteps
<1>3. HashInv => HashIsOfFile
  <2> SUFFICES ASSUME HashInv, NEW c \in Clients, run[c].stage = "hash", run[c].sha.word = 4
               PROVE  SHA256_final(run[c].sha).H =
                        Digested(Piece("salt", 1, run[c].salt) \o Piece("file", 1, run[c].offset))
    BY DEF HashIsOfFile
  <2>1. Absorbs(run[c])
    BY DEF HashInv, Hashed, Wide, WideContext
  <2> QED
    BY <2>1, HashIsDigested DEF Absorbs
<1> QED
  BY <1>1, <1>2, <1>3, OperationsInvariant, PTL DEF OpSpec

-----------------------------------------------------------------------------
(* What the manager ends of under the operations.                           *)

\* What is on the connection, as long as the program has not crashed.
HeardAlive == mgr # "crashed" => HeardInv

\* The operations, too, leave on it what the manager can take.
LEMMA HeardOperates ==
  ASSUME UpdatesFit, OpInv, HeardAlive, [OpNext]_allVars
  PROVE  HeardAlive'
<1>1. ASSUME UNCHANGED <<mgr, clashed, inbox, script>> PROVE HeardAlive'
  BY <1>1 DEF HeardAlive, HeardInv
<1>2. ASSUME NEW c \in Clients, Operate(c) PROVE HeardAlive'
  <2>1. ASSUME NEW r, NEW a, NEW s, Send(c, r, a, s) PROVE HeardAlive'
    BY <1>1, <2>1 DEF Send, Call, manager, node
  <2>2. ASSUME NEW s, Becomes(c, s) PROVE HeardAlive'
    BY <1>1, <2>2 DEF Becomes, lifeVars, vars, manager, node
  <2>3. CASE UndefinedCrashes(c)
    BY <2>3 DEF UndefinedCrashes, HeardAlive
  <2> QED
    BY <1>2, <2>1, <2>2, <2>3, OwnStep
<1>3. ASSUME NEW j \in 0 .. MaxJobs, Answer(j) PROVE HeardAlive'
  <2> SUFFICES ASSUME mgr' # "crashed" PROVE HeardInv'
    BY DEF HeardAlive
  <2>1. NodeAnswers(j) /\ mgr # "crashed"
    BY <1>3 DEF Answer, NodeAnswers, manager
  <2>2. RInv /\ HeardInv
    BY <2>1 DEF HeardAlive, OpInv, AliveInv, BaseInv
  <2>3. [Next]_vars
    BY <2>1 DEF Next
  <2> QED
    BY <2>2, <2>3, HeardStep
<1>4. CASE Underneath
  <2>1. /\ mgr # "crashed"
        /\ [LifeNext]_lifeVars \/ \E c \in Clients : PutLockedOut(c) /\ UNCHANGED life
    BY <1>4, UnderneathMoves
  <2>2. RInv /\ HeardInv
    BY <2>1 DEF HeardAlive, OpInv, AliveInv, BaseInv
  <2>3. CASE [LifeNext]_lifeVars
    BY <2>2, <2>3, HeardLives DEF HeardAlive
  <2>4. CASE \E c \in Clients : PutLockedOut(c) /\ UNCHANGED life
    BY <1>1, <2>4 DEF PutLockedOut, manager, node
  <2> QED
    BY <2>1, <2>3, <2>4
<1>5. CASE UNCHANGED allVars
  BY <1>1, <1>5 DEF allVars, lifeVars, vars, manager, node
<1> QED
  BY <1>2, <1>3, <1>4, <1>5 DEF OpNext

\* While no key has clashed, the manager ends because it was interrupted, could
\* not connect, or lost the connection; or with the program, when getDisk has
\* come to the end of its function without a return, or when putDisk has hashed a
\* block in a build with words of eight bytes.
EndsForCauseOperated ==
  [][clashed = {} /\ Managing /\ ~Managing' =>
       \/ pending # "no" \/ object = "none" \/ "socket" \in Faults
       \/ \E c \in Clients : Undefined(c)]_allVars

\* No operation, and none of the answers to its requests, makes the manager
\* stop, as long as no key has clashed; but for the getDisk that returns nothing
\* and the putDisk whose hash overruns its context.
THEOREM OperationsSpareManager ==
  ASSUME UpdatesFit
  PROVE  OpSpec => EndsForCauseOperated
<1>1. OpInit => HeardAlive
  <2> SUFFICES ASSUME OpInit PROVE HeardInv
    BY DEF HeardAlive
  <2>1. script[0] = GlobalUpdates /\ inbox = <<>>
    BY NodeThreadAssumption DEF OpInit, LifeInit, Init
  <2> QED
    BY <2>1 DEF HeardInv
<1>2. OpInv /\ HeardAlive /\ [OpNext]_allVars => HeardAlive'
  BY HeardOperates
<1>3. OpInv /\ HeardAlive /\ [OpNext]_allVars
      => [clashed = {} /\ Managing /\ ~Managing' =>
            \/ pending # "no" \/ object = "none" \/ "socket" \in Faults
            \/ \E c \in Clients : Undefined(c)]_allVars
  <2> SUFFICES ASSUME OpInv, HeardAlive, OpNext, clashed = {}, Managing, ~Managing'
               PROVE  \/ pending # "no" \/ object = "none" \/ "socket" \in Faults
                      \/ \E c \in Clients : Undefined(c)
    BY DEF allVars, lifeVars, vars, manager, Managing
  <2>0. RInv /\ HeardInv
    BY DEF HeardAlive, OpInv, AliveInv, BaseInv, Managing
  <2>1. mgr' # mgr
    BY DEF Managing
  <2>2. ASSUME NEW c \in Clients, Operate(c) PROVE Undefined(c)
    <3>1. UndefinedCrashes(c)
      BY <2>1, <2>2, OwnStep DEF Send, Call, Becomes, lifeVars, vars, manager
    <3> QED
      BY <3>1 DEF UndefinedCrashes
  <2>3. ~ \E j \in 0 .. MaxJobs : Answer(j)
    BY <2>1 DEF Answer, NodeAnswers, manager
  <2>4. CASE Underneath
    <3>1. [LifeNext]_lifeVars
      BY <2>1, <2>4, UnderneathMoves DEF PutLockedOut, manager
    <3> QED
      BY <2>0, <3>1, CauseOfEnd
  <2> QED
    BY <2>2, <2>3, <2>4 DEF OpNext
<1> QED
  BY <1>1, <1>2, <1>3, OperationsInvariant, PTL DEF OpSpec, EndsForCauseOperated

-----------------------------------------------------------------------------
(* Routing and tickets under the operations.                                *)

\* Requests of different operations do not get each other's messages: routing
\* is exact, and a wait that succeeds has brought the whole answer to its own
\* request, as long as the program has not crashed.
THEOREM OperationsAreRouted ==
  OpSpec => [](ExactReplies /\ (mgr # "crashed" => OwnAnswer))
<1>1. OpInv => ExactReplies /\ (mgr # "crashed" => OwnAnswer)
  <2>1. OpInv /\ mgr # "crashed" => RInv
    BY DEF OpInv, AliveInv, BaseInv
  <2>2. mgr = "crashed" => ExactReplies
    BY DEF ExactReplies, Managing
  <2> QED
    BY <2>1, <2>2, RoutedExactly, AnsweredInFull
<1> QED
  BY <1>1, OperationsInvariant, PTL

\* A step of an operation, or of the client under it that NodeThread does not
\* know, is none of the abstract ticket's.
LEMMA TicketRests ==
  ASSUME ClientInv, NEW j \in Jobs,
         \E c \in Clients : PutLockedOut(c) \/ \E r : Call(c, r)
  PROVE  UNCHANGED T(j)!vars
<1>1. ASSUME KnownOf(j)' = KnownOf(j), UNCHANGED <<resp[j], finished[j], view[j]>>
      PROVE  UNCHANGED T(j)!vars
  BY <1>1 DEF T!vars, LogOf
<1>2. ASSUME NEW c \in Clients, NEW r, Call(c, r) PROVE UNCHANGED T(j)!vars
  <2>1. /\ UNCHANGED <<resp, finished, outcome, view>> /\ cpc[c] = "idle"
        /\ \/ UNCHANGED <<cpc, cur>>
           \/ /\ cpc' = [cpc EXCEPT ![c] = "wait"]
              /\ cur' = [cur EXCEPT ![c] = started']
    BY <1>2 DEF Call
  <2>2. \A d \in Clients : (cur'[d] = j /\ cpc'[d] = "read") <=> (cur[d] = j /\ cpc[d] = "read")
    BY <2>1 DEF ClientInv
  <2> QED
    BY <1>1, <2>1, <2>2, KnownKept
<1>3. ASSUME NEW c \in Clients, PutLockedOut(c) PROVE UNCHANGED T(j)!vars
  <2>1. UNCHANGED <<resp, finished, view>> /\ cpc[c] = "wait"
    BY <1>3 DEF PutLockedOut, LockedOut, ticket
  <2>2. PICK how \in {"timeout", "failure"} : End(c, how)
    BY <1>3 DEF PutLockedOut
  <2>3. /\ cpc' = [cpc EXCEPT ![c] = "idle"] /\ cur' = [cur EXCEPT ![c] = 0]
        /\ outcome' = [outcome EXCEPT ![cur[c]] = how]
    BY <2>2 DEF End
  <2>4. \A d \in Clients : (cur'[d] = j /\ cpc'[d] = "read") <=> (cur[d] = j /\ cpc[d] = "read")
    BY <2>1, <2>3 DEF ClientInv
  <2>5. CASE cur[c] # j
    <3>1. outcome'[j] = outcome[j]
      BY <2>3, <2>5 DEF ClientInv
    <3> QED
      BY <1>1, <2>1, <2>4, <3>1, KnownKept
  <2>6. CASE cur[c] = j
    <3>1. outcome[j] = "none" /\ outcome'[j] = how
      BY <2>3, <2>6 DEF ClientInv, Jobs
    <3>2. \A d \in Clients : ~(cur[d] = j /\ cpc[d] = "read")
      BY <2>1, <2>6 DEF ClientInv, Jobs
    <3>3. KnownOf(j) = {} /\ KnownOf(j)' = {}
      BY <2>4, <3>1, <3>2 DEF KnownOf
    <3> QED
      BY <1>1, <2>1, <3>3
  <2> QED
    BY <2>5, <2>6
<1> QED
  BY <1>2, <1>3

\* TicketsImplemented, for the steps of the operations.
TicketsOperated ==
  /\ \A j \in Jobs : T(j)!Init
  /\ [][\A j \in Jobs : [T(j)!Next]_(T(j)!vars)]_allVars

\* Every ticket keeps the promises of Ticket.tla to the operation that waits
\* for it, whatever interrupts the manager or ends the program.
THEOREM OperationsKeepTickets == OpSpec => TicketsOperated
<1>1. OpInit => \A j \in Jobs : T(j)!Init
  BY TicketsInit DEF OpInit, LifeInit
<1>2. OpInv /\ [OpNext]_allVars => [\A j \in Jobs : [T(j)!Next]_(T(j)!vars)]_allVars
  <2> SUFFICES ASSUME OpInv, OpNext, NEW j \in Jobs PROVE [T(j)!Next]_(T(j)!vars)
    OBVIOUS
  <2>1. ASSUME UNCHANGED <<resp, finished, client>> PROVE UNCHANGED T(j)!vars
    <3>1. KnownOf(j)' = KnownOf(j) /\ view' = view
      BY <2>1, KnownKept DEF client
    <3> QED
      BY <2>1, <3>1 DEF T!vars, LogOf
  <2>2. mgr # "crashed" => IInv /\ ClientInv
    BY DEF OpInv, AliveInv, BaseInv, RInv, IInv
  <2>3. ASSUME NEW c \in Clients, Operate(c) PROVE UNCHANGED T(j)!vars
    <3>1. ASSUME NEW r, NEW a, NEW s, Send(c, r, a, s) PROVE UNCHANGED T(j)!vars
      <4>1. Call(c, r) /\ mgr # "crashed"
        BY <3>1 DEF Send, Call
      <4> QED
        BY <2>2, <4>1, TicketRests
    <3>2. ASSUME NEW s, Becomes(c, s) PROVE UNCHANGED T(j)!vars
      BY <2>1, <3>2 DEF Becomes, lifeVars, vars, ticket
    <3>3. CASE UndefinedCrashes(c)
      BY <2>1, <3>3 DEF UndefinedCrashes, ticket
    <3> QED
      BY <2>3, <3>1, <3>2, <3>3, OwnStep
  <2>4. ASSUME NEW i \in 0 .. MaxJobs, Answer(i) PROVE UNCHANGED T(j)!vars
    BY <2>1, <2>4 DEF Answer, NodeAnswers, ticket
  <2>5. CASE Underneath
    <3>1. /\ mgr # "crashed"
          /\ [LifeNext]_lifeVars \/ \E c \in Clients : PutLockedOut(c) /\ UNCHANGED life
      BY <2>5, UnderneathMoves
    <3>2. CASE [LifeNext]_lifeVars
      <4>1. [Next]_vars \/ UNCHANGED <<resp, finished, client>>
        BY <3>2, LifeMoves DEF ticket
      <4> QED
        BY <2>1, <2>2, <3>1, <4>1, TicketsStep
    <3>3. CASE \E c \in Clients : PutLockedOut(c) /\ UNCHANGED life
      BY <2>2, <3>1, <3>3, TicketRests
    <3> QED
      BY <3>1, <3>2, <3>3
  <2> QED
    BY <2>3, <2>4, <2>5 DEF OpNext
<1> QED
  BY <1>1, <1>2, OperationsInvariant, PTL DEF OpSpec, TicketsOperated

================================================================================
