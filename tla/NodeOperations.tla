---------------------------- MODULE NodeOperations -----------------------------
(***************************************************************************)
(* The operations of src/Node.cpp that are more than one request and its   *)
(* answer, or that read their answer: testDDA, putDisk with its hash and   *)
(* its fallback, getDisk, the other puts and gets with the checks of their *)
(* fields, the peer notes, and the removal of a persistent request.  They  *)
(* run on the Node of NodeLife.tla, so that the manager may be interrupted *)
(* under them, and their requests may cross in the map of NodeThread.tla.  *)
(*                                                                         *)
(* In a test of direct disk access (DDA) the node names files in a         *)
(* directory; the client tells what it reads in one and writes another,    *)
(* and the node judges.  A test, its files and what is in them are known   *)
(* by the number of its TestDDARequest.                                    *)
(***************************************************************************)
EXTENDS NodeLife, Base64, Sha256

CONSTANTS
  Operations,   \* the operations each client may start
  MaxCalls,     \* bound: operations a client starts
  Shared,       \* the directories that client and node see the same files in
  UniqueIds,    \* what _getUniqueId returns: the same within a second
  ReadBytes,    \* the block in which putDisk reads a file (1024)
  SaltBytes,    \* the lengths of the salt: the node's ConnectionIdentifier,
                \* and the identifier of the put
  InitialNotes  \* the texts of the peer's note before a client sets it

\* The operations that put, and those that get.
Puts == {"putDisk", "putData", "putRedirect"}
Gets == {"getDisk", "fetchData", "getDirect"}

\* The identifier of a put or a get: the caller's or, if that gives none, a new one.
Identifiers(id) == IF id = "" THEN UniqueIds ELSE {id}

\* The requests that the operations make are among those of the clients.
ASSUME OperationsAssumption ==
  /\ MaxCalls \in Nat /\ ReadBytes \in Nat \ {0} /\ SaltBytes \subseteq Nat
  /\ InitialNotes \subseteq Seq(0 .. 127)
  /\ {TestDDARequest, TestDDAResponse, ListPeerNotes, ModifyPeerNote,
      RemovePersistentRequest, ModifyPersistentRequest} \subseteq Requests
  /\ \A c \in Clients : \A o \in Operations[c] :
       /\ o.name \in Puts \cup Gets => o.persistent \in BOOLEAN
       /\ o.name \in Puts =>
            \A id \in Identifiers(o.id), p \in Persistences : ClientPut(id, p) \in Requests
       /\ o.name \in Gets =>
            \A id \in Identifiers(o.id), p \in Persistences :
              {GetDisk(id, p), FetchData(id, p)} \cup GetDirect(id, p) \subseteq Requests
       /\ o.name = "modifyPeerNote" => o.note \in Seq(Byte)

VARIABLES
  run,     \* each client's operation, see Free below
  arg,     \* the fields of each request
  answer,  \* the fields of the node's answer to it
  files,   \* what there is of each test's file to write: "none", "written" by a
           \* client, or "left" when a client could not remove it
  note,    \* the text of the peer's note, at the node
  taken    \* the tickets whose reqSentLock removePersistentRequest has taken

opVars == <<run, arg, answer, files, note, taken>>
allVars == <<lifeVars, opVars>>

\* dir and content of a DDA test, read and write asked for; from, by which a
\* put or get takes its data, and hash, for a FileHash; text of a note.
NoArg == [dir |-> "none", read |-> FALSE, write |-> FALSE, content |-> 0,
          from |-> "none", hash |-> FALSE, text |-> <<>>]
NoAnswer == [read |-> FALSE, write |-> FALSE, text |-> <<>>]

\* The local variables of an operation: where it stands; its last request; the
\* test whose file it has to remove; the result of testDDA; the hash (made when
\* the file is opened), the length of its salt, and how much of the file it has
\* read; and how the operation ended, with the note it returned.
Free ==
  [op |-> [name |-> "none"], stage |-> "idle", job |-> 0, test |-> 0,
   dda |-> [read |-> FALSE, write |-> FALSE], sha |-> SHA256_init(4), salt |-> 0, offset |-> 0,
   how |-> "none", value |-> <<>>, calls |-> 0]

OpInit ==
  /\ LifeInit
  /\ run = [c \in Clients |-> Free]
  /\ arg = [j \in 0 .. MaxJobs |-> NoArg]
  /\ answer = [j \in 0 .. MaxJobs |-> NoAnswer]
  /\ files = [j \in 0 .. MaxJobs |-> "none"]
  /\ note \in InitialNotes
  /\ taken = {}

-----------------------------------------------------------------------------
(* Steps that the operations share.                                         *)

\* A client may start operation o.
Starts(c, o) ==
  /\ run[c].stage = "idle" /\ run[c].calls < MaxCalls
  /\ Usable(c) /\ mgr # "crashed" /\ cpc[c] = "idle"
  /\ o \in Operations[c]

Started(c, o) == [Free EXCEPT !.op = o, !.calls = run[c].calls + 1]

\* Its last request is over, and it goes on.
Stage(c, s) == run[c].stage = s /\ cpc[c] = "idle" /\ mgr # "crashed"
Result(c) == outcome[run[c].job]
Front(c) == view[run[c].job][1]

\* The request of a state of the operation, and its wait.
Send(c, r, a, state) ==
  /\ Call(c, r)
  /\ arg' = [arg EXCEPT ![started'] = a]
  /\ run' = [run EXCEPT ![c] = [state EXCEPT !.job = started']]
  /\ UNCHANGED <<life, answer, note, taken>>

\* A step without a request.
Becomes(c, state) ==
  /\ run' = [run EXCEPT ![c] = state]
  /\ UNCHANGED <<lifeVars, arg, answer, note>>

Returned(state, how) ==
  [Free EXCEPT !.op = state.op, !.job = state.job, !.dda = state.dda,
               !.how = how, !.calls = state.calls]

Return(c, how) == Becomes(c, Returned(run[c], how)) /\ UNCHANGED <<files, taken>>

-----------------------------------------------------------------------------
(* testDDA.                                                                 *)

ReadsDir(o) == o.name = "putDisk" \/ (o.name = "testDDA" /\ o.read)
WritesDir(o) == o.name = "getDisk" \/ (o.name = "testDDA" /\ o.write)

\* What the gets take for Global, and their check.
GetGlobal(o) == o.global = "true"
GetRefused(o) == GetGlobal(o) /\ ~o.persistent

\* testDDARequest.
StartTest(c, o) ==
  /\ Starts(c, o)
  /\ ReadsDir(o) \/ WritesDir(o)
  /\ o.name = "getDisk" => ~GetRefused(o)
  /\ Send(c, TestDDARequest,
          [NoArg EXCEPT !.dir = o.dir, !.read = ReadsDir(o), !.write = WritesDir(o)],
          [Started(c, o) EXCEPT !.stage = "test"])
  /\ UNCHANGED files

\* The message at the front of the response names a file to read, or to write;
\* without the field the getter throws.
Names(m, field) == m.h = "TestDDAReply" /\ arg[m.re][field]

ReplyUsable(c) ==
  /\ Result(c) = "ok"
  /\ ReadsDir(run[c].op) => Names(Front(c), "read")
  /\ WritesDir(run[c].op) => Names(Front(c), "write")

\* The client reads the one file and writes the other, and sends
\* testDDAResponse.  A file may not open; nor is it sure to be looked for by
\* its name, as TestDDAReplyResponse::getField returns a reference to a dead
\* local.
AnswerTest(c) ==
  /\ Stage(c, "test")
  /\ ReplyUsable(c)
  /\ \E opened \in BOOLEAN :
       LET o == run[c].op
           t == Front(c).re
           seen == opened /\ ReadsDir(o) /\ arg[t].dir \in Shared
       IN  /\ Send(c, TestDDAResponse,
                   [NoArg EXCEPT !.dir = o.dir, !.content = IF seen THEN t ELSE 0],
                   [run[c] EXCEPT !.stage = "respond", !.test = IF WritesDir(o) THEN t ELSE 0])
           /\ files' = IF opened /\ WritesDir(o) THEN [files EXCEPT ![t] = "written"] ELSE files

\* A mutant of Denied: what was asked for is granted.
DeniedNothing == [read |-> TRUE, write |-> TRUE]

\* TestDDAResponse(dir, false, false).
Denied == [read |-> FALSE, write |-> FALSE]

\* What the operation does with the result r of testDDA.
AfterTest(state, r) ==
  LET s == [state EXCEPT !.dda = r, !.test = 0]
  IN  IF s.op.name = "testDDA" THEN Returned(s, "ok")
      ELSE IF s.op.name = "putDisk" /\ ~r.read /\ ~s.op.hash
           THEN [s EXCEPT !.stage = "open"]
           ELSE [s EXCEPT !.stage = "request"]

\* A mutant of RemoveFile: only when testDDAResponse has succeeded.
RemoveFileOnSuccess(c) ==
  files' = IF Result(c) = "ok" THEN [files EXCEPT ![run[c].test] = "none"] ELSE files

\* remove(filePath), after the response and in the handlers' common end.  A
\* remove that fails is logged, and the file stays.
RemoveFile(c) ==
  \E after \in {"none", "left"} :
    files' = [files EXCEPT ![run[c].test] = IF @ = "none" THEN @ ELSE after]

\* testDDAResponse returns, with what the node allows.
TestCompleted(c) ==
  /\ Stage(c, "respond")
  /\ Result(c) = "ok"
  /\ LET m == Front(c)
         allowed(f) == m.h = "TestDDAComplete" /\ answer[m.re][f]
     IN  Becomes(c, AfterTest(run[c], [read |-> allowed("read"), write |-> allowed("write")]))
  /\ RemoveFile(c)
  /\ UNCHANGED taken

\* Any exception is logged, and nothing is allowed: of a request, of a getter
\* without its field, or of a string made from the dead local.
TestFailed(c) ==
  /\ \/ Stage(c, "test")
     \/ Stage(c, "respond") /\ Result(c) # "ok"
  /\ Becomes(c, AfterTest(run[c], Denied))
  /\ RemoveFile(c)
  /\ UNCHANGED taken

-----------------------------------------------------------------------------
(* putDisk.                                                                 *)

\* A piece of the salt, or of the file: its bytes are told apart by place.
Piece(what, from, to) == [i \in 1 .. to - from + 1 |-> <<what, from + i - 1>>]

\* "try hash": the file is opened, and the salt goes into the hash.
OpenFile(c) ==
  /\ Stage(c, "open")
  /\ \E word \in WordSizes, n \in SaltBytes :
       Becomes(c, [run[c] EXCEPT !.stage = "hash", !.salt = n,
                                 !.sha = SHA256_update(SHA256_init(word), Piece("salt", 1, n))])
  /\ UNCHANGED <<files, taken>>

OpenFails(c) ==
  /\ Stage(c, "open")
  /\ Return(c, "FileError")

\* A round of the loop.  A read that meets the end of the file leaves the
\* stream in the state fail, so the last one always throws: of a short block,
\* or of none at all.  The end of the loop and the use of the hash behind it
\* are never reached.  The exception leaves a stack that a block may have
\* overrun by then.
HashBlock(c) ==
  /\ Stage(c, "hash")
  /\ LET upto == run[c].offset + ReadBytes
     IN  IF upto > run[c].op.length
         THEN Return(c, IF Overruns(run[c].sha) THEN "undefined" ELSE "FileError")
         ELSE /\ Becomes(c, [run[c] EXCEPT
                               !.sha = SHA256_update(@, Piece("file", run[c].offset + 1, upto)),
                               !.offset = upto])
              /\ UNCHANGED <<files, taken>>

\* What a put makes of its fields before it has a ticket: an exception, or
\* nothing.  lexical_cast<bool> knows "0" and "1" only, and "false" is what the
\* put has filled in for a Global that was not given.
PutRefusal(c, o) ==
  IF o.name = "putDisk" /\ ~run[c].dda.read /\ ~o.hash THEN "invalid_argument"
  ELSE IF o.global \notin {"0", "1"} THEN "bad_lexical_cast"
  ELSE IF o.global = "1" /\ ~o.persistent THEN "invalid_argument"
  ELSE "none"

\* The ClientPut of an operation.
Put(c, o, from, state) ==
  \E id \in Identifiers(o.id) :
    Send(c, ClientPut(id, [global |-> o.global = "1", persistent |-> o.persistent]),
         [NoArg EXCEPT !.dir = o.dir, !.from = from,
                       !.hash = from = "disk" /\ ~run[c].dda.read],
         state)

\* The put from disk, or what its fields make it throw.
PutFromDisk(c) ==
  /\ Stage(c, "request")
  /\ run[c].op.name = "putDisk"
  /\ IF PutRefusal(c, run[c].op) # "none"
     THEN Return(c, PutRefusal(c, run[c].op))
     ELSE /\ Put(c, run[c].op, "disk", [run[c] EXCEPT !.stage = "put"])
          /\ UNCHANGED files

\* checkProtocolError looks at the last message there is by now.
LastMessage(c) == resp[run[c].job][Len(resp[run[c].job])]

\* A mutant of PutRejected: any answer counts.
PutRejectedAlways(c) == Result(c) = "ticket"

\* There is an answer, and what came of it ends with an error.
PutRejected(c) == Result(c) = "ticket" /\ IsError(LastMessage(c))

\* The put was accepted; or the wait for its first message threw.
PutFromDiskEnds(c) ==
  /\ Stage(c, "put")
  /\ ~PutRejected(c)
  /\ Becomes(c, Returned(run[c], Result(c)))
  /\ UNCHANGED <<files, taken>>

\* "error, try direct mode": putData with the same fields and identifier, if
\* the file can be opened.
PutFallback(c) ==
  /\ Stage(c, "put")
  /\ PutRejected(c)
  /\ \/ /\ Put(c, run[c].op, "direct", [run[c] EXCEPT !.stage = "sent"])
        /\ UNCHANGED files
     \/ Return(c, "FileError")

-----------------------------------------------------------------------------
(* The other puts and gets.                                                 *)

\* putData and putRedirect, and what their fields make them throw.
StartPut(c, o) ==
  /\ Starts(c, o)
  /\ o.name \in {"putData", "putRedirect"}
  /\ IF PutRefusal(c, o) # "none"
     THEN Becomes(c, Returned(Started(c, o), PutRefusal(c, o))) /\ UNCHANGED <<files, taken>>
     ELSE /\ Put(c, o, IF o.name = "putData" THEN "direct" ELSE "redirect",
                 [Started(c, o) EXCEPT !.stage = "sent"])
          /\ UNCHANGED files

\* putData and putRedirect return; so does the fallback.
PutEnds(c) ==
  /\ Stage(c, "sent")
  /\ Becomes(c, Returned(run[c], Result(c)))
  /\ UNCHANGED <<files, taken>>

\* getDirect, fetchData and getDisk refuse a global get that is not persistent;
\* getDirect also needs a stream, unless it is persistent.
GetThrows(c, o) ==
  /\ Starts(c, o)
  /\ o.name \in Gets
  /\ GetRefused(o) \/ (o.name = "getDirect" /\ ~o.stream /\ ~o.persistent)
  /\ Becomes(c, Returned(Started(c, o), "invalid_argument"))
  /\ UNCHANGED <<files, taken>>

GetPersistence(o) == [global |-> GetGlobal(o), persistent |-> o.persistent]

\* A get returns its ticket at once.
Get(c, r, o) ==
  /\ Send(c, r, [NoArg EXCEPT !.from = o.name], Returned(Started(c, o), "ticket"))
  /\ UNCHANGED files

StartGet(c, o) ==
  /\ Starts(c, o)
  /\ o.name \in {"fetchData", "getDirect"} /\ ~GetRefused(o)
  /\ \E id \in Identifiers(o.id) :
       \/ o.name = "fetchData" /\ Get(c, FetchData(id, GetPersistence(o)), o)
       \/ o.name = "getDirect" /\ \E r \in GetDirect(id, GetPersistence(o)) :
                                   r.stream = o.stream /\ Get(c, r, o)

\* getDisk with the node's permission.
GetToDisk(c) ==
  /\ Stage(c, "request")
  /\ run[c].op.name = "getDisk" /\ run[c].dda.write
  /\ \E id \in Identifiers(run[c].op.id) :
       Send(c, GetDisk(id, GetPersistence(run[c].op)),
            [NoArg EXCEPT !.dir = run[c].op.dir, !.from = "disk"],
            Returned(run[c], "ticket"))
  /\ UNCHANGED files

\* getDisk without it: a persistent get throws; any other one comes to the end
\* of the function without a return, and its caller has a ticket of nothing,
\* or the program crashes.
GetWithoutDisk(c) ==
  /\ Stage(c, "request")
  /\ run[c].op.name = "getDisk" /\ ~run[c].dda.write
  /\ Return(c, IF run[c].op.persistent THEN "TestDDAError" ELSE "undefined")

\* What the client's program does is not defined any more.
Undefined(c) ==
  \/ run[c].how = "undefined"
  \/ run[c].stage = "hash" /\ Overruns(run[c].sha)

\* It may go on, or crash.
UndefinedCrashes(c) ==
  /\ Undefined(c) /\ mgr # "crashed"
  /\ mgr' = "crashed"
  /\ UNCHANGED <<started, ticket, queue, jobs, clashed, inbox, node, client, life, opVars>>

-----------------------------------------------------------------------------
(* removePersistentRequest and modifyPersistentRequest.                     *)

\* The persistent tickets a client may hold: listPersistentJobs finds them in the
\* map, a put has returned them.
PersistentJobs ==
  {j \in Jobs : attr[j].persistent /\ (outcome[j] = "ticket" \/ \E k \in Keys : jobs[k] = j)}

\* modifyPersistentRequest queues its request and returns.
Modify(c, o) ==
  /\ Starts(c, o)
  /\ o.name = "modifyPersistentRequest"
  /\ PersistentJobs # {}
  /\ Send(c, ModifyPersistentRequest, NoArg, Returned(Started(c, o), "ok"))
  /\ UNCHANGED files

\* removePersistentRequest queues its request and waits on the ticket that is
\* to be removed.
Remove(c, o) ==
  /\ Starts(c, o)
  /\ o.name = "removePersistentRequest"
  /\ \E j \in PersistentJobs :
       Send(c, RemovePersistentRequest, NoArg,
            [Started(c, o) EXCEPT !.stage = "remove", !.test = j])
  /\ UNCHANGED files

\* reqSentLock is taken by the first wait that passes it, the put's own or this
\* one, and nobody gives it back.
Latched(j) == j \in taken \/ outcome[j] = "ticket"
Confirmed(j) == resp[j] # <<>> /\ ~Latched(j)

\* The first half of wait.
RemoveConfirmed(c) ==
  /\ Stage(c, "remove")
  /\ Confirmed(run[c].test)
  /\ Becomes(c, [run[c] EXCEPT !.stage = "removed"])
  /\ taken' = taken \cup {run[c].test}
  /\ UNCHANGED files

\* The second half: the ticket is finished.
RemoveEnds(c) ==
  /\ Stage(c, "removed")
  /\ finished[run[c].test]
  /\ Return(c, "ok")

RemoveGivesUp(c) ==
  /\ \/ Stage(c, "remove") /\ ~Confirmed(run[c].test)
     \/ Stage(c, "removed") /\ ~finished[run[c].test]
  /\ \/ "timeout" \in Faults /\ Return(c, "timeout")
     \/ mgr = "failed" /\ Return(c, "failure")

\* The put that waits for a reqSentLock taken by removePersistentRequest.
LockedOut(c) == cpc[c] = "wait" /\ attr[cur[c]].wait = "sent" /\ cur[c] \in taken

PutLockedOut(c) ==
  /\ LockedOut(c) /\ mgr # "crashed"
  /\ \/ "timeout" \in Faults /\ End(c, "timeout")
     \/ mgr = "failed" /\ End(c, "failure")
  /\ UNCHANGED <<started, ticket, manager, inbox, node, view>>

-----------------------------------------------------------------------------
(* Peer notes.                                                              *)

StartNote(c, o) ==
  /\ Starts(c, o)
  /\ \/ /\ o.name = "modifyPeerNote"
        /\ Send(c, ModifyPeerNote, [NoArg EXCEPT !.text = Encode(o.note)],
                [Started(c, o) EXCEPT !.stage = "note"])
     \/ /\ o.name = "listPeerNotes"
        /\ Send(c, ListPeerNotes, NoArg, [Started(c, o) EXCEPT !.stage = "note"])
  /\ UNCHANGED files

\* PeerNoteConverter takes the first message, PeerNotesConverter all but the
\* last (and the peer has but one note).
NotesIn(c) ==
  LET messages == view[run[c].job]
  IN  SubSeq(messages, 1, IF run[c].op.name = "listPeerNotes" THEN Len(messages) - 1 ELSE 1)

\* The constructor of PeerNote decodes the text and casts the type, a field that
\* no other message has.
NoteEnds(c) ==
  /\ Stage(c, "note")
  /\ LET text == answer[Front(c).re].text
         how == IF Result(c) # "ok" THEN Result(c)
                ELSE IF \E i \in DOMAIN NotesIn(c) : NotesIn(c)[i].h # "PeerNote"
                     THEN "bad_lexical_cast"
                ELSE IF Decode(text) = Illegal THEN "IllegalBase64" ELSE "ok"
     IN  Becomes(c, [Returned(run[c], how) EXCEPT
                       !.value = IF how = "ok" THEN Decode(text) ELSE <<>>])
  /\ UNCHANGED <<files, taken>>

-----------------------------------------------------------------------------
(* The node (external): the fields of its answers.                          *)

\* The test of a directory that was asked for last.
LatestTest(d, j) ==
  LET before == {i \in DOMAIN sent : /\ attr[sent[i]].cmd = "TestDDARequest"
                                     /\ arg[sent[i]].dir = d /\ sent[i] < j}
  IN  IF before = {} THEN 0
      ELSE sent[CHOOSE i \in before : \A k \in before : k <= i]

\* The node allows at most what the test has shown it.
Verdicts(j) ==
  LET t == LatestTest(arg[j].dir, j)
      shown == [read |-> t # 0 /\ arg[t].read /\ arg[j].content = t,
                write |-> t # 0 /\ files[t] # "none" /\ arg[j].dir \in Shared,
                text |-> <<>>]
  IN  {shown, NoAnswer}

Answer(j) ==
  /\ NodeAnswers(j)
  /\ LET h == script[j][pos'[j]].h
     IN  CASE h = "TestDDAComplete" ->
                /\ \E v \in Verdicts(j) : answer' = [answer EXCEPT ![j] = v]
                /\ UNCHANGED note
           [] h = "PeerNote" ->
                /\ note' = IF attr[j].cmd = "ModifyPeerNote" THEN arg[j].text ELSE note
                /\ answer' = [answer EXCEPT ![j].text = note']
           [] OTHER -> UNCHANGED <<answer, note>>
  /\ UNCHANGED <<life, run, arg, files, taken>>

-----------------------------------------------------------------------------
Operate(c) ==
  \/ AnswerTest(c) \/ TestCompleted(c) \/ TestFailed(c)
  \/ OpenFile(c) \/ OpenFails(c) \/ HashBlock(c)
  \/ PutFromDisk(c) \/ PutFromDiskEnds(c) \/ PutFallback(c) \/ PutEnds(c)
  \/ GetToDisk(c) \/ GetWithoutDisk(c) \/ UndefinedCrashes(c)
  \/ RemoveConfirmed(c) \/ RemoveEnds(c) \/ RemoveGivesUp(c) \/ NoteEnds(c)
  \/ \E o \in Operations[c] :
       \/ StartTest(c, o) \/ StartPut(c, o) \/ StartGet(c, o) \/ GetThrows(c, o)
       \/ Modify(c, o) \/ Remove(c, o) \/ StartNote(c, o)

Idle(c) == run[c].stage = "idle"

\* The steps of NodeLife and NodeThread under the operations.
Underneath ==
  \/ Starting \/ ManagerStep
  \/ Idle(Owner) /\ ShuttingDown
  \/ (\A c \in Clients : Idle(c)) /\ Destroy
  \/ \E c \in Clients : /\ (~LockedOut(c) /\ ClientStep(c)) \/ PutLockedOut(c)
                        /\ UNCHANGED life

OpNext ==
  \/ \E c \in Clients : Operate(c)
  \/ \E j \in 0 .. MaxJobs : Answer(j)
  \/ Underneath /\ UNCHANGED opVars

OpSpec == OpInit /\ [][OpNext]_allVars

-----------------------------------------------------------------------------
(* Properties.  The answers to commands without an identifier may be those  *)
(* of another command once two of them have been under way together.        *)

PlainClashed == <<FALSE, "">> \in clashed

Stages == {"idle", "test", "respond", "open", "hash", "request", "put", "sent",
           "remove", "removed", "note"}

\* Every variable has its type.
OpTypeOK ==
  /\ LifeTypeOK
  /\ \A c \in Clients :
       /\ run[c].stage \in Stages
       /\ run[c].job \in 0 .. started /\ run[c].test \in 0 .. started
       /\ run[c].calls \in 0 .. MaxCalls
       /\ run[c].value \in Seq(Byte)
  /\ files \in [0 .. MaxJobs -> {"none", "written", "left"}] /\ taken \subseteq Jobs
  /\ \A j \in 0 .. MaxJobs : arg[j].content \in 0 .. MaxJobs
  /\ note \in Seq(Byte)

\* testDDA leaves no file behind that it has not tried to remove: what it wrote
\* for the node is there only while it waits for the verdict, however that comes
\* or fails to come, and whichever client's answer it was named in.  Only a file
\* whose removal failed stays.
TestFilesRemoved ==
  mgr # "crashed" =>
    \A i \in Jobs : files[i] = "written" =>
      \E c \in Clients : run[c].stage = "respond" /\ run[c].test = i

\* putDisk and getDisk let the node use the caller's file only where the two
\* see the same files, or when the caller vouches for it by a hash: a verdict
\* of the node is about the directory of this request and of a test the client
\* has taken part in.
DiskIsShared ==
  ~PlainClashed =>
    \A j \in 1 .. started : arg[j].from = "disk" => arg[j].hash \/ arg[j].dir \in Shared

\* putDisk sends the data itself only for a put that the node has refused or
\* cancelled, never besides one that goes on: a second put has the same
\* identifier, so that the first one is over or about to be removed.
FallbackForCause ==
  [][\A c \in Clients :
       run[c].stage = "put" /\ run'[c].stage = "sent" /\ Key(run[c].job) \notin clashed =>
         LET said == SubSeq(script[run[c].job], 1, pos[run[c].job])
         IN  /\ \E i \in DOMAIN said : IsError(said[i])
             /\ finished[run[c].job] \/ \E i \in DOMAIN said : said[i].code = "10"]_allVars

\* SHA-256 of a message of n bytes is made of these blocks: the message, the
\* mark, as few zeros as fill a block up to the place of the length, and the
\* length in bits.
Digested(message) ==
  LET n == Len(message)
      free == BlockBytes - LengthBytes
      zeros == CHOOSE z \in 0 .. BlockBytes - 1 : (n + 1 + z) % BlockBytes = free
      text == message \o <<Mark>> \o Zeros(zeros)
             \o <<<<"length", ((8 * n) \div WordLimit) % WordLimit, (8 * n) % WordLimit>>>>
      last == (n + 1 + zeros) \div BlockBytes
  IN  [b \in 1 .. last + 1 |-> SubSeq(text, (b - 1) * BlockBytes + 1,
                                     Smaller(b * BlockBytes, Len(text)))]

\* In a build with words of four bytes, at any point of putDisk's loop the hash
\* is SHA-256 of the salt and of the part of the file that was read, wherever
\* reads and blocks end.  With words of eight bytes it is not: half of each
\* schedule is unset, the length is not in the last block, and the first block
\* already overruns the context.
HashIsOfFile ==
  \A c \in Clients : run[c].stage = "hash" /\ run[c].sha.word = 4 =>
    SHA256_final(run[c].sha).H =
      Digested(Piece("salt", 1, run[c].salt) \o Piece("file", 1, run[c].offset))

\* A note that was set comes back through both codings as it was, but for
\* zeros behind it up to a whole group; or it is refused, when its own coding
\* has a character that the decoder does not know.
NotesComeBack ==
  \A c \in Clients : run[c].op.name = "modifyPeerNote" /\ ~PlainClashed =>
    LET text == run[c].op.note
        value == run[c].value
    IN  /\ run[c].how = "ok" =>
             /\ SubSeq(value, 1, Len(text)) = text
             /\ Len(value) - Len(text) \in 0 .. 2 /\ Len(value) % 3 = 0
             /\ \A i \in Len(text) + 1 .. Len(value) : value[i] = 0
        /\ run[c].how = "IllegalBase64" =>
             \E i \in DOMAIN Encode(text) : Encode(text)[i] \in {126, 45}

===============================================================================
