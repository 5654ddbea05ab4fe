----------------------------- MODULE NodeCommands ------------------------------
(***************************************************************************)
(* The requests the operations of src/Node.cpp hand to the manager thread, *)
(* and the conversations the node answers them with.                       *)
(*                                                                         *)
(* A request is a record: the ticket's part (cmd, get, ret, stream,        *)
(* persistent: see ServerMessage.tla), its id and global, by which the     *)
(* manager finds it, and wait, what the operation waits for before it      *)
(* returns: "finished", "sent" (the first message), or "none".             *)
(***************************************************************************)
EXTENDS ServerMessage

\* The plain commands: a JobTicket whose identifier is the empty string, and
\* a wait for its last message.  All of them share that identifier.
Command(cmd) ==
  [cmd |-> cmd, get |-> FALSE, ret |-> "None", stream |-> FALSE,
   persistent |-> FALSE, id |-> "", global |-> FALSE, wait |-> "finished"]

ClientHello == Command("ClientHello")
ListPeer == Command("ListPeer")
ListPeers == Command("ListPeers")
ListPeerNotes == Command("ListPeerNotes")
AddPeer == Command("AddPeer")
ModifyPeer == Command("ModifyPeer")
ModifyPeerNote == Command("ModifyPeerNote")
RemovePeer == Command("RemovePeer")
GetNode == Command("GetNode")
GetConfig == Command("GetConfig")
ModifyConfig == Command("ModifyConfig")
TestDDARequest == Command("TestDDARequest")
TestDDAResponse == Command("TestDDAResponse")
RefreshPersistentRequest == Command("ListPersistentRequest")
Shutdown == Command("Shutdown")

\* watchGlobal puts its ticket in the queue and returns.
WatchGlobal == [Command("WatchGlobal") EXCEPT !.wait = "none"]

\* removePersistentRequest and modifyPersistentRequest send headers that end
\* with a space, under a ticket of their own that nobody waits for.
RemovePersistentRequest == [Command("PersistentRequestRemoved ") EXCEPT !.wait = "none"]
ModifyPersistentRequest == [Command("ModifyPersistentRequest ") EXCEPT !.wait = "none"]

\* generateSSK carries an identifier of the caller.
GenerateSSK(id) == [Command("GenerateSSK") EXCEPT !.id = id]

\* subscribeUSK returns its ticket at once; so do the three gets below.
SubscribeUSK(id) == [Command("SubscribeUSK") EXCEPT !.id = id, !.wait = "none"]

\* A global request that is not persistent is refused before it is queued.
Persistences == {p \in [global : BOOLEAN, persistent : BOOLEAN] : p.global => p.persistent}

\* putData, putRedirect and putDisk wait for the first message.
ClientPut(id, p) ==
  [Command("ClientPut") EXCEPT !.id = id, !.global = p.global,
                               !.persistent = p.persistent, !.wait = "sent"]

ClientGet(id, p, ret, stream) ==
  [Command("ClientGet") EXCEPT !.id = id, !.global = p.global,
                               !.persistent = p.persistent, !.wait = "none",
                               !.get = TRUE, !.ret = ret, !.stream = stream]

GetDisk(id, p) == ClientGet(id, p, "Disk", FALSE)
FetchData(id, p) == ClientGet(id, p, "None", FALSE)

\* getDirect refuses a get that is not persistent and has no stream.
GetDirect(id, p) ==
  {ClientGet(id, p, "Direct", s) : s \in IF p.persistent THEN BOOLEAN ELSE {TRUE}}

PlainRequests ==
  {ClientHello, ListPeer, ListPeers, ListPeerNotes, AddPeer, ModifyPeer, ModifyPeerNote,
   RemovePeer, GetNode, GetConfig, ModifyConfig, TestDDARequest, TestDDAResponse,
   RefreshPersistentRequest, RemovePersistentRequest, ModifyPersistentRequest,
   Shutdown, WatchGlobal}

\* Every request that an operation makes, with id for its identifier if it
\* takes one.
RequestsUnder(id) ==
  PlainRequests \cup {GenerateSSK(id), SubscribeUSK(id)}
  \cup UNION {{ClientPut(id, p), GetDisk(id, p), FetchData(id, p)} \cup GetDirect(id, p) :
                 p \in Persistences}

-----------------------------------------------------------------------------
(* The node (external): the conversations the code in src/ is written for.  *)
(* A word is a header, or a header with a Code.                             *)

\* The codes: those that src/ names, and "1" for any other.
Codes == {"", "1", "10", "18", "25"}

Word(h) == [h |-> h, code |-> ""]
Failed(h, code) == [h |-> h, code |-> code]
Words(hs) == [i \in DOMAIN hs |-> Word(hs[i])]

PeerAnswers == {Words(<<"Peer">>), Words(<<"UnknownNodeIdentifier">>)}

\* A request cancelled on the node ends with PersistentRequestRemoved.
Cancelled(h, code) == <<Failed(h, code), Word("PersistentRequestRemoved")>>

PutAnswers ==
  {Words(<<"URIGenerated", "PutSuccessful">>), Words(<<"ProtocolError">>),
   <<Word("SimpleProgress"), Failed("PutFailed", "1")>>, Cancelled("PutFailed", "10")}

\* The data of a direct get: for one that is not persistent they follow.
GetAnswers(r) ==
  {IF r.ret = "Direct" /\ ~r.persistent THEN Words(<<"DataFound", "AllData">>)
                                        ELSE Words(<<"DataFound">>),
   <<Word("SimpleProgress"), Failed("GetFailed", "1")>>, Cancelled("GetFailed", "25")}

\* What the node may say to a request, in order.
Answers(r) ==
  CASE r.cmd \in {"ListPeer", "ModifyPeer", "AddPeer"} -> PeerAnswers
    [] r.cmd = "ListPeers" -> {Words(<<"Peer", "EndListPeers">>), Words(<<"EndListPeers">>)}
    [] r.cmd = "ListPeerNotes" -> {Words(<<"PeerNote", "EndListPeerNotes">>),
                                   Words(<<"UnknownNodeIdentifier">>)}
    [] r.cmd = "ModifyPeerNote" -> {Words(<<"PeerNote">>), Words(<<"UnknownPeerNoteType">>)}
    [] r.cmd = "RemovePeer" -> {Words(<<"PeerRemoved">>), Words(<<"UnknownNodeIdentifier">>)}
    [] r.cmd = "ClientHello" -> {Words(<<"NodeHello">>),
                                 Words(<<"CloseConnectionDuplicateName">>)}
    [] r.cmd = "GetNode" -> {Words(<<"NodeData">>)}
    [] r.cmd \in {"GetConfig", "ModifyConfig"} -> {Words(<<"ConfigData">>)}
    [] r.cmd = "TestDDARequest" -> {Words(<<"TestDDAReply">>), Words(<<"ProtocolError">>)}
    [] r.cmd = "TestDDAResponse" -> {Words(<<"TestDDAComplete">>), Words(<<"ProtocolError">>)}
    [] r.cmd = "GenerateSSK" -> {Words(<<"SSKKeypair">>)}
    [] r.cmd = "ListPersistentRequest" -> {Words(<<"EndListPersistentRequest">>)}
    [] r.cmd = "Shutdown" -> {<<Failed("ProtocolError", "18")>>}
    [] r.cmd = "WatchGlobal" -> {<<>>}
    [] r.cmd \in {"PersistentRequestRemoved ", "ModifyPersistentRequest "} ->
         {<<>>, Words(<<"ProtocolError">>)}
    [] r.cmd = "SubscribeUSK" -> {<<>>, Words(<<"SubscribedUSKUpdate">>)}
    [] r.cmd = "ClientPut" -> PutAnswers
    [] r.cmd = "ClientGet" -> GetAnswers(r)

===============================================================================
