----------------------------- MODULE ServerMessage -----------------------------
(***************************************************************************)
(* The node's messages as src/ServerMessage.h and src/ServerMessage.cpp    *)
(* classify them: which headers the factory knows, which are errors, and   *)
(* whether a message is the last one of the job it is routed to.           *)
(*                                                                         *)
(* A message is a record with the fields                                   *)
(*   h       its header                                                    *)
(*   code    its field Code, or "" without one                             *)
(* and a job ticket one with the fields                                    *)
(*   cmd     the header of the command it was made for                     *)
(*   get     it is a GetJob, with its ret ("Direct", "Disk", "None")       *)
(*   stream  the GetJob has been given a stream                            *)
(*   persistent                                                            *)
(* PutFailed and GetFailed are told apart by the one code the code names.  *)
(***************************************************************************)

\* The classes ServerMessageT<IsLastTrue, ...>.
AlwaysLast ==
  {"NodeHello", "CloseConnectionDuplicateName", "EndListPeers", "EndListPeerNotes",
   "PeerRemoved", "NodeData", "ConfigData", "TestDDAReply", "TestDDAComplete",
   "SSKKeypair", "PutSuccessful", "EndListPersistentRequest",
   "PersistentRequestRemoved", "ProtocolError", "IdentifierCollision",
   "UnknownNodeIdentifier", "UnknownPeerNoteType"}

\* The classes ServerMessageT<IsLastFalse, ...>.
NeverLast ==
  {"PersistentGet", "PersistentPut", "PersistentPutDir", "URIGenerated",
   "PutFetchable", "StartedCompression", "FinishedCompression", "SimpleProgress",
   "PersistentRequestModified", "SubscribedUSKUpdate"}

\* The headers of ServerMessage::factory: it throws for any other line.
Headers ==
  AlwaysLast \cup NeverLast \cup
  {"Peer", "PeerNote", "PutFailed", "GetFailed", "DataFound", "AllData"}

\* isError: the classes with the template argument isErrorT = true.
IsError(m) ==
  m.h \in {"CloseConnectionDuplicateName", "PutFailed", "GetFailed", "ProtocolError",
           "IdentifierCollision", "UnknownNodeIdentifier", "UnknownPeerNoteType"}

Verdict(last) == IF last THEN "last" ELSE "more"

\* A mutant of IsLastPeer: AddPeer is forgotten.
IsLastPeerNoAdd(job) ==
  IF job.cmd \in {"ListPeers", "ModifyPeer", "ListPeer"}
  THEN Verdict(job.cmd # "ListPeers")
  ELSE "throws"

\* IsLastPeer: a Peer ends every command that asks for one, but not ListPeers;
\* for any other command it throws NotImplemented.
IsLastPeer(job) ==
  IF job.cmd \in {"ListPeers", "ModifyPeer", "AddPeer", "ListPeer"}
  THEN Verdict(job.cmd # "ListPeers")
  ELSE "throws"

\* A mutant of IsLastPeerNote: a note ends ListPeerNotes too.
IsLastAnyNote(job) ==
  IF job.cmd \in {"ListPeerNotes", "ModifyPeerNote"} THEN "last" ELSE "throws"

\* IsLastPeerNote: likewise for ListPeerNotes and ModifyPeerNote.
IsLastPeerNote(job) ==
  IF job.cmd \in {"ListPeerNotes", "ModifyPeerNote"}
  THEN Verdict(job.cmd # "ListPeerNotes")
  ELSE "throws"

\* IsLastPutFailed and IsLastGetFailed: lexical_cast<int> throws without a Code.
IsLastFailed(m, notLast) == IF m.code = "" THEN "throws" ELSE Verdict(m.code # notLast)

\* IsLastDataFound: the ticket is taken to be a GetJob; the data of a direct,
\* non-persistent get come in an AllData message that follows.
IsLastDataFound(job) ==
  IF ~job.get THEN "crashes" ELSE Verdict(job.ret # "Direct" \/ job.persistent)

\* AllDataMessage::isLast copies the body into the GetJob's stream.
IsLastAllData(job) == IF job.get /\ job.stream THEN "last" ELSE "crashes"

\* message->isLast(job): "last", "more", "throws" for an exception, "crashes"
\* where the code dereferences a null pointer.
IsLast(m, job) ==
  CASE m.h \in AlwaysLast -> "last"
    [] m.h \in NeverLast -> "more"
    [] m.h = "Peer" -> IsLastPeer(job)
    [] m.h = "PeerNote" -> IsLastPeerNote(job)
    [] m.h = "PutFailed" -> IsLastFailed(m, "10")
    [] m.h = "GetFailed" -> IsLastFailed(m, "25")
    [] m.h = "DataFound" -> IsLastDataFound(job)
    [] m.h = "AllData" -> IsLastAllData(job)

===============================================================================
