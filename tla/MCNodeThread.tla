----------------------------- MODULE MCNodeThread ------------------------------
(***************************************************************************)
(* Small instances of NodeThread for TLC: the sets of requests and what    *)
(* the node reports of a global request.                                   *)
(***************************************************************************)
EXTENDS NodeThread, TLC

Symmetry == Permutations(Clients)

Connection == [global |-> FALSE, persistent |-> FALSE]
Global == [global |-> TRUE, persistent |-> TRUE]

\* Requests whose identifiers clash: commands without one, and puts under one
\* identifier; each has answers of more than one message.
Clashing == {ListPeers, ClientPut("a", Connection)}

\* One request of every kind in Node.cpp.
Everything ==
  PlainRequests \cup {GenerateSSK("k"), SubscribeUSK("u")}
  \cup {ClientPut("a", p) : p \in Persistences}
  \cup UNION {{GetDisk("b", p), FetchData("b", p)} \cup GetDirect("b", p) : p \in Persistences}

\* One request for each way to wait and to be answered.
EachKind == {ListPeers, GenerateSSK("a"), WatchGlobal, ClientPut("a", Global)}
            \cup GetDirect("b", Connection)

TwoPeerCommands == {ListPeer, ListPeers}
Watching == {WatchGlobal}

NoUpdates == <<>>
PutUpdates == Words(<<"PersistentPut", "SimpleProgress", "PutSuccessful">>)
GetUpdates == Words(<<"PersistentGet", "DataFound">>)
===============================================================================
