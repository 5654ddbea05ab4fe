--------------------------- MODULE MCNodeOperations ----------------------------
(***************************************************************************)
(* A small instance of NodeOperations for TLC: what the clients may do,    *)
(* and bounds on what comes together.                                      *)
(***************************************************************************)
EXTENDS NodeOperations

C1 == "c1"
C2 == "c2"

Test(d, r, w) == [name |-> "testDDA", dir |-> d, read |-> r, write |-> w]
PutDisk(d, global, hash, length) ==
  [name |-> "putDisk", dir |-> d, id |-> "a", global |-> global, persistent |-> FALSE,
   hash |-> hash, length |-> length]
PutData(id, global, persistent) ==
  [name |-> "putData", dir |-> "none", id |-> id, global |-> global,
   persistent |-> persistent, hash |-> FALSE]
Redirect(global, persistent) == [PutData("", global, persistent) EXCEPT !.name = "putRedirect"]
GetOp(name, d, global, persistent, stream) ==
  [name |-> name, dir |-> d, id |-> "b", global |-> global, persistent |-> persistent,
   stream |-> stream]
SetNote(n) == [name |-> "modifyPeerNote", note |-> n]

\* One client does anything; the owner of the object tests a directory beside
\* another test, or makes a persistent put for the other one to remove.
TestBoth == Test("d", TRUE, TRUE)
TestOther == Test("e", FALSE, TRUE)
PutHashed == PutDisk("e", "0", TRUE, 0)
ToRemove == PutData("p", "1", TRUE)
Removals == {[name |-> "removePersistentRequest"], [name |-> "modifyPersistentRequest"]}
Alone ==
  {PutDisk("d", "0", FALSE, 14), PutHashed,
   PutData("a", "false", FALSE), PutData("a", "1", FALSE), Redirect("1", TRUE),
   GetOp("getDisk", "d", "false", FALSE, FALSE), GetOp("getDisk", "e", "true", TRUE, FALSE),
   GetOp("getDisk", "d", "true", FALSE, FALSE),
   GetOp("fetchData", "d", "false", FALSE, FALSE),
   GetOp("getDirect", "d", "false", FALSE, TRUE), GetOp("getDirect", "d", "false", FALSE, FALSE),
   [name |-> "listPeerNotes"], SetNote(<<>>), SetNote(<<77>>), SetNote(<<251>>), SetNote(<<0, 255>>),
   SetNote(<<1, 2, 3>>), SetNote(<<83, 255, 7, 8>>)}

SomeOperations ==
  [c \in Clients |-> IF c = C1 THEN {TestBoth} \cup Removals \cup Alone
                               ELSE {TestOther, ToRemove}]

\* Bound: which operations of the two clients come together.
Together ==
  LET one == run[C1].op
      other == run[C2].op
  IN  run[C1].calls + run[C2].calls = 2 =>
        <<one, other>> \in {<<TestBoth, TestOther>>} \cup (Removals \X {ToRemove})

AllRequests ==
  {ClientHello, Shutdown, TestDDARequest, TestDDAResponse, ListPeerNotes, ModifyPeerNote,
   RemovePersistentRequest, ModifyPersistentRequest}
  \cup {ClientPut(id, p) : id \in {"a", "p", "u"}, p \in Persistences}
  \cup {GetDisk("b", p) : p \in Persistences} \cup {FetchData("b", p) : p \in Persistences}
  \cup UNION {GetDirect("b", p) : p \in Persistences}

NoUpdates == <<>>
SomeSalts == 1 .. 9
Notes == {<<83, 71, 105>>}

\* Bound: in one run at most one wait ends by its timeout, none where the
\* manager has failed, and none of putDisk with a hash.
OneTimeout ==
  \A i, j \in Jobs : outcome[i] = "timeout" =>
    /\ mgr # "failed" /\ run[C1].op # PutHashed
    /\ outcome[j] = "timeout" => i = j
===============================================================================
