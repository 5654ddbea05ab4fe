---------------------------- MODULE NodeThreadProofs ---------------------------
(***************************************************************************)
(* Proofs about NodeThread for any set of clients, any number of requests  *)
(* of any kinds, and any conversations of known messages.                  *)
(***************************************************************************)
EXTENDS NodeThread, Integers, Sequences, TLAPS

-----------------------------------------------------------------------------
(* What the isLast policies of the responses find out, for every request   *)
(* of the library and every answer the node is expected to give it: the    *)
(* conversation has one last message and it is the one the node says last. *)

\* The words of the node's conversations.
WordSet == [h : Headers, code : Codes]

\* isLast looks at the header and the code of a message and nothing else.
LEMMA LastOfWord ==
  ASSUME NEW m, NEW w, m.h = w.h, m.code = w.code, m.h \in Headers, NEW job
  PROVE  IsLast(m, job) = IsLast(w, job)
<1>1. CASE m.h \in AlwaysLast
  BY <1>1, Zenon DEF IsLast, AlwaysLast, NeverLast
<1>2. CASE m.h \in NeverLast
  BY <1>2, Zenon DEF IsLast, AlwaysLast, NeverLast
<1>3. CASE m.h \in {"Peer", "PeerNote", "PutFailed", "GetFailed", "DataFound", "AllData"}
  BY <1>3, Zenon DEF IsLast, AlwaysLast, NeverLast, IsLastFailed
<1> QED
  BY <1>1, <1>2, <1>3 DEF Headers

\* The commands without an identifier.
PlainCommands ==
  {"ClientHello", "ListPeer", "ListPeers", "ListPeerNotes", "AddPeer", "ModifyPeer",
   "ModifyPeerNote", "RemovePeer", "GetNode", "GetConfig", "ModifyConfig", "TestDDARequest",
   "TestDDAResponse", "ListPersistentRequest", "PersistentRequestRemoved ",
   "ModifyPersistentRequest ", "Shutdown", "WatchGlobal"}

\* All the commands of Node.cpp.
Commands == PlainCommands \cup {"GenerateSSK", "SubscribeUSK", "ClientPut", "ClientGet"}

\* What the requests of the operations have in common: a get has the ticket of a
\* get, and one whose data come on the connection has a stream to keep them.
LEMMA RequestKinds ==
  ASSUME NEW id, NEW r \in RequestsUnder(id)
  PROVE  /\ r.global \in BOOLEAN
         /\ r.cmd \in Commands
         /\ r.cmd = "WatchGlobal" => r.id = ""
         /\ r.cmd = "ClientGet" => r.get /\ r.ret \in {"Direct", "Disk", "None"}
         /\ r.cmd = "ClientGet" /\ r.ret = "Direct" /\ ~r.persistent => r.stream
<1> DEFINE Good(x) ==
         /\ x.global \in BOOLEAN
         /\ x.cmd \in Commands
         /\ x.cmd = "WatchGlobal" => x.id = ""
         /\ x.cmd = "ClientGet" => x.get /\ x.ret \in {"Direct", "Disk", "None"}
         /\ x.cmd = "ClientGet" /\ x.ret = "Direct" /\ ~x.persistent => x.stream
<1> USE DEF Commands
<1>1. ASSUME r \in PlainRequests PROVE Good(r)
  <2>1. PICK c \in PlainCommands : r = Command(c) \/ r = [Command(c) EXCEPT !.wait = "none"]
    BY <1>1 DEF PlainRequests, PlainCommands, ClientHello, ListPeer, ListPeers, ListPeerNotes,
                AddPeer, ModifyPeer, ModifyPeerNote, RemovePeer, GetNode, GetConfig,
                ModifyConfig, TestDDARequest, TestDDAResponse, RefreshPersistentRequest,
                RemovePersistentRequest, ModifyPersistentRequest, Shutdown, WatchGlobal
  <2>2. r.cmd = c /\ r.global = FALSE /\ r.id = ""
    <3>1. CASE r = Command(c)
      BY <3>1 DEF Command
    <3>2. CASE r = [Command(c) EXCEPT !.wait = "none"]
      BY <3>2 DEF Command
    <3> QED
      BY <2>1, <3>1, <3>2
  <2> QED
    BY <2>2 DEF PlainCommands
<1>2. ASSUME r \in {GenerateSSK(id), SubscribeUSK(id)} PROVE Good(r)
  BY <1>2 DEF GenerateSSK, SubscribeUSK, Command
<1>3. ASSUME NEW p \in Persistences, r = ClientPut(id, p) PROVE Good(r)
  BY <1>3 DEF ClientPut, Command, Persistences
<1>4. ASSUME NEW p \in Persistences, r = GetDisk(id, p) \/ r = FetchData(id, p) PROVE Good(r)
  BY <1>4 DEF GetDisk, FetchData, ClientGet, Command, Persistences
<1>5. ASSUME NEW p \in Persistences, r \in GetDirect(id, p) PROVE Good(r)
  BY <1>5 DEF GetDirect, ClientGet, Command, Persistences
<1> QED
  BY <1>1, <1>2, <1>3, <1>4, <1>5 DEF RequestsUnder

\* The ticket of request r can tell when the conversation a is over: no message
\* of it makes isLast throw or crash, and none but the final one ends the job.
Proper(a, r) ==
  /\ a \in Seq(WordSet)
  /\ \A n \in 1 .. Len(a) : /\ IsLast(a[n], r) \in {"more", "last"}
                            /\ n < Len(a) => IsLast(a[n], r) = "more"

\* Messages that end every job.
LEMMA AlwaysIsLast ==
  ASSUME NEW w, NEW job, w.h \in AlwaysLast
  PROVE  IsLast(w, job) = "last"
BY Zenon DEF IsLast, AlwaysLast, NeverLast

\* Messages that end no job.
LEMMA NeverIsMore ==
  ASSUME NEW w, NEW job, w.h \in NeverLast
  PROVE  IsLast(w, job) = "more"
BY Zenon DEF IsLast, AlwaysLast, NeverLast

\* No word at all.
LEMMA ProperNone == ASSUME NEW r PROVE Proper(<<>>, r)
BY DEF Proper

\* One word, which may or may not be the last.
LEMMA ProperOne ==
  ASSUME NEW r, NEW w \in WordSet, IsLast(w, r) \in {"more", "last"}
  PROVE  Proper(<<w>>, r)
<1>1. <<w>> \in Seq(WordSet) /\ Len(<<w>>) = 1 /\ <<w>>[1] = w
  OBVIOUS
<1> QED
  BY <1>1 DEF Proper

\* Two words, the first of which is not the last.
LEMMA ProperTwo ==
  ASSUME NEW r, NEW v \in WordSet, NEW w \in WordSet, IsLast(v, r) = "more", IsLast(w, r) \in {"more", "last"}
  PROVE  Proper(<<v, w>>, r)
<1>1. <<v, w>> \in Seq(WordSet) /\ Len(<<v, w>>) = 2 /\ <<v, w>>[1] = v /\ <<v, w>>[2] = w
  OBVIOUS
<1>2. 1 .. 2 = {1, 2}
  OBVIOUS
<1> QED
  BY <1>1, <1>2 DEF Proper

\* The words are records with the header and the code they are made from.
LEMMA WordTyped ==
  ASSUME NEW h \in Headers, NEW code \in Codes
  PROVE  /\ Failed(h, code) \in WordSet /\ Failed(h, code).h = h /\ Failed(h, code).code = code
         /\ Word(h) \in WordSet /\ Word(h).h = h /\ Word(h).code = ""
BY DEF Failed, Word, WordSet, Codes

\* Words of one header.
LEMMA OneWord == \A h : Words(<<h>>) = <<Word(h)>>
<1> SUFFICES ASSUME NEW h PROVE Words(<<h>>) = <<Word(h)>>
  OBVIOUS
<1> DEFINE w == Word(h)
           hs == <<h>>
<1>1. DOMAIN hs = 1 .. 1 /\ hs[1] = h
  OBVIOUS
<1> HIDE DEF hs
<1>2. Words(hs) = [i \in 1 .. 1 |-> w]
  BY <1>1 DEF Words
<1> HIDE DEF w
<1>3. [i \in 1 .. 1 |-> w] = <<w>>
  OBVIOUS
<1> QED
  BY <1>2, <1>3 DEF w, hs

\* Words of two headers.
LEMMA TwoWords == \A g, h : Words(<<g, h>>) = <<Word(g), Word(h)>>
<1> SUFFICES ASSUME NEW g, NEW h PROVE Words(<<g, h>>) = <<Word(g), Word(h)>>
  OBVIOUS
<1> DEFINE v == Word(g)
           w == Word(h)
           hs == <<g, h>>
<1>1. DOMAIN hs = 1 .. 2 /\ hs[1] = g /\ hs[2] = h
  OBVIOUS
<1> HIDE DEF hs
<1>2. Words(hs) = [i \in 1 .. 2 |-> IF i = 1 THEN v ELSE w]
  BY <1>1 DEF Words
<1> HIDE DEF v, w
<1>3. [i \in 1 .. 2 |-> IF i = 1 THEN v ELSE w] = <<v, w>>
  OBVIOUS
<1> QED
  BY <1>2, <1>3 DEF v, w, hs

-----------------------------------------------------------------------------
(* The answers.                                                             *)

\* A message that always is the last one, alone or after one that never is.
LEMMA EndsAlone ==
  ASSUME NEW r, NEW h \in AlwaysLast
  PROVE  Proper(Words(<<h>>), r)
<1>1. h \in Headers /\ "" \in Codes
  BY DEF Headers, Codes
<1>2. Word(h) \in WordSet /\ Word(h).h = h
  BY <1>1, WordTyped
<1> QED
  BY <1>2, OneWord, ProperOne, AlwaysIsLast

\* Such a message after one that does not end the job.
LEMMA EndsAfter ==
  ASSUME NEW r, NEW v \in WordSet, IsLast(v, r) = "more", NEW h \in AlwaysLast
  PROVE  Proper(<<v, Word(h)>>, r)
<1>1. h \in Headers /\ "" \in Codes
  BY DEF Headers, Codes
<1>2. Word(h) \in WordSet /\ Word(h).h = h
  BY <1>1, WordTyped
<1>3. IsLast(Word(h), r) = "last"
  BY <1>2, AlwaysIsLast
<1> QED
  BY <1>2, <1>3, ProperTwo

\* A Peer ends every job but that of ListPeers.
LEMMA PeerVerdict ==
  ASSUME NEW w, NEW r, w.h = "Peer", r.cmd \in {"ListPeers", "ModifyPeer", "AddPeer", "ListPeer"}
  PROVE  IsLast(w, r) = IF r.cmd = "ListPeers" THEN "more" ELSE "last"
<1>1. IsLast(w, r) = IsLastPeer(r)
  BY Zenon DEF IsLast, AlwaysLast, NeverLast
<1> QED
  BY <1>1 DEF IsLastPeer, Verdict

\* A PeerNote ends every job but that of ListPeerNotes.
LEMMA NoteVerdict ==
  ASSUME NEW w, NEW r, w.h = "PeerNote", r.cmd \in {"ListPeerNotes", "ModifyPeerNote"}
  PROVE  IsLast(w, r) = IF r.cmd = "ListPeerNotes" THEN "more" ELSE "last"
<1>1. IsLast(w, r) = IsLastPeerNote(r)
  BY Zenon DEF IsLast, AlwaysLast, NeverLast
<1> QED
  BY <1>1 DEF IsLastPeerNote, Verdict

\* PutFailed and GetFailed end the job, except with the code of a cancelled one.
LEMMA FailedVerdict ==
  ASSUME NEW w, NEW r, w.code # "", w.h \in {"PutFailed", "GetFailed"}
  PROVE  IsLast(w, r) = IF w.code = (IF w.h = "PutFailed" THEN "10" ELSE "25") THEN "more" ELSE "last"
<1>1. CASE w.h = "PutFailed"
  <2>1. IsLast(w, r) = IsLastFailed(w, "10")
    BY <1>1, Zenon DEF IsLast, AlwaysLast, NeverLast
  <2> QED
    BY <1>1, <2>1 DEF IsLastFailed, Verdict
<1>2. CASE w.h = "GetFailed"
  <2>1. IsLast(w, r) = IsLastFailed(w, "25")
    BY <1>2, Zenon DEF IsLast, AlwaysLast, NeverLast
  <2> QED
    BY <1>2, <2>1 DEF IsLastFailed, Verdict
<1> QED
  BY <1>1, <1>2

\* DataFound ends a get whose data do not follow it; AllData ends one that has a
\* stream.
LEMMA DataVerdict ==
  ASSUME NEW w, NEW r, r.get
  PROVE  /\ w.h = "DataFound" =>
              IsLast(w, r) = IF r.ret # "Direct" \/ r.persistent THEN "last" ELSE "more"
         /\ w.h = "AllData" /\ r.stream => IsLast(w, r) = "last"
<1>1. ASSUME w.h = "DataFound" PROVE IsLast(w, r) = IsLastDataFound(r)
  BY <1>1, Zenon DEF IsLast, AlwaysLast, NeverLast
<1>2. ASSUME w.h = "AllData" PROVE IsLast(w, r) = IsLastAllData(r)
  BY <1>2, Zenon DEF IsLast, AlwaysLast, NeverLast
<1> QED
  BY <1>1, <1>2 DEF IsLastDataFound, IsLastAllData, Verdict

\* What a put or a get may be answered: progress, then a failure with its code.
LEMMA FailureProper ==
  ASSUME NEW r, NEW h \in {"PutFailed", "GetFailed"}
  PROVE  /\ Proper(<<Word("SimpleProgress"), Failed(h, "1")>>, r)
         /\ Proper(Cancelled(h, IF h = "PutFailed" THEN "10" ELSE "25"), r)
<1> DEFINE code == IF h = "PutFailed" THEN "10" ELSE "25"
           p == Word("SimpleProgress")
           f == Failed(h, "1")
           c == Failed(h, code)
<1>1. /\ h \in Headers /\ "SimpleProgress" \in Headers /\ "SimpleProgress" \in NeverLast
      /\ "PersistentRequestRemoved" \in AlwaysLast
      /\ {"", "1", code} \subseteq Codes
  BY DEF Headers, NeverLast, AlwaysLast, Codes
<1>2. /\ p \in WordSet /\ p.h \in NeverLast
      /\ f \in WordSet /\ f.h = h /\ f.code = "1"
      /\ c \in WordSet /\ c.h = h /\ c.code = code
  BY <1>1, WordTyped
<1> HIDE DEF p, f, c
<1>3. IsLast(p, r) = "more"
  BY <1>2, NeverIsMore
<1>4. IsLast(f, r) = "last"
  BY <1>2, FailedVerdict
<1>5. IsLast(c, r) = "more"
  BY <1>2, FailedVerdict
<1>6. Proper(<<p, f>>, r)
  BY <1>2, <1>3, <1>4, ProperTwo
<1>7. Proper(<<c, Word("PersistentRequestRemoved")>>, r)
  BY <1>1, <1>2, <1>5, EndsAfter
<1> QED
  BY <1>6, <1>7 DEF p, f, c, Cancelled

\* The conversations of puts.
LEMMA PutAnswersProper ==
  ASSUME NEW r, NEW a \in PutAnswers
  PROVE  Proper(a, r)
<1>1. {"PutSuccessful", "ProtocolError"} \subseteq AlwaysLast /\ "" \in Codes
      /\ "URIGenerated" \in NeverLast /\ "URIGenerated" \in Headers
  BY DEF AlwaysLast, NeverLast, Headers, Codes
<1>2. CASE a = Words(<<"URIGenerated", "PutSuccessful">>)
  <2> DEFINE w == Word("URIGenerated")
  <2>1. w \in WordSet /\ w.h \in NeverLast
    BY <1>1, WordTyped
  <2> HIDE DEF w
  <2>2. IsLast(w, r) = "more"
    BY <2>1, NeverIsMore
  <2>3. Proper(<<w, Word("PutSuccessful")>>, r)
    BY <1>1, <2>1, <2>2, EndsAfter
  <2> QED
    BY <1>2, <2>3, TwoWords DEF w
<1>3. CASE a = Words(<<"ProtocolError">>)
  BY <1>1, <1>3, EndsAlone
<1>4. CASE a = <<Word("SimpleProgress"), Failed("PutFailed", "1")>>
  BY <1>4, FailureProper
<1>5. CASE a = Cancelled("PutFailed", "10")
  BY <1>5, FailureProper
<1> QED
  BY <1>2, <1>3, <1>4, <1>5 DEF PutAnswers

\* The conversations of gets.
LEMMA GetAnswersProper ==
  ASSUME NEW r, NEW a \in GetAnswers(r), r.get, r.ret = "Direct" /\ ~r.persistent => r.stream
  PROVE  Proper(a, r)
<1> DEFINE d == Word("DataFound")
           e == Word("AllData")
<1>1. {"DataFound", "AllData"} \subseteq Headers /\ "" \in Codes
  BY DEF Headers, Codes
<1>2. d \in WordSet /\ d.h = "DataFound" /\ e \in WordSet /\ e.h = "AllData"
  BY <1>1, WordTyped
<1> HIDE DEF d, e
<1>3. CASE a = Words(<<"DataFound", "AllData">>) /\ r.ret = "Direct" /\ ~r.persistent
  <2>1. IsLast(d, r) = "more" /\ IsLast(e, r) = "last"
    BY <1>2, <1>3, DataVerdict
  <2>2. Proper(<<d, e>>, r)
    BY <1>2, <2>1, ProperTwo
  <2> QED
    BY <1>3, <2>2, TwoWords DEF d, e
<1>4. CASE a = Words(<<"DataFound">>) /\ ~(r.ret = "Direct" /\ ~r.persistent)
  <2>1. IsLast(d, r) = "last"
    BY <1>2, <1>4, DataVerdict
  <2>2. Proper(<<d>>, r)
    BY <1>2, <2>1, ProperOne
  <2> QED
    BY <1>4, <2>2, OneWord DEF d
<1>5. CASE a = <<Word("SimpleProgress"), Failed("GetFailed", "1")>>
  BY <1>5, FailureProper
<1>6. CASE a = Cancelled("GetFailed", "25")
  BY <1>6, FailureProper
<1> QED
  BY <1>3, <1>4, <1>5, <1>6 DEF GetAnswers

\* Every answer to a request of the library is proper for its ticket.
THEOREM AnswersProper ==
  ASSUME NEW id, NEW r \in RequestsUnder(id), NEW a \in Answers(r)
  PROVE  Proper(a, r)
<1>0. r.cmd \in Commands
  BY RequestKinds
<1>1. CASE r.cmd \in {"ListPeer", "ModifyPeer", "AddPeer"}
  <2>1. a \in PeerAnswers
    BY <1>1, Zenon DEF Answers
  <2>2. "Peer" \in Headers /\ "" \in Codes /\ "UnknownNodeIdentifier" \in AlwaysLast
    BY DEF Headers, Codes, AlwaysLast
  <2>3. CASE a = Words(<<"UnknownNodeIdentifier">>)
    BY <2>2, <2>3, EndsAlone
  <2>4. CASE a = Words(<<"Peer">>)
    <3>1. Word("Peer") \in WordSet /\ Word("Peer").h = "Peer"
      BY <2>2, WordTyped
    <3>2. IsLast(Word("Peer"), r) = "last"
      BY <1>1, <3>1, PeerVerdict
    <3> QED
      BY <2>4, <3>1, <3>2, OneWord, ProperOne
  <2> QED
    BY <2>1, <2>3, <2>4 DEF PeerAnswers
<1>2. CASE r.cmd = "ListPeers"
  <2>1. a \in {Words(<<"Peer", "EndListPeers">>), Words(<<"EndListPeers">>)}
    BY <1>2, Zenon DEF Answers
  <2>2. "Peer" \in Headers /\ "" \in Codes /\ "EndListPeers" \in AlwaysLast
    BY DEF Headers, Codes, AlwaysLast
  <2>3. CASE a = Words(<<"EndListPeers">>)
    BY <2>2, <2>3, EndsAlone
  <2>4. CASE a = Words(<<"Peer", "EndListPeers">>)
    <3>1. Word("Peer") \in WordSet /\ Word("Peer").h = "Peer"
      BY <2>2, WordTyped
    <3>2. IsLast(Word("Peer"), r) = "more"
      BY <1>2, <3>1, PeerVerdict
    <3> QED
      BY <2>2, <2>4, <3>1, <3>2, TwoWords, EndsAfter
  <2> QED
    BY <2>1, <2>3, <2>4
<1>3. CASE r.cmd = "ListPeerNotes"
  <2>1. a \in {Words(<<"PeerNote", "EndListPeerNotes">>), Words(<<"UnknownNodeIdentifier">>)}
    BY <1>3, Zenon DEF Answers
  <2>2. "PeerNote" \in Headers /\ "" \in Codes
        /\ {"EndListPeerNotes", "UnknownNodeIdentifier"} \subseteq AlwaysLast
    BY DEF Headers, Codes, AlwaysLast
  <2>3. CASE a = Words(<<"UnknownNodeIdentifier">>)
    BY <2>2, <2>3, EndsAlone
  <2>4. CASE a = Words(<<"PeerNote", "EndListPeerNotes">>)
    <3>1. Word("PeerNote") \in WordSet /\ Word("PeerNote").h = "PeerNote"
      BY <2>2, WordTyped
    <3>2. IsLast(Word("PeerNote"), r) = "more"
      BY <1>3, <3>1, NoteVerdict
    <3> QED
      BY <2>2, <2>4, <3>1, <3>2, TwoWords, EndsAfter
  <2> QED
    BY <2>1, <2>3, <2>4
<1>4. CASE r.cmd = "ModifyPeerNote"
  <2>1. a \in {Words(<<"PeerNote">>), Words(<<"UnknownPeerNoteType">>)}
    BY <1>4, Zenon DEF Answers
  <2>2. "PeerNote" \in Headers /\ "" \in Codes /\ "UnknownPeerNoteType" \in AlwaysLast
    BY DEF Headers, Codes, AlwaysLast
  <2>3. CASE a = Words(<<"UnknownPeerNoteType">>)
    BY <2>2, <2>3, EndsAlone
  <2>4. CASE a = Words(<<"PeerNote">>)
    <3>1. Word("PeerNote") \in WordSet /\ Word("PeerNote").h = "PeerNote"
      BY <2>2, WordTyped
    <3>2. IsLast(Word("PeerNote"), r) = "last"
      BY <1>4, <3>1, NoteVerdict
    <3> QED
      BY <2>4, <3>1, <3>2, OneWord, ProperOne
  <2> QED
    BY <2>1, <2>3, <2>4
<1>5. CASE r.cmd \in {"RemovePeer", "ClientHello", "GetNode", "GetConfig", "ModifyConfig",
                      "TestDDARequest", "TestDDAResponse", "GenerateSSK",
                      "ListPersistentRequest"}
  <2>1. \E h \in {"PeerRemoved", "UnknownNodeIdentifier", "NodeHello",
                  "CloseConnectionDuplicateName", "NodeData", "ConfigData", "TestDDAReply",
                  "TestDDAComplete", "ProtocolError", "SSKKeypair",
                  "EndListPersistentRequest"} : a = Words(<<h>>)
    BY <1>5, Zenon DEF Answers
  <2>2. PICK h \in AlwaysLast : a = Words(<<h>>)
    BY <2>1 DEF AlwaysLast
  <2> QED
    BY <2>2, EndsAlone
<1>6. CASE r.cmd = "Shutdown"
  <2>1. a = <<Failed("ProtocolError", "18")>>
    BY <1>6, Zenon DEF Answers
  <2>2. "ProtocolError" \in Headers /\ "18" \in Codes /\ "ProtocolError" \in AlwaysLast
    BY DEF Headers, Codes, AlwaysLast
  <2> DEFINE w == Failed("ProtocolError", "18")
  <2>3. w \in WordSet /\ w.h \in AlwaysLast
    BY <2>2, WordTyped
  <2> HIDE DEF w
  <2>4. IsLast(w, r) = "last"
    BY <2>3, AlwaysIsLast
  <2> QED
    BY <2>1, <2>3, <2>4, ProperOne DEF w
<1>7. CASE r.cmd = "WatchGlobal"
  BY <1>7, ProperNone, Zenon DEF Answers
<1>8. CASE r.cmd \in {"PersistentRequestRemoved ", "ModifyPersistentRequest "}
  <2>1. a \in {<<>>, Words(<<"ProtocolError">>)}
    BY <1>8, Zenon DEF Answers
  <2> QED
    BY <2>1, ProperNone, EndsAlone DEF AlwaysLast
<1>9. CASE r.cmd = "SubscribeUSK"
  <2>1. a \in {<<>>, Words(<<"SubscribedUSKUpdate">>)}
    BY <1>9, Zenon DEF Answers
  <2>2. "SubscribedUSKUpdate" \in Headers /\ "" \in Codes /\ "SubscribedUSKUpdate" \in NeverLast
    BY DEF Headers, NeverLast, Codes
  <2> DEFINE w == Word("SubscribedUSKUpdate")
  <2>3. w \in WordSet /\ w.h \in NeverLast
    BY <2>2, WordTyped
  <2> HIDE DEF w
  <2>4. IsLast(w, r) = "more"
    BY <2>3, NeverIsMore
  <2>5. Proper(<<w>>, r)
    BY <2>3, <2>4, ProperOne
  <2> QED
    BY <2>1, <2>5, ProperNone, OneWord DEF w
<1>10. CASE r.cmd = "ClientPut"
  <2>1. a \in PutAnswers
    BY <1>10, Zenon DEF Answers
  <2> QED
    BY <2>1, PutAnswersProper
<1>11. CASE r.cmd = "ClientGet"
  <2>1. a \in GetAnswers(r)
    BY <1>11, Zenon DEF Answers
  <2> QED
    BY <1>11, <2>1, RequestKinds, GetAnswersProper
<1> QED
  BY <1>0, <1>1, <1>2, <1>3, <1>4, <1>5, <1>6, <1>7, <1>8, <1>9, <1>10, <1>11
     DEF Commands, PlainCommands

-----------------------------------------------------------------------------
(* The inductive invariant.                                                 *)

\* What the identifiers, the messages on the connection and those in tickets are.
Ids == {r.id : r \in Requests} \cup {CreatedTicket.id}
Messages ==
  [h : Headers \cup {"data"}, code : Codes, id : Ids, global : BOOLEAN, re : 0 .. MaxJobs]
StoredSet == [h : Headers, code : Codes, re : 0 .. MaxJobs, last : BOOLEAN]

\* How many requests have left the queue.
Taken == started - Len(queue)

\* The queue holds the latest requests and the connection got the earliest, in
\* order; between them at most those a failed send swallowed.
QueueInv ==
  /\ started \in 0 .. MaxJobs
  /\ queue \in Seq(Jobs) /\ sent \in Seq(Jobs)
  /\ Len(sent) <= Taken
  /\ mgr # "failed" => Len(sent) = Taken
  /\ \A i \in DOMAIN queue : queue[i] = Taken + i
  /\ \A i \in DOMAIN sent : sent[i] = i

\* Everything the node says, and what is on the connection, is well formed;
\* nothing is said to a request that is still in the queue.
WireInv ==
  /\ attr \in [0 .. MaxJobs -> Requests \cup {CreatedTicket}]
  /\ \A j \in 1 .. started : attr[j] \in Requests
  /\ script \in [0 .. MaxJobs -> Seq(WordSet)]
  /\ pos \in [0 .. MaxJobs -> Nat]
  /\ \A j \in 0 .. MaxJobs : pos[j] <= Len(script[j])
  /\ \A j \in Jobs : j > Taken => script[j] = <<>>
  /\ inbox \in Seq(Messages)
  /\ \A i \in DOMAIN inbox : inbox[i].h = "AllData" => i + 1 \in DOMAIN inbox

\* MapExact, stated with the order of the requests.
MapInv ==
  /\ jobs \in [Keys -> 0 .. NoTicket]
  /\ finished \in [Jobs -> BOOLEAN]
  /\ clashed \subseteq Keys
  /\ \A j \in Jobs : j > Taken => ~finished[j]
  /\ \A k \in Keys : jobs[k] \in Jobs =>
       Key(jobs[k]) = k /\ ~finished[jobs[k]] /\ jobs[k] <= Taken
  /\ \A j \in Jobs : j <= Len(sent) =>
       \/ finished[j] \/ Key(j) \in clashed
       \/ attr[j].cmd = "WatchGlobal" \/ jobs[Key(j)] = j

\* A ticket is finished exactly when the last message is in it.
TicketInv ==
  /\ resp \in [Jobs -> Seq(StoredSet)]
  /\ view \in [Jobs -> Seq(StoredSet)]
  /\ \A j \in Jobs : finished[j] <=> resp[j] # <<>> /\ resp[j][Len(resp[j])].last

\* A client inside an operation waits for a request of its own.
ClientInv ==
  /\ cpc \in [Clients -> {"idle", "wait", "read"}]
  /\ cur \in [Clients -> 0 .. MaxJobs]
  /\ outcome \in [Jobs -> {"none", "ticket", "ok", "error", "timeout", "failure"}]
  /\ \A c \in Clients : IF cpc[c] = "idle" THEN cur[c] = 0 ELSE cur[c] \in 1 .. started
  /\ \A c, d \in Clients : cur[c] # 0 /\ cur[c] = cur[d] => c = d
  /\ \A c \in Clients : cpc[c] = "read" => finished[cur[c]]
  /\ \A c \in Clients : cur[c] # 0 => outcome[cur[c]] = "none"
  /\ \A j \in Jobs : j > started => outcome[j] = "none"

\* All of it.
IInv == QueueInv /\ WireInv /\ MapInv /\ TicketInv /\ ClientInv

-----------------------------------------------------------------------------
(* What the steps do to sequences.                                          *)

\* A sequence without its first element.
LEMMA TailOf ==
  ASSUME NEW S, NEW s \in Seq(S), s # <<>>
  PROVE  /\ Head(s) \in S /\ Head(s) = s[1] /\ Len(s) \in Nat \ {0}
         /\ Tail(s) \in Seq(S) /\ Len(Tail(s)) = Len(s) - 1
         /\ \A i \in 1 .. Len(s) - 1 : Tail(s)[i] = s[i + 1]
         /\ DOMAIN s = 1 .. Len(s) /\ DOMAIN Tail(s) = 1 .. Len(s) - 1
  OBVIOUS

\* A sequence with one more element at its end.
LEMMA AppendOf ==
  ASSUME NEW S, NEW s \in Seq(S), NEW e \in S
  PROVE  /\ Append(s, e) \in Seq(S) /\ Len(Append(s, e)) = Len(s) + 1
         /\ Append(s, e) # <<>> /\ Append(s, e)[Len(s) + 1] = e
         /\ \A i \in 1 .. Len(s) : Append(s, e)[i] = s[i]
         /\ DOMAIN s = 1 .. Len(s) /\ DOMAIN Append(s, e) = 1 .. Len(s) + 1
         /\ Len(s) \in Nat
  OBVIOUS

\* The manager takes the first request of the queue: it is the next one in
\* the order, and the connection has got none from there on.
LEMMA HeadIsNext ==
  ASSUME QueueInv, queue # <<>>
  PROVE  /\ Head(queue) = Taken + 1 /\ Head(queue) \in Jobs /\ Head(queue) <= started
         /\ Taken \in Nat /\ Len(sent) \in Nat
         /\ Len(Tail(queue)) = Len(queue) - 1
<1>1. Head(queue) \in Jobs /\ Head(queue) = queue[1] /\ 1 \in DOMAIN queue
      /\ Len(queue) \in Nat \ {0} /\ Len(Tail(queue)) = Len(queue) - 1
  BY TailOf DEF QueueInv
<1>2. Head(queue) = Taken + 1
  BY <1>1 DEF QueueInv
<1>3. Len(sent) \in Nat /\ Taken \in Int /\ Len(sent) <= Taken
  BY <1>1, NodeThreadAssumption DEF QueueInv, Taken
<1> QED
  BY <1>1, <1>2, <1>3, NodeThreadAssumption DEF QueueInv, Taken

\* The identifiers of requests are keys.
LEMMA KeysOfJobs ==
  ASSUME WireInv, NEW j \in 0 .. MaxJobs
  PROVE  Key(j) \in Keys /\ attr[j].id \in Ids /\ attr[j].global \in BOOLEAN
<1>1. attr[j] \in Requests \/ attr[j] = CreatedTicket
  BY DEF WireInv
<1>2. attr[j].global \in BOOLEAN
  BY <1>1, NodeThreadAssumption, RequestKinds DEF CreatedTicket, Command
<1>3. attr[j].id \in Ids
  BY <1>1 DEF Ids
<1> QED
  BY <1>2, <1>3 DEF Key, Keys, Ids

\* What the manager may do with a message.
LEMMA DoMessageCases ==
  ASSUME IInv, DoMessage
  PROVE  \E m \in Messages :
           /\ <<m.global, m.id>> \in Keys
           /\ \/ mgr' \in {"failed", "crashed"} /\ UNCHANGED <<jobs, resp, finished>>
              \/ jobs[<<m.global, m.id>>] = NoTicket /\ NotFound(m)
              \/ /\ m.h \in Headers /\ jobs[<<m.global, m.id>>] \in 0 .. MaxJobs
                 /\ \E last \in BOOLEAN : Deliver(m, jobs[<<m.global, m.id>>], last)
<1> DEFINE m == Head(inbox)
           k == <<m.global, m.id>>
           j == jobs[k]
<1>1. m \in Messages
  BY TailOf DEF DoMessage, IInv, WireInv
<1>2. k \in Keys
  BY <1>1 DEF Messages, Keys, Ids
<1>3. j \in 0 .. MaxJobs \/ j = NoTicket
  BY <1>2, NodeThreadAssumption DEF IInv, MapInv, NoTicket
<1> DEFINE last == IsLast(m, attr[j]) = "last"
<1>4. \/ mgr' \in {"failed", "crashed"} /\ UNCHANGED <<jobs, resp, finished>>
      \/ j = NoTicket /\ NotFound(m)
      \/ m.h \in Headers /\ j # NoTicket /\ Deliver(m, j, last)
  BY DEF DoMessage, ManagerEnds
<1>5. last \in BOOLEAN
  OBVIOUS
<1> HIDE DEF m, last
<1> QED
  BY <1>1, <1>2, <1>3, <1>4, <1>5

-----------------------------------------------------------------------------
(* The invariant holds initially.                                           *)

\* It holds at first.
LEMMA InitIInv == Init => IInv
<1> SUFFICES ASSUME Init PROVE IInv
  OBVIOUS
<1> USE NodeThreadAssumption DEF Init
<1>1. QueueInv
  <2>1. queue \in Seq(Jobs) /\ sent \in Seq(Jobs) /\ Len(queue) = 0 /\ Len(sent) = 0
        /\ DOMAIN queue = {} /\ DOMAIN sent = {}
    OBVIOUS
  <2>3. started = 0 /\ started \in 0 .. MaxJobs /\ mgr = "poll"
    OBVIOUS
  <2> HIDE DEF Init
  <2>2. Taken = 0
    BY <2>1, <2>3 DEF Taken
  <2> QED
    BY <2>1, <2>2, <2>3 DEF QueueInv
<1>2. WireInv
  <2>1. GlobalUpdates \in Seq(WordSet) /\ <<>> \in Seq(WordSet)
    BY DEF WordSet
  <2>2. script \in [0 .. MaxJobs -> Seq(WordSet)]
    BY <2>1
  <2>3. \A j \in 0 .. MaxJobs : 0 <= Len(script[j])
    BY <2>2
  <2> QED
    BY <2>2, <2>3 DEF WireInv, Jobs
<1>3. MapInv
  BY DEF MapInv, NoTicket, Jobs, Taken
<1>4. TicketInv
  BY DEF TicketInv
<1>5. ClientInv
  BY DEF ClientInv
<1> QED
  BY <1>1, <1>2, <1>3, <1>4, <1>5 DEF IInv

-----------------------------------------------------------------------------
(* Every step keeps the order of the requests.                              *)

\* A call numbers its request; the manager's place in the order is the same.
LEMMA CallTaken ==
  ASSUME QueueInv, NEW c \in Clients, NEW r \in Requests, Call(c, r)
  PROVE  /\ started' = started + 1 /\ started' \in Jobs /\ started \in Nat
         /\ queue' = Append(queue, started') /\ queue' \in Seq(Jobs)
         /\ Len(queue') = Len(queue) + 1
         /\ Taken' = Taken /\ Taken \in 0 .. started
<1>1. started' = started + 1 /\ started' \in Jobs /\ started \in Nat
      /\ queue' = Append(queue, started')
  BY NodeThreadAssumption DEF Call, QueueInv, Jobs, Enqueue
<1>2. queue' \in Seq(Jobs) /\ Len(queue') = Len(queue) + 1 /\ Len(queue) \in Nat
  BY <1>1, AppendOf DEF QueueInv
<1>3. Taken \in 0 .. started
  BY <1>1, <1>2 DEF QueueInv, Taken
<1> QED
  BY <1>1, <1>2, <1>3 DEF Taken

\* Sending takes one request.
LEMMA SendTaken ==
  ASSUME QueueInv, SendClientReq
  PROVE  /\ Head(queue) = Taken + 1 /\ Head(queue) \in Jobs /\ Head(queue) <= started
         /\ Taken' = Taken + 1 /\ started' = started
         /\ Taken \in Nat /\ Len(sent) = Taken
         /\ queue' = Tail(queue) /\ Len(queue') = Len(queue) - 1
<1>1. queue # <<>> /\ mgr = "queue" /\ queue' = Tail(queue) /\ started' = started
  BY DEF SendClientReq, Dequeue
<1>2. Taken' = Taken + 1
  BY <1>1, HeadIsNext DEF QueueInv, Taken
<1> QED
  BY <1>1, <1>2, HeadIsNext DEF QueueInv

\* A step that leaves queue and connection alone.
LEMMA QueueKept ==
  ASSUME QueueInv, UNCHANGED <<started, queue, sent>>,
         \/ mgr' = mgr
         \/ mgr # "failed" /\ mgr' \in {"poll", "queue", "crashed"}
         \/ mgr' = "failed"
  PROVE  QueueInv' /\ Taken' = Taken
<1>1. Taken' = Taken
  BY DEF Taken
<1> QED
  BY <1>1 DEF QueueInv

\* Every step keeps QueueInv.
LEMMA QueueStep ==
  ASSUME IInv, [Next]_vars
  PROVE  QueueInv'
<1>0. QueueInv
  BY DEF IInv
<1>1. ASSUME NEW c \in Clients, NEW r \in Requests, Call(c, r) PROVE QueueInv'
  <2>1. sent' = sent /\ mgr' = mgr
    BY <1>1 DEF Call, node
  <2>2. queue \in Seq(Jobs) /\ started' \in Jobs /\ queue' = Append(queue, started')
    BY <1>0, <1>1, CallTaken DEF QueueInv
  <2>3. DOMAIN queue = 1 .. Len(queue) /\ DOMAIN queue' = 1 .. Len(queue) + 1
        /\ (\A i \in 1 .. Len(queue) : queue'[i] = queue[i])
        /\ queue'[Len(queue) + 1] = started' /\ Len(queue) \in Nat
    BY <2>2, AppendOf
  <2>4. Taken + Len(queue) + 1 = started' /\ Taken \in Nat /\ Taken' = Taken
    BY <1>0, <1>1, <2>3, CallTaken DEF Taken
  <2>5. ASSUME NEW i \in DOMAIN queue' PROVE queue'[i] = Taken + i
    <3>1. CASE i \in 1 .. Len(queue)
      BY <1>0, <2>3, <3>1 DEF QueueInv
    <3>2. CASE i = Len(queue) + 1
      BY <2>3, <2>4, <3>2
    <3> QED
      BY <2>3, <3>1, <3>2
  <2>6. started' \in 0 .. MaxJobs /\ queue' \in Seq(Jobs)
    BY <1>0, <1>1, CallTaken DEF Jobs
  <2> QED
    BY <1>0, <2>1, <2>4, <2>5, <2>6 DEF QueueInv
<1>2. ASSUME SendClientReq PROVE QueueInv'
  <2>1. queue \in Seq(Jobs) /\ sent \in Seq(Jobs) /\ queue # <<>> /\ queue' = Tail(queue)
    BY <1>0, <1>2 DEF QueueInv, SendClientReq, Dequeue
  <2>2. /\ queue' \in Seq(Jobs) /\ DOMAIN queue' = 1 .. Len(queue) - 1
        /\ \A i \in 1 .. Len(queue) - 1 : queue'[i] = queue[i + 1]
        /\ DOMAIN queue = 1 .. Len(queue) /\ Len(queue) \in Nat
    BY <2>1, TailOf
  <2>3. /\ Taken' = Taken + 1 /\ Taken \in Nat /\ Len(sent) = Taken
        /\ Head(queue) = Taken + 1 /\ Head(queue) \in Jobs
        /\ started' = started
    BY <1>0, <1>2, SendTaken
  <2>4. ASSUME NEW i \in DOMAIN queue' PROVE queue'[i] = Taken' + i
    <3>1. i \in Nat /\ i + 1 \in DOMAIN queue /\ queue'[i] = queue[i + 1]
      BY <2>2
    <3>2. queue[i + 1] = Taken + (i + 1)
      BY <1>0, <3>1 DEF QueueInv
    <3> QED
      BY <2>3, <3>1, <3>2
  <2>5. CASE mgr' = "poll" /\ sent' = Append(sent, Head(queue))
    <3>1. /\ sent' \in Seq(Jobs) /\ Len(sent') = Len(sent) + 1
          /\ DOMAIN sent = 1 .. Len(sent) /\ DOMAIN sent' = 1 .. Len(sent) + 1
          /\ sent'[Len(sent) + 1] = Head(queue)
          /\ \A i \in 1 .. Len(sent) : sent'[i] = sent[i]
      BY <2>1, <2>3, <2>5, AppendOf
    <3>2. \A i \in DOMAIN sent' : sent'[i] = i
      BY <1>0, <2>3, <3>1 DEF QueueInv
    <3> QED
      BY <1>0, <2>2, <2>3, <2>4, <2>5, <3>1, <3>2 DEF QueueInv
  <2>6. CASE mgr' = "failed" /\ sent' = sent
    BY <1>0, <2>2, <2>3, <2>4, <2>6 DEF QueueInv
  <2> QED
    BY <1>2, <2>5, <2>6 DEF SendClientReq
<1>3. ASSUME NEW c \in Clients, ClientStep(c) PROVE QueueInv'
  <2>1. UNCHANGED <<started, queue, sent, mgr>>
    BY <1>3 DEF ClientStep, WaitOver, GetResponse, GiveUp, manager, node
  <2> QED
    BY <1>0, <2>1, QueueKept
<1>4. ASSUME DoMessage PROVE QueueInv'
  <2>1. UNCHANGED <<started, queue, sent>> /\ mgr = "poll"
    BY <1>4 DEF DoMessage, node
  <2>2. mgr' \in {"failed", "crashed", "queue"}
    BY <1>4, DoMessageCases DEF NotFound, Deliver
  <2> QED
    BY <1>0, <2>1, <2>2, QueueKept
<1>5. ASSUME NoMessage \/ SocketFails \/ NoRequest PROVE QueueInv'
  <2>1. UNCHANGED <<started, queue, sent>> /\ mgr # "failed"
        /\ mgr' \in {"poll", "queue", "failed"}
    BY <1>5 DEF NoMessage, SocketFails, NoRequest, node
  <2> QED
    BY <1>0, <2>1, QueueKept
<1>6. ASSUME NEW j \in 0 .. MaxJobs, NodeAnswers(j) PROVE QueueInv'
  <2>1. UNCHANGED <<started, queue, sent, mgr>>
    BY <1>6 DEF NodeAnswers, manager
  <2> QED
    BY <1>0, <2>1, QueueKept
<1>7. ASSUME UNCHANGED vars PROVE QueueInv'
  <2>1. UNCHANGED <<started, queue, sent, mgr>>
    BY <1>7 DEF vars, manager, node
  <2> QED
    BY <1>0, <2>1, QueueKept
<1> QED
  BY <1>1, <1>2, <1>3, <1>4, <1>5, <1>6, <1>7 DEF Next, Manager

-----------------------------------------------------------------------------
(* Every step keeps the conversations and the connection well formed.       *)

\* Whatever the node chooses to say to a request are messages with headers the
\* library knows.
LEMMA ConversationsTyped ==
  ASSUME NEW j, attr[j] \in Requests, NEW s \in Conversations(j)
  PROVE  s \in Seq(WordSet)
<1>1. Words(<<"IdentifierCollision">>) \in Seq(WordSet)
  BY EndsAlone DEF Proper, AlwaysLast
<1>2. Answers(attr[j]) \subseteq Seq(WordSet)
  BY NodeThreadAssumption, AnswersProper DEF Proper
<1> QED
  BY <1>1, <1>2 DEF Conversations

\* What the node says is a message of the connection.
LEMMA MessageTyped ==
  ASSUME WireInv, NEW j \in 0 .. MaxJobs, pos[j] < Len(script[j])
  PROVE  /\ Message(j, pos[j] + 1) \in Messages
         /\ [Message(j, pos[j] + 1) EXCEPT !.h = "data"] \in Messages
<1>1. script[j] \in Seq(WordSet) /\ pos[j] \in Nat
  BY DEF WireInv
<1>2. script[j][pos[j] + 1] \in WordSet
  BY <1>1
<1>3. attr[j].id \in Ids /\ attr[j].global \in BOOLEAN
  BY KeysOfJobs
<1> QED
  BY <1>2, <1>3 DEF Message, Messages, WordSet

\* Every step keeps WireInv.
LEMMA WireStep ==
  ASSUME IInv, [Next]_vars
  PROVE  WireInv'
<1>0. QueueInv /\ WireInv
  BY DEF IInv
<1>1. ASSUME NEW c \in Clients, NEW r \in Requests, Call(c, r) PROVE WireInv'
  <2>1. UNCHANGED <<script, pos, inbox>> /\ attr' = [attr EXCEPT ![started'] = r]
    BY <1>1 DEF Call, node
  <2>2. Taken' = Taken /\ started' = started + 1 /\ started' \in Jobs /\ started \in Nat
    BY <1>0, <1>1, CallTaken
  <2>3. attr' \in [0 .. MaxJobs -> Requests \cup {CreatedTicket}]
        /\ \A j \in 1 .. started' : attr'[j] \in Requests
    BY <1>0, <2>1, <2>2, NodeThreadAssumption DEF WireInv, Jobs
  <2> QED
    BY <1>0, <2>1, <2>2, <2>3 DEF WireInv
<1>2. ASSUME SendClientReq PROVE WireInv'
  <2>1. UNCHANGED <<attr, pos, inbox>>
    BY <1>2 DEF SendClientReq, ticket
  <2>2. Taken' = Taken + 1 /\ started' = started /\ Taken \in Nat
    BY <1>0, <1>2, SendTaken
  <2> DEFINE j == Head(queue)
  <2>3. j = Taken + 1 /\ j \in Jobs /\ j \in 1 .. started
    BY <1>0, <1>2, SendTaken DEF QueueInv, Jobs
  <2>4. CASE \E s \in Conversations(j) : script' = [script EXCEPT ![j] = s]
    <3>1. PICK s \in Conversations(j) : script' = [script EXCEPT ![j] = s]
      BY <2>4
    <3>2. s \in Seq(WordSet)
      BY <1>0, <2>3, ConversationsTyped DEF WireInv
    <3>3. script[j] = <<>> /\ pos[j] \in Nat /\ pos[j] <= Len(script[j])
      BY <1>0, <2>2, <2>3 DEF WireInv, Jobs
    <3>4. pos[j] = 0 /\ Len(s) >= 0
      BY <3>2, <3>3
    <3>5. script' \in [0 .. MaxJobs -> Seq(WordSet)]
      BY <1>0, <3>1, <3>2 DEF WireInv
    <3>6. \A i \in 0 .. MaxJobs : pos'[i] <= Len(script'[i])
      BY <1>0, <2>1, <3>1, <3>2, <3>4 DEF WireInv
    <3>7. \A i \in Jobs : i > Taken' => script'[i] = <<>>
      BY <1>0, <2>2, <2>3, <3>1 DEF WireInv, Jobs
    <3> QED
      BY <1>0, <2>1, <2>2, <3>5, <3>6, <3>7 DEF WireInv
  <2>5. CASE script' = script
    BY <1>0, <2>1, <2>2, <2>5 DEF WireInv, Jobs
  <2> QED
    BY <1>2, <2>4, <2>5 DEF SendClientReq
<1>3. ASSUME UNCHANGED <<started, queue, attr, script, pos, inbox>> PROVE WireInv'
  <2>1. Taken' = Taken
    BY <1>3 DEF Taken
  <2> QED
    BY <1>0, <1>3, <2>1 DEF WireInv
<1>4. ASSUME NEW c \in Clients, ClientStep(c) PROVE WireInv'
  <2>1. UNCHANGED <<started, queue, attr, script, pos, inbox>>
    BY <1>4 DEF ClientStep, WaitOver, GetResponse, GiveUp, manager, node, ticket
  <2> QED
    BY <1>3, <2>1
<1>5. ASSUME DoMessage PROVE WireInv'
  <2>1. UNCHANGED <<started, queue, attr, script, pos>> /\ inbox # <<>>
        /\ \/ inbox' = Tail(inbox)
           \/ inbox[1].h = "AllData" /\ inbox' = Tail(Tail(inbox))
    <3>1. Head(inbox) = inbox[1]
      BY <1>0, <1>5, TailOf DEF WireInv, DoMessage
    <3> QED
      BY <1>5, <3>1 DEF DoMessage, node
  <2>2. Taken' = Taken
    BY <2>1 DEF Taken
  <2>3. /\ Tail(inbox) \in Seq(Messages) /\ Len(Tail(inbox)) = Len(inbox) - 1
        /\ \A i \in 1 .. Len(inbox) - 1 : Tail(inbox)[i] = inbox[i + 1]
        /\ DOMAIN inbox = 1 .. Len(inbox) /\ DOMAIN Tail(inbox) = 1 .. Len(inbox) - 1
        /\ Len(inbox) \in Nat \ {0}
    BY <1>0, <2>1, TailOf DEF WireInv
  <2>4. \A i \in DOMAIN Tail(inbox) : Tail(inbox)[i].h = "AllData" => i + 1 \in DOMAIN Tail(inbox)
    <3> SUFFICES ASSUME NEW i \in 1 .. Len(inbox) - 1, inbox[i + 1].h = "AllData"
                 PROVE  i + 1 \in 1 .. Len(inbox) - 1
      BY <2>3
    <3>1. i + 1 \in DOMAIN inbox
      BY <2>3
    <3>2. (i + 1) + 1 \in DOMAIN inbox
      BY <1>0, <3>1 DEF WireInv
    <3> QED
      BY <2>3, <3>2
  <2>5. CASE inbox' = Tail(inbox)
    BY <1>0, <2>1, <2>2, <2>3, <2>4, <2>5 DEF WireInv
  <2>6. CASE inbox[1].h = "AllData" /\ inbox' = Tail(Tail(inbox))
    <3>1. 1 + 1 \in DOMAIN inbox
      BY <1>0, <2>3, <2>6 DEF WireInv
    <3> DEFINE s == Tail(inbox)
    <3>6. Len(s) # 0 /\ s \in Seq(Messages)
      BY <2>3, <3>1
    <3> HIDE DEF s
    <3>2. s # <<>> /\ s \in Seq(Messages)
      BY <3>6
    <3>3. /\ Tail(s) \in Seq(Messages)
          /\ \A i \in 1 .. Len(s) - 1 : Tail(s)[i] = s[i + 1]
          /\ DOMAIN s = 1 .. Len(s) /\ DOMAIN Tail(s) = 1 .. Len(s) - 1
          /\ Len(s) \in Nat \ {0}
      BY <3>2, TailOf
    <3>4. \A i \in DOMAIN Tail(s) : Tail(s)[i].h = "AllData" => i + 1 \in DOMAIN Tail(s)
      <4> SUFFICES ASSUME NEW i \in 1 .. Len(s) - 1, s[i + 1].h = "AllData"
                   PROVE  i + 1 \in 1 .. Len(s) - 1
        BY <3>3
      <4>1. i + 1 \in DOMAIN s
        BY <3>3
      <4>2. (i + 1) + 1 \in DOMAIN s
        BY <2>4, <4>1 DEF s
      <4> QED
        BY <3>3, <4>2
    <3>5. inbox' = Tail(s)
      BY <2>6 DEF s
    <3> QED
      BY <1>0, <2>1, <2>2, <3>3, <3>4, <3>5 DEF WireInv
  <2> QED
    BY <2>1, <2>5, <2>6
<1>6. ASSUME NoMessage \/ SocketFails \/ NoRequest PROVE WireInv'
  <2>1. UNCHANGED <<started, queue, attr, script, pos, inbox>>
    BY <1>6 DEF NoMessage, SocketFails, NoRequest, node, ticket
  <2> QED
    BY <1>3, <2>1
<1>7. ASSUME NEW j \in 0 .. MaxJobs, NodeAnswers(j) PROVE WireInv'
  <2> DEFINE m == Message(j, pos'[j])
             d == [m EXCEPT !.h = "data"]
             words == IF m.h = "AllData" THEN <<m, d>> ELSE <<m>>
  <2>1. /\ UNCHANGED <<started, queue, attr, script>>
        /\ pos[j] < Len(script[j]) /\ pos' = [pos EXCEPT ![j] = @ + 1]
    BY <1>7 DEF NodeAnswers, manager, ticket
  <2>2. pos'[j] = pos[j] + 1
    BY <1>0, <2>1 DEF WireInv
  <2>3. inbox' = inbox \o words
    BY <1>7 DEF NodeAnswers
  <2>4. m \in Messages /\ d \in Messages /\ d.h # "AllData"
    BY <1>0, <2>1, <2>2, MessageTyped DEF Messages
  <2>5. Taken' = Taken
    BY <2>1 DEF Taken
  <2>6. pos' \in [0 .. MaxJobs -> Nat] /\ \A i \in 0 .. MaxJobs : pos'[i] <= Len(script'[i])
    <3>1. Len(script[j]) \in Nat
      BY <1>0 DEF WireInv
    <3> QED
      BY <1>0, <2>1, <3>1 DEF WireInv
  <2>7. inbox' \in Seq(Messages)
        /\ \A i \in DOMAIN inbox' : inbox'[i].h = "AllData" => i + 1 \in DOMAIN inbox'
    <3> HIDE DEF m, d
    <3>1. inbox \in Seq(Messages) /\ DOMAIN inbox = 1 .. Len(inbox) /\ Len(inbox) \in Nat
      BY <1>0 DEF WireInv
    <3>2. CASE m.h = "AllData"
      <4>1. inbox' = inbox \o <<m, d>> /\ <<m, d>> \in Seq(Messages)
        BY <2>3, <2>4, <3>2
      <4>2. /\ inbox' \in Seq(Messages) /\ DOMAIN inbox' = 1 .. Len(inbox) + 2
            /\ \A i \in 1 .. Len(inbox) : inbox'[i] = inbox[i]
            /\ inbox'[Len(inbox) + 2] = d
        BY <3>1, <4>1
      <4> QED
        BY <1>0, <2>4, <3>1, <4>2 DEF WireInv
    <3>3. CASE m.h # "AllData"
      <4>1. inbox' = inbox \o <<m>> /\ <<m>> \in Seq(Messages)
        BY <2>3, <2>4, <3>3
      <4>2. /\ inbox' \in Seq(Messages) /\ DOMAIN inbox' = 1 .. Len(inbox) + 1
            /\ \A i \in 1 .. Len(inbox) : inbox'[i] = inbox[i]
            /\ inbox'[Len(inbox) + 1] = m
        BY <3>1, <4>1
      <4> QED
        BY <1>0, <3>1, <3>3, <4>2 DEF WireInv
    <3> QED
      BY <3>2, <3>3
  <2> QED
    BY <1>0, <2>1, <2>5, <2>6, <2>7 DEF WireInv
<1>8. ASSUME UNCHANGED vars PROVE WireInv'
  <2>1. UNCHANGED <<started, queue, attr, script, pos, inbox>>
    BY <1>8 DEF vars, manager, node, ticket
  <2> QED
    BY <1>3, <2>1
<1> QED
  BY <1>1, <1>2, <1>4, <1>5, <1>6, <1>7, <1>8 DEF Next, Manager

-----------------------------------------------------------------------------
(* Every step keeps the map right.                                          *)

\* A message that reaches a ticket erases it from the map exactly when it
\* finishes it; one that reaches none at most puts a ticket of the global queue
\* where there was none.
LEMMA MapDoMessage ==
  ASSUME IInv, DoMessage
  PROVE  MapInv'
<1>0. QueueInv /\ WireInv /\ MapInv
  BY DEF IInv
<1>1. UNCHANGED <<started, queue, attr, clashed, sent>> /\ Taken' = Taken
  BY DEF DoMessage, node, Taken
<1>2. PICK m \in Messages :
        /\ <<m.global, m.id>> \in Keys
        /\ \/ mgr' \in {"failed", "crashed"} /\ UNCHANGED <<jobs, resp, finished>>
           \/ jobs[<<m.global, m.id>>] = NoTicket /\ NotFound(m)
           \/ /\ m.h \in Headers /\ jobs[<<m.global, m.id>>] \in 0 .. MaxJobs
              /\ \E last \in BOOLEAN : Deliver(m, jobs[<<m.global, m.id>>], last)
  BY DoMessageCases
<1> DEFINE k == <<m.global, m.id>>
<1>3. NoTicket \notin Jobs /\ 0 \notin Jobs /\ NoTicket # 0 /\ {0, NoTicket} \subseteq 0 .. NoTicket
  BY NodeThreadAssumption DEF NoTicket, Jobs
<1>4. \A j \in Jobs : Key(j) \in Keys /\ Key(j)' = Key(j)
  <2>1. \A j \in Jobs : j \in 0 .. MaxJobs
    BY DEF Jobs
  <2> QED
    BY <1>0, <1>1, <2>1, KeysOfJobs DEF Key
<1>5. CASE UNCHANGED <<jobs, finished>>
  BY <1>0, <1>1, <1>4, <1>5 DEF MapInv
<1>6. CASE jobs[k] = NoTicket /\ finished' = finished /\ jobs' = [jobs EXCEPT ![k] = 0]
  <2>1. jobs' \in [Keys -> 0 .. NoTicket]
    BY <1>0, <1>3, <1>6 DEF MapInv
  <2>2. \A q \in Keys : jobs'[q] = jobs[q] \/ (jobs'[q] = 0 /\ jobs[q] = NoTicket)
    BY <1>0, <1>6 DEF MapInv
  <2> QED
    BY <1>0, <1>1, <1>3, <1>4, <1>6, <2>1, <2>2 DEF MapInv
<1>7. ASSUME NEW last \in BOOLEAN, jobs[k] \in 0 .. MaxJobs, Deliver(m, jobs[k], last)
      PROVE  MapInv'
  <2> DEFINE n == jobs[k]
  <2>1. k \in Keys
    BY <1>2
  <2>2. CASE last
    <3>1. jobs' = [jobs EXCEPT ![k] = NoTicket]
      BY <1>7, <2>2 DEF Deliver, Erase
    <3>2. jobs' \in [Keys -> 0 .. NoTicket] /\ jobs'[k] = NoTicket
          /\ \A q \in Keys : q # k => jobs'[q] = jobs[q]
      BY <1>0, <1>3, <2>1, <3>1 DEF MapInv
    <3>3. CASE n = 0
      <4>1. finished' = finished
        BY <1>7, <3>3 DEF Deliver
      <4>2. \A j \in Jobs : jobs[Key(j)] = j => Key(j) # k
        BY <1>3, <3>3
      <4> QED
        BY <1>0, <1>1, <1>3, <1>4, <3>2, <4>1, <4>2 DEF MapInv
    <3>4. CASE n # 0
      <4>1. n \in Jobs
        BY <1>7, <3>4, NodeThreadAssumption DEF Jobs
      <4>2. finished' = [finished EXCEPT ![n] = TRUE]
        BY <1>0, <1>7, <2>2, <3>4, <4>1 DEF Deliver, PutResult, MapInv
      <4>3. finished' \in [Jobs -> BOOLEAN] /\ finished'[n] = TRUE
            /\ \A j \in Jobs : j # n => finished'[j] = finished[j]
        BY <1>0, <4>1, <4>2 DEF MapInv
      <4>4. n <= Taken /\ Key(n) = k
        BY <1>0, <2>1, <4>1 DEF MapInv
      <4>5. n \in Nat /\ Taken \in Int
        <5>1. Len(queue) \in Nat /\ started \in Nat
          BY <1>0, NodeThreadAssumption DEF QueueInv
        <5> QED
          BY <4>1, <5>1 DEF Jobs, Taken
      <4>6. \A j \in Jobs : j > Taken' => ~finished'[j]
        BY <1>0, <1>1, <4>3, <4>4, <4>5 DEF MapInv, Jobs
      <4>7. ASSUME NEW q \in Keys, jobs'[q] \in Jobs
            PROVE  Key(jobs[q])' = q /\ ~finished'[jobs'[q]] /\ jobs'[q] <= Taken'
        <5>1. q # k /\ jobs'[q] = jobs[q]
          BY <1>3, <3>2, <4>7
        <5>2. Key(jobs[q]) = q /\ ~finished[jobs[q]] /\ jobs[q] <= Taken
          BY <1>0, <4>7, <5>1 DEF MapInv
        <5>3. jobs[q] # n
          BY <4>4, <5>1, <5>2
        <5>4. Key(jobs[q])' = Key(jobs[q])
          BY <1>1, <5>1 DEF Key
        <5> QED
          BY <1>1, <4>3, <4>7, <5>1, <5>2, <5>3, <5>4
      <4>8. ASSUME NEW j \in Jobs, j <= Len(sent')
            PROVE  \/ finished'[j] \/ Key(j)' \in clashed'
                   \/ attr'[j].cmd = "WatchGlobal" \/ jobs'[Key(j)'] = j
        <5>1. CASE j = n
          BY <4>3, <5>1
        <5>2. CASE j # n
          <6>1. \/ finished[j] \/ Key(j) \in clashed
                \/ attr[j].cmd = "WatchGlobal" \/ jobs[Key(j)] = j
            BY <1>0, <1>1, <4>8 DEF MapInv
          <6>2. jobs[Key(j)] = j => Key(j) # k
            BY <5>2
          <6> QED
            BY <1>1, <1>4, <3>2, <4>3, <5>2, <6>1, <6>2
        <5> QED
          BY <5>1, <5>2
      <4> QED
        BY <1>0, <1>1, <3>2, <4>3, <4>6, <4>7, <4>8 DEF MapInv
    <3> QED
      BY <3>3, <3>4
  <2>3. CASE ~last
    <3>1. jobs' = jobs
      BY <1>7, <2>3 DEF Deliver, Erase
    <3>2. finished' = finished
      BY <1>0, <1>7, <2>3 DEF Deliver, PutResult, MapInv
    <3> QED
      BY <1>5, <3>1, <3>2
  <2> QED
    BY <2>2, <2>3
<1> HIDE DEF k
<1> QED
  BY <1>2, <1>5, <1>6, <1>7 DEF NotFound, k

\* A request that is sent takes the place under its key, and clashes with what
\* it finds there.
LEMMA MapSend ==
  ASSUME IInv, SendClientReq
  PROVE  MapInv'
<1> DEFINE n == Head(queue)
<1>0. QueueInv /\ WireInv /\ MapInv
  BY DEF IInv
<1>1. /\ n = Taken + 1 /\ n \in Jobs /\ Taken' = Taken + 1
      /\ Taken \in Nat /\ Len(sent) = Taken
  BY <1>0, SendTaken
<1>2. /\ UNCHANGED <<attr, finished>>
      /\ jobs' = IF attr[n].cmd # "WatchGlobal" THEN [jobs EXCEPT ![Key(n)] = n] ELSE jobs
      /\ clashed' = IF jobs[Key(n)] # NoTicket /\ attr[n].cmd # "WatchGlobal"
                    THEN clashed \cup {Key(n)} ELSE clashed
      /\ sent' = Append(sent, n) \/ sent' = sent
  BY DEF SendClientReq, ticket
<1>3. Len(sent') <= Taken + 1
  <2>1. sent \in Seq(Jobs)
    BY <1>0 DEF QueueInv
  <2>2. sent' = Append(sent, n) => Len(sent') = Len(sent) + 1
    BY <1>1, <2>1, AppendOf
  <2> QED
    BY <1>1, <1>2, <2>2
<1>4. \A j \in Jobs : Key(j) \in Keys /\ Key(j)' = Key(j)
  <2>1. \A j \in Jobs : j \in 0 .. MaxJobs
    BY DEF Jobs
  <2> QED
    BY <1>0, <1>2, <2>1, KeysOfJobs DEF Key
<1>5. n \in 0 .. NoTicket /\ NoTicket \notin Jobs
  BY <1>1, NodeThreadAssumption DEF NoTicket, Jobs
<1> DEFINE kn == Key(n)
<1>6. kn \in Keys
  BY <1>1, <1>4
<1>7. ~finished[n]
  BY <1>0, <1>1 DEF MapInv, Jobs
<1>8. jobs' \in [Keys -> 0 .. NoTicket] /\ clashed' \subseteq Keys /\ clashed \subseteq clashed'
  BY <1>0, <1>2, <1>5, <1>6 DEF MapInv
<1>9. \A j \in Jobs : j > Taken' => ~finished'[j]
  BY <1>0, <1>1, <1>2 DEF MapInv, Jobs
<1>10. ASSUME NEW q \in Keys, jobs'[q] \in Jobs
       PROVE  Key(jobs[q])' = q /\ ~finished'[jobs'[q]] /\ jobs'[q] <= Taken'
  <2>1. CASE jobs'[q] = jobs[q]
    <3>1. Key(jobs[q]) = q /\ ~finished[jobs[q]] /\ jobs[q] <= Taken
      BY <1>0, <1>10, <2>1 DEF MapInv
    <3>2. Key(jobs[q])' = Key(jobs[q])
      BY <1>2, <2>1 DEF Key
    <3> QED
      BY <1>1, <1>2, <1>10, <2>1, <3>1, <3>2 DEF Jobs
  <2>2. CASE q = kn /\ jobs'[q] = n
    <3>1. Key(jobs[q])' = Key(n)
      BY <1>2, <2>2 DEF Key
    <3> QED
      BY <1>1, <1>2, <1>7, <2>2, <3>1
  <2>3. jobs'[q] = jobs[q] \/ (q = kn /\ jobs'[q] = n)
    BY <1>0, <1>2 DEF MapInv
  <2> QED
    BY <2>1, <2>2, <2>3
<1>11. ASSUME NEW j \in Jobs, j <= Len(sent')
       PROVE  \/ finished'[j] \/ Key(j)' \in clashed'
              \/ attr'[j].cmd = "WatchGlobal" \/ jobs'[Key(j)'] = j
  <2>1. CASE j = n
    BY <1>0, <1>2, <1>4, <1>6, <2>1 DEF MapInv
  <2>2. CASE j # n
    <3>1. j <= Len(sent)
      BY <1>1, <1>3, <1>11, <2>2 DEF Jobs
    <3>2. \/ finished[j] \/ Key(j) \in clashed
          \/ attr[j].cmd = "WatchGlobal" \/ jobs[Key(j)] = j
      BY <1>0, <3>1 DEF MapInv
    <3>3. CASE jobs[Key(j)] = j /\ Key(j) = kn
      <4>1. jobs[kn] # NoTicket
        BY <1>5, <3>3
      <4>2. attr[n].cmd = "WatchGlobal" => jobs' = jobs
        BY <1>2
      <4>3. attr[n].cmd # "WatchGlobal" => kn \in clashed'
        BY <1>2, <4>1
      <4> QED
        BY <1>4, <3>3, <4>2, <4>3
    <3>4. CASE jobs[Key(j)] = j /\ Key(j) # kn
      <4>1. jobs'[Key(j)] = jobs[Key(j)]
        BY <1>0, <1>2, <1>4, <3>4 DEF MapInv
      <4> QED
        BY <1>4, <3>4, <4>1
    <3> QED
      BY <1>2, <1>4, <1>8, <3>2, <3>3, <3>4
  <2> QED
    BY <2>1, <2>2
<1> QED
  BY <1>0, <1>2, <1>8, <1>9, <1>10, <1>11 DEF MapInv

\* Every step keeps MapInv.
LEMMA MapStep ==
  ASSUME IInv, [Next]_vars
  PROVE  MapInv'
<1>0. QueueInv /\ WireInv /\ MapInv
  BY DEF IInv
<1>1. ASSUME NEW c \in Clients, NEW r \in Requests, Call(c, r) PROVE MapInv'
  <2>1. UNCHANGED <<jobs, finished, clashed, sent>> /\ attr' = [attr EXCEPT ![started'] = r]
    BY <1>1 DEF Call, node
  <2>2. /\ Taken' = Taken /\ Taken \in 0 .. started /\ started' = started + 1
        /\ started' \in Jobs /\ started \in Nat
    BY <1>0, <1>1, CallTaken
  <2>3. Len(sent) <= Taken /\ Len(sent) \in Nat
    BY <1>0 DEF QueueInv
  <2>4. \A j \in Jobs : j <= started => attr'[j] = attr[j] /\ Key(j)' = Key(j)
    BY <1>0, <2>1, <2>2 DEF WireInv, Jobs, Key
  <2>5. \A q \in Keys : jobs[q] \in Jobs => Key(jobs[q])' = q
    <3> SUFFICES ASSUME NEW q \in Keys, jobs[q] \in Jobs PROVE Key(jobs[q])' = q
      OBVIOUS
    <3>1. Key(jobs[q]) = q /\ jobs[q] <= Taken
      BY <1>0 DEF MapInv
    <3>2. jobs[q] <= started
      BY <2>2, <3>1 DEF Jobs
    <3>3. Key(jobs[q])' = Key(jobs[q])
      BY <2>1, <2>4, <3>2 DEF Key
    <3> QED
      BY <3>1, <3>3
  <2>6. \A j \in Jobs : j <= Len(sent) => j <= started
    BY <2>2, <2>3 DEF Jobs
  <2> QED
    BY <1>0, <2>1, <2>2, <2>4, <2>5, <2>6 DEF MapInv
<1>2. ASSUME UNCHANGED <<started, queue, sent, attr, jobs, finished, clashed>> PROVE MapInv'
  <2>1. Taken' = Taken
    BY <1>2 DEF Taken
  <2> QED
    BY <1>0, <1>2, <2>1 DEF MapInv, Key
<1>3. ASSUME NEW c \in Clients, ClientStep(c) PROVE MapInv'
  <2>1. UNCHANGED <<started, queue, sent, attr, jobs, finished, clashed>>
    BY <1>3 DEF ClientStep, WaitOver, GetResponse, GiveUp, manager, node, ticket
  <2> QED
    BY <1>2, <2>1
<1>4. ASSUME NoMessage \/ SocketFails \/ NoRequest PROVE MapInv'
  <2>1. UNCHANGED <<started, queue, sent, attr, jobs, finished, clashed>>
    BY <1>4 DEF NoMessage, SocketFails, NoRequest, node, ticket
  <2> QED
    BY <1>2, <2>1
<1>5. ASSUME NEW j \in 0 .. MaxJobs, NodeAnswers(j) PROVE MapInv'
  <2>1. UNCHANGED <<started, queue, sent, attr, jobs, finished, clashed>>
    BY <1>5 DEF NodeAnswers, manager, ticket
  <2> QED
    BY <1>2, <2>1
<1>6. ASSUME UNCHANGED vars PROVE MapInv'
  <2>1. UNCHANGED <<started, queue, sent, attr, jobs, finished, clashed>>
    BY <1>6 DEF vars, manager, node, ticket
  <2> QED
    BY <1>2, <2>1
<1> QED
  BY <1>1, <1>3, <1>4, <1>5, <1>6, MapDoMessage, MapSend DEF Next, Manager

-----------------------------------------------------------------------------
(* Every step keeps the tickets and the clients right.                      *)

\* What DoMessage does to one ticket at most: a message is added to one that is
\* not finished, and finishes it if it is its last.
LEMMA TicketDoMessage ==
  ASSUME IInv, DoMessage
  PROVE  \/ UNCHANGED <<resp, finished>>
         \/ \E n \in Jobs, m \in StoredSet :
              /\ ~finished[n]
              /\ resp' = [resp EXCEPT ![n] = Append(@, m)]
              /\ finished' = [finished EXCEPT ![n] = m.last]
<1>0. MapInv
  BY DEF IInv
<1>1. PICK m \in Messages :
        /\ <<m.global, m.id>> \in Keys
        /\ \/ mgr' \in {"failed", "crashed"} /\ UNCHANGED <<jobs, resp, finished>>
           \/ jobs[<<m.global, m.id>>] = NoTicket /\ NotFound(m)
           \/ /\ m.h \in Headers /\ jobs[<<m.global, m.id>>] \in 0 .. MaxJobs
              /\ \E last \in BOOLEAN : Deliver(m, jobs[<<m.global, m.id>>], last)
  BY DoMessageCases
<1> DEFINE k == <<m.global, m.id>>
           n == jobs[k]
<1>2. ASSUME NEW last \in BOOLEAN, m.h \in Headers, n \in 0 .. MaxJobs, Deliver(m, n, last)
      PROVE  \/ UNCHANGED <<resp, finished>>
             \/ \E i \in Jobs, e \in StoredSet :
                  /\ ~finished[i]
                  /\ resp' = [resp EXCEPT ![i] = Append(@, e)]
                  /\ finished' = [finished EXCEPT ![i] = e.last]
  <2>1. CASE n = 0
    BY <1>2, <2>1 DEF Deliver
  <2>2. CASE n # 0
    <3>1. n \in Jobs
      BY <1>2, <2>2, NodeThreadAssumption DEF Jobs
    <3>2. ~finished[n]
      BY <1>0, <1>1, <3>1 DEF MapInv
    <3> DEFINE e == Stored(m, last)
    <3>3. e \in StoredSet /\ e.last = last
      BY <1>2 DEF Stored, StoredSet, Messages
    <3>4. resp' = [resp EXCEPT ![n] = Append(@, e)]
      BY <1>2, <2>2 DEF Deliver, PutResponse
    <3>5. finished' = [finished EXCEPT ![n] = finished[n] \/ last]
      BY <1>2, <2>2 DEF Deliver, PutResult
    <3>6. (finished[n] \/ last) = last
      BY <3>2
    <3>7. finished' = [finished EXCEPT ![n] = e.last]
      BY <3>3, <3>5, <3>6
    <3> HIDE DEF e, n
    <3> QED
      BY <3>1, <3>2, <3>3, <3>4, <3>7
  <2> QED
    BY <2>1, <2>2
<1>3. CASE UNCHANGED <<resp, finished>>
  BY <1>3
<1> HIDE DEF k
<1> QED
  BY <1>1, <1>2, <1>3 DEF NotFound, k

\* Every step keeps TicketInv.
LEMMA TicketStep ==
  ASSUME IInv, [Next]_vars
  PROVE  TicketInv'
<1>0. QueueInv /\ MapInv /\ TicketInv /\ ClientInv
  BY DEF IInv
<1>1. ASSUME UNCHANGED <<resp, finished, view>> PROVE TicketInv'
  BY <1>0, <1>1 DEF TicketInv
<1>2. ASSUME NEW c \in Clients, GetResponse(c) PROVE TicketInv'
  <2>1. UNCHANGED <<resp, finished>> /\ view' = [view EXCEPT ![cur[c]] = resp[cur[c]]]
        /\ cpc[c] = "read"
    BY <1>2 DEF GetResponse, ticket
  <2>2. cur[c] \in Jobs
    BY <1>0, <2>1 DEF ClientInv, QueueInv, Jobs
  <2>3. view' \in [Jobs -> Seq(StoredSet)]
    BY <1>0, <2>1, <2>2 DEF TicketInv
  <2> QED
    BY <1>0, <2>1, <2>3 DEF TicketInv
<1>3. ASSUME DoMessage PROVE TicketInv'
  <2>1. view' = view
    BY <1>3 DEF DoMessage, client
  <2>2. CASE UNCHANGED <<resp, finished>>
    BY <1>1, <2>1, <2>2
  <2>3. ASSUME NEW n \in Jobs, NEW m \in StoredSet,
               resp' = [resp EXCEPT ![n] = Append(@, m)],
               finished' = [finished EXCEPT ![n] = m.last]
        PROVE  TicketInv'
    <3>1. resp[n] \in Seq(StoredSet)
      BY <1>0 DEF TicketInv
    <3>2. /\ Append(resp[n], m) \in Seq(StoredSet) /\ Append(resp[n], m) # <<>>
          /\ Append(resp[n], m)[Len(Append(resp[n], m))] = m
      BY <3>1, AppendOf
    <3>3. resp' \in [Jobs -> Seq(StoredSet)] /\ resp'[n] = Append(resp[n], m)
          /\ \A j \in Jobs : j # n => resp'[j] = resp[j]
      BY <1>0, <2>3, <3>2 DEF TicketInv
    <3>4. finished'[n] = m.last /\ \A j \in Jobs : j # n => finished'[j] = finished[j]
      BY <1>0, <2>3 DEF MapInv
    <3>5. ASSUME NEW j \in Jobs
          PROVE  finished'[j] <=> resp'[j] # <<>> /\ resp'[j][Len(resp'[j])].last
      <4>1. CASE j = n
        BY <3>2, <3>3, <3>4, <4>1
      <4>2. CASE j # n
        BY <1>0, <3>3, <3>4, <4>2 DEF TicketInv
      <4> QED
        BY <4>1, <4>2
    <3> QED
      BY <1>0, <2>1, <3>3, <3>5 DEF TicketInv
  <2> QED
    BY <1>3, <2>2, <2>3, TicketDoMessage
<1>4. ASSUME NEW c \in Clients, NEW r \in Requests, Call(c, r) PROVE TicketInv'
  BY <1>1, <1>4 DEF Call
<1>5. ASSUME NEW c \in Clients, WaitOver(c) \/ GiveUp(c) PROVE TicketInv'
  <2>1. UNCHANGED <<resp, finished, view>>
    BY <1>5 DEF WaitOver, GiveUp, ticket
  <2> QED
    BY <1>1, <2>1
<1>6. ASSUME NoMessage \/ SocketFails \/ NoRequest \/ SendClientReq PROVE TicketInv'
  <2>1. UNCHANGED <<resp, finished, view>>
    BY <1>6 DEF NoMessage, SocketFails, NoRequest, SendClientReq, ticket, client
  <2> QED
    BY <1>1, <2>1
<1>7. ASSUME NEW j \in 0 .. MaxJobs, NodeAnswers(j) PROVE TicketInv'
  <2>1. UNCHANGED <<resp, finished, view>>
    BY <1>7 DEF NodeAnswers, ticket, client
  <2> QED
    BY <1>1, <2>1
<1>8. ASSUME UNCHANGED vars PROVE TicketInv'
  <2>1. UNCHANGED <<resp, finished, view>>
    BY <1>8 DEF vars, ticket, client
  <2> QED
    BY <1>1, <2>1
<1> QED
  BY <1>2, <1>3, <1>4, <1>5, <1>6, <1>7, <1>8 DEF Next, Manager, ClientStep

\* A finished ticket stays finished.
LEMMA FinishedKept ==
  ASSUME IInv, DoMessage, NEW j \in Jobs, finished[j]
  PROVE  finished'[j]
<1>1. CASE UNCHANGED <<resp, finished>>
  BY <1>1
<1>2. ASSUME NEW n \in Jobs, NEW m \in StoredSet, ~finished[n],
             finished' = [finished EXCEPT ![n] = m.last]
      PROVE  finished'[j]
  BY <1>2 DEF IInv, MapInv
<1> QED
  BY <1>1, <1>2, TicketDoMessage

\* An operation that ends frees its client.
LEMMA ClientEnds ==
  ASSUME QueueInv, ClientInv, NEW c \in Clients, cpc[c] # "idle",
         NEW how \in {"ticket", "ok", "error", "timeout", "failure"}, End(c, how),
         UNCHANGED <<started, finished>>
  PROVE  ClientInv'
<1>1. cur[c] \in Jobs /\ cur[c] # 0 /\ cur[c] <= started
  BY DEF ClientInv, QueueInv, Jobs
<1>2. /\ cpc' \in [Clients -> {"idle", "wait", "read"}] /\ cur' \in [Clients -> 0 .. MaxJobs]
      /\ cpc'[c] = "idle" /\ cur'[c] = 0
      /\ \A d \in Clients : d # c => cpc'[d] = cpc[d] /\ cur'[d] = cur[d]
  BY NodeThreadAssumption DEF ClientInv, End
<1>3. /\ outcome' \in [Jobs -> {"none", "ticket", "ok", "error", "timeout", "failure"}]
      /\ \A j \in Jobs : j # cur[c] => outcome'[j] = outcome[j]
  BY <1>1 DEF ClientInv, End
<1>4. \A d \in Clients : IF cpc'[d] = "idle" THEN cur'[d] = 0 ELSE cur'[d] \in 1 .. started'
  BY <1>2 DEF ClientInv
<1>5. \A d, e \in Clients : cur'[d] # 0 /\ cur'[d] = cur'[e] => d = e
  BY <1>2 DEF ClientInv
<1>6. \A d \in Clients : cpc'[d] = "read" => finished'[cur'[d]]
  BY <1>2 DEF ClientInv
<1>7. ASSUME NEW d \in Clients, cur'[d] # 0 PROVE outcome'[cur'[d]] = "none"
  <2>1. d # c /\ cur'[d] = cur[d]
    BY <1>2, <1>7
  <2>2. cur[d] # cur[c] /\ outcome[cur[d]] = "none"
    BY <1>7, <2>1 DEF ClientInv
  <2>3. cur[d] \in Jobs
    BY <1>7, <2>1, NodeThreadAssumption DEF ClientInv, Jobs
  <2> QED
    BY <1>3, <2>1, <2>2, <2>3
<1>8. \A j \in Jobs : j > started' => outcome'[j] = "none"
  <2>1. started \in Nat
    BY DEF QueueInv
  <2> QED
    BY <1>1, <1>3, <2>1 DEF ClientInv, Jobs
<1> QED
  BY <1>2, <1>3, <1>4, <1>5, <1>6, <1>7, <1>8 DEF ClientInv

\* Every step keeps ClientInv.
LEMMA ClientStepKeeps ==
  ASSUME IInv, [Next]_vars
  PROVE  ClientInv'
<1>0. QueueInv /\ MapInv /\ TicketInv /\ ClientInv
  BY DEF IInv
<1>1. ASSUME UNCHANGED <<started, client>>,
             \A j \in Jobs : finished[j] => finished'[j]
      PROVE  ClientInv'
  <2>1. UNCHANGED <<cpc, cur, outcome>>
    BY <1>1 DEF client
  <2>2. \A c \in Clients : cpc[c] = "read" => cur[c] \in Jobs
    BY <1>0 DEF ClientInv, QueueInv, Jobs
  <2> QED
    BY <1>0, <1>1, <2>1, <2>2 DEF ClientInv
<1>2. ASSUME NEW c \in Clients, NEW r \in Requests, Call(c, r) PROVE ClientInv'
  <2>1. /\ started' = started + 1 /\ started' \in Jobs /\ started \in Nat
    BY <1>0, <1>2, CallTaken
  <2>2. UNCHANGED <<outcome, finished>> /\ cpc[c] = "idle"
        /\ \/ UNCHANGED <<cpc, cur>>
           \/ /\ cpc' = [cpc EXCEPT ![c] = "wait"]
              /\ cur' = [cur EXCEPT ![c] = started']
    BY <1>2 DEF Call
  <2>3. \A d \in Clients : cur[d] <= started
    BY <1>0, <2>1 DEF ClientInv, QueueInv
  <2>4. outcome[started'] = "none" /\ started' # 0 /\ started' > started
    BY <1>0, <2>1 DEF ClientInv
  <2>5. CASE UNCHANGED <<cpc, cur>>
    <3>1. \A d \in Clients : cur[d] \in 1 .. started => cur[d] \in 1 .. started'
      BY <2>1
    <3>2. \A j \in Jobs : j > started' => j > started
      BY <2>1 DEF Jobs
    <3> QED
      BY <1>0, <2>2, <2>5, <3>1, <3>2 DEF ClientInv
  <2>6. CASE cpc' = [cpc EXCEPT ![c] = "wait"] /\ cur' = [cur EXCEPT ![c] = started']
    <3>1. /\ cpc' \in [Clients -> {"idle", "wait", "read"}] /\ cur' \in [Clients -> 0 .. MaxJobs]
          /\ cpc'[c] = "wait" /\ cur'[c] = started'
          /\ \A d \in Clients : d # c => cpc'[d] = cpc[d] /\ cur'[d] = cur[d]
      BY <1>0, <2>1, <2>6, NodeThreadAssumption DEF ClientInv, Jobs
    <3>2. \A d \in Clients : IF cpc'[d] = "idle" THEN cur'[d] = 0 ELSE cur'[d] \in 1 .. started'
      BY <1>0, <2>1, <3>1 DEF ClientInv, Jobs
    <3>3. \A d, e \in Clients : cur'[d] # 0 /\ cur'[d] = cur'[e] => d = e
      <4>1. \A d \in Clients : cur[d] \in 0 .. MaxJobs
        BY <1>0 DEF ClientInv
      <4>2. \A d \in Clients : d # c => cur'[d] # started'
        BY <2>1, <2>3, <3>1, <4>1
      <4> QED
        BY <1>0, <3>1, <4>2 DEF ClientInv
    <3>4. \A d \in Clients : cpc'[d] = "read" => finished'[cur'[d]]
      BY <1>0, <2>2, <3>1 DEF ClientInv
    <3>5. \A d \in Clients : cur'[d] # 0 => outcome'[cur'[d]] = "none"
      BY <1>0, <2>2, <2>4, <3>1 DEF ClientInv
    <3> QED
      BY <1>0, <2>1, <2>2, <3>1, <3>2, <3>3, <3>4, <3>5 DEF ClientInv, Jobs
  <2> QED
    BY <2>2, <2>5, <2>6
<1>3. ASSUME NEW c \in Clients, NEW how \in {"ticket", "ok", "error", "timeout", "failure"},
             End(c, how), UNCHANGED <<started, finished>>, cpc[c] # "idle"
      PROVE  ClientInv'
  BY <1>0, <1>3, ClientEnds
<1>4. ASSUME NEW c \in Clients, WaitOver(c) PROVE ClientInv'
  <2>1. UNCHANGED <<started, finished>> /\ cpc[c] = "wait" /\ Answered(cur[c])
    BY <1>4 DEF WaitOver, Waiting, ticket
  <2>2. CASE attr[cur[c]].wait = "sent"
    BY <1>3, <1>4, <2>1, <2>2 DEF WaitOver
  <2>3. CASE attr[cur[c]].wait # "sent"
    <3>1. cpc' = [cpc EXCEPT ![c] = "read"] /\ UNCHANGED <<cur, outcome>> /\ finished[cur[c]]
      BY <1>4, <2>1, <2>3 DEF WaitOver, Answered
    <3> QED
      BY <1>0, <2>1, <3>1 DEF ClientInv
  <2> QED
    BY <2>2, <2>3
<1>5. ASSUME NEW c \in Clients, GetResponse(c) PROVE ClientInv'
  <2>1. UNCHANGED <<started, finished>> /\ cpc[c] = "read"
        /\ (End(c, "error") \/ End(c, "ok"))
    BY <1>5 DEF GetResponse, ticket
  <2> QED
    BY <1>3, <2>1
<1>6. ASSUME NEW c \in Clients, GiveUp(c) PROVE ClientInv'
  <2>1. UNCHANGED <<started, finished>> /\ cpc[c] = "wait"
        /\ (End(c, "timeout") \/ End(c, "failure"))
    BY <1>6 DEF GiveUp, Waiting, ticket
  <2> QED
    BY <1>3, <2>1
<1>7. ASSUME DoMessage PROVE ClientInv'
  <2>1. UNCHANGED <<started, client>>
    BY <1>7 DEF DoMessage
  <2> QED
    BY <1>1, <1>7, <2>1, FinishedKept
<1>8. ASSUME NoMessage \/ SocketFails \/ NoRequest \/ SendClientReq PROVE ClientInv'
  <2>1. UNCHANGED <<started, client>> /\ finished' = finished
    BY <1>8 DEF NoMessage, SocketFails, NoRequest, SendClientReq, ticket
  <2> QED
    BY <1>1, <2>1
<1>9. ASSUME NEW j \in 0 .. MaxJobs, NodeAnswers(j) PROVE ClientInv'
  <2>1. UNCHANGED <<started, client>> /\ finished' = finished
    BY <1>9 DEF NodeAnswers, ticket
  <2> QED
    BY <1>1, <2>1
<1>10. ASSUME UNCHANGED vars PROVE ClientInv'
  <2>1. UNCHANGED <<started, client>> /\ finished' = finished
    BY <1>10 DEF vars, ticket
  <2> QED
    BY <1>1, <2>1
<1> QED
  BY <1>2, <1>4, <1>5, <1>6, <1>7, <1>8, <1>9, <1>10 DEF Next, Manager, ClientStep

-----------------------------------------------------------------------------
(* The theorems.                                                            *)

\* The strengthening is an invariant of the manager, the clients and the node.
THEOREM InductiveInvariant == Spec => []IInv
<1>1. IInv /\ [Next]_vars => IInv'
  BY QueueStep, WireStep, MapStep, TicketStep, ClientStepKeeps DEF IInv
<1> QED
  BY <1>1, InitIInv, PTL DEF Spec

\* Where the manager may be, in NodeThread: the interrupt of NodeLife can end it
\* elsewhere, so that this is no part of QueueInv.
ManagerInv == mgr \in {"poll", "queue", "failed", "crashed"}

\* Every variable has its type, for any requests and conversations.
THEOREM TypeCorrect == Spec => []TypeOK
<1>1. IInv /\ ManagerInv => TypeOK
  <2> SUFFICES ASSUME IInv, ManagerInv PROVE TypeOK
    OBVIOUS
  <2> USE DEF IInv
  <2>1. \A j \in Jobs : StoredMessages(resp[j]) /\ StoredMessages(view[j])
    <3> SUFFICES ASSUME NEW s \in Seq(StoredSet) PROVE StoredMessages(s)
      BY DEF TicketInv
    <3>1. \A i \in DOMAIN s : s[i] \in StoredSet
      OBVIOUS
    <3> QED
      BY <3>1 DEF StoredMessages, StoredSet
  <2>2. /\ attr \in [0 .. MaxJobs -> Requests \cup {CreatedTicket}]
        /\ pos \in [0 .. MaxJobs -> Nat]
        /\ \A j \in 0 .. MaxJobs : pos[j] <= Len(script[j])
    BY DEF WireInv
  <2>3. /\ jobs \in [Keys -> 0 .. NoTicket]
        /\ finished \in [Jobs -> BOOLEAN]
        /\ clashed \subseteq Keys
    BY DEF MapInv
  <2>4. /\ cpc \in [Clients -> {"idle", "wait", "read"}]
        /\ cur \in [Clients -> 0 .. MaxJobs]
        /\ outcome \in [Jobs -> {"none", "ticket", "ok", "error", "timeout", "failure"}]
    BY DEF ClientInv
  <2>5. /\ started \in 0 .. MaxJobs /\ queue \in Seq(Jobs) /\ sent \in Seq(Jobs)
        /\ mgr \in {"poll", "queue", "failed", "crashed"}
    BY DEF QueueInv, ManagerInv
  <2> QED
    BY <2>1, <2>2, <2>3, <2>4, <2>5 DEF TypeOK
<1>2. Init => ManagerInv
  BY DEF Init, ManagerInv
<1>3. IInv /\ ManagerInv /\ [Next]_vars => ManagerInv'
  <2> SUFFICES ASSUME IInv, ManagerInv, [Next]_vars PROVE ManagerInv'
    OBVIOUS
  <2>1. CASE DoMessage
    BY <2>1, DoMessageCases DEF ManagerInv, NotFound, Deliver
  <2>2. CASE ~DoMessage
    <3>1. mgr' = mgr \/ mgr' \in {"poll", "queue", "failed"}
      BY <2>2 DEF Next, Call, ClientStep, WaitOver, GetResponse, GiveUp, Manager, NoMessage,
                  SocketFails, NoRequest, SendClientReq, NodeAnswers, vars, manager
    <3> QED
      BY <3>1 DEF ManagerInv
  <2> QED
    BY <2>1, <2>2
<1> QED
  BY <1>1, <1>2, <1>3, InductiveInvariant, PTL DEF Spec

\* TQueue and sendClientReq: the node gets the requests in the order in which
\* the clients queued them, none lost and none twice.
THEOREM RequestsInOrder == Spec => []SendOrder
<1>1. IInv => SendOrder
  <2> SUFFICES ASSUME IInv, mgr # "failed"
               PROVE  sent \o queue = [i \in 1 .. started |-> i]
    BY DEF SendOrder
  <2>1. /\ sent \in Seq(Jobs) /\ queue \in Seq(Jobs)
        /\ Len(sent) \in Nat /\ Len(queue) \in Nat /\ started \in Nat
        /\ DOMAIN sent = 1 .. Len(sent) /\ DOMAIN queue = 1 .. Len(queue)
    BY DEF IInv, QueueInv
  <2>2. Len(sent) + Len(queue) = started
    BY <2>1 DEF IInv, QueueInv, Taken
  <2> DEFINE s == sent \o queue
  <2>3. /\ s \in Seq(Jobs) /\ Len(s) = started /\ DOMAIN s = 1 .. started
        /\ \A i \in 1 .. started : s[i] = IF i <= Len(sent) THEN sent[i] ELSE queue[i - Len(sent)]
    BY <2>1, <2>2
  <2>4. ASSUME NEW i \in 1 .. started PROVE s[i] = i
    <3>1. CASE i <= Len(sent)
      BY <2>1, <2>3, <3>1 DEF IInv, QueueInv
    <3>2. CASE i > Len(sent)
      <4>1. i - Len(sent) \in DOMAIN queue /\ s[i] = queue[i - Len(sent)]
        BY <2>1, <2>2, <2>3, <3>2
      <4>2. queue[i - Len(sent)] = Taken + (i - Len(sent)) /\ Taken = Len(sent)
        BY <2>1, <2>2, <4>1 DEF IInv, QueueInv, Taken
      <4> QED
        BY <2>1, <4>1, <4>2
    <3>3. i \in Nat
      OBVIOUS
    <3> HIDE DEF s
    <3> QED
      BY <2>1, <3>1, <3>2, <3>3
  <2> HIDE DEF s
  <2>5. s = [i \in 1 .. started |-> i]
    BY <2>3, <2>4
  <2> QED
    BY <2>5 DEF s
<1> QED
  BY <1>1, InductiveInvariant, PTL

\* NodeThread::jobs: what the map holds was sent under its key and is not
\* finished, and an unfinished job is in it unless its key clashed.
THEOREM MapIsExact == Spec => []MapExact
<1>1. IInv => MapExact
  <2> SUFFICES ASSUME IInv PROVE MapExact
    OBVIOUS
  <2>0. Len(queue) \in Nat /\ started \in Nat /\ DOMAIN queue = 1 .. Len(queue)
    BY DEF IInv, QueueInv
  <2>1. ASSUME NEW k \in Keys, jobs[k] \in Jobs
        PROVE  /\ Key(jobs[k]) = k
               /\ ~finished[jobs[k]]
               /\ jobs[k] <= started /\ \A i \in DOMAIN queue : queue[i] # jobs[k]
    <3>1. Key(jobs[k]) = k /\ ~finished[jobs[k]] /\ jobs[k] <= Taken
      BY <2>1 DEF IInv, MapInv
    <3>2. \A i \in DOMAIN queue : queue[i] = Taken + i
      BY DEF IInv, QueueInv
    <3> QED
      BY <2>0, <2>1, <3>1, <3>2 DEF Taken, Jobs
  <2>2. ASSUME NEW i \in DOMAIN sent
        PROVE  \/ finished[sent[i]] \/ Key(sent[i]) \in clashed
               \/ attr[sent[i]].cmd = "WatchGlobal" \/ jobs[Key(sent[i])] = sent[i]
    <3>1. sent \in Seq(Jobs) /\ sent[i] = i /\ i <= Len(sent) /\ i \in Jobs
      BY <2>2 DEF IInv, QueueInv
    <3> QED
      BY <3>1 DEF IInv, MapInv
  <2> QED
    BY <2>1, <2>2 DEF MapExact
<1> QED
  BY <1>1, InductiveInvariant, PTL

-----------------------------------------------------------------------------
(* Every ticket implements the abstract one.                                *)

\* The log of a longer sequence of messages.
LEMMA LogOfAppend ==
  ASSUME NEW s \in Seq(StoredSet), NEW m \in StoredSet
  PROVE  /\ LogOf(Append(s, m)) = Append(LogOf(s), IF m.last THEN "last" ELSE "more")
         /\ LogOf(s) \in Seq({"last", "more"}) /\ Len(LogOf(s)) = Len(s)
<1> DEFINE f(q) == IF q.last THEN "last" ELSE "more"
<1>1. /\ DOMAIN s = 1 .. Len(s) /\ Len(s) \in Nat
      /\ DOMAIN Append(s, m) = 1 .. Len(s) + 1 /\ Append(s, m)[Len(s) + 1] = m
      /\ \A i \in 1 .. Len(s) : Append(s, m)[i] = s[i]
  BY AppendOf
<1>2. \A q : f(q) \in {"last", "more"}
  OBVIOUS
<1> HIDE DEF f
<1>3. LogOf(s) = [i \in 1 .. Len(s) |-> f(s[i])]
  BY <1>1 DEF LogOf, f
<1>4. LogOf(s) \in Seq({"last", "more"}) /\ Len(LogOf(s)) = Len(s)
  BY <1>1, <1>2, <1>3
<1>5. LogOf(Append(s, m)) = [i \in 1 .. Len(s) + 1 |-> f(Append(s, m)[i])]
  BY <1>1 DEF LogOf, f
<1>6. Append(LogOf(s), f(m)) = [i \in 1 .. Len(s) + 1 |-> f(Append(s, m)[i])]
  <2> DEFINE t == Append(LogOf(s), f(m))
  <2>1. /\ t \in Seq({"last", "more"}) /\ DOMAIN t = 1 .. Len(s) + 1
        /\ t[Len(s) + 1] = f(m) /\ \A i \in 1 .. Len(s) : t[i] = LogOf(s)[i]
    BY <1>1, <1>2, <1>4, AppendOf
  <2> HIDE DEF t
  <2>2. \A i \in 1 .. Len(s) + 1 : t[i] = f(Append(s, m)[i])
    BY <1>1, <1>3, <2>1
  <2>3. t = [i \in DOMAIN t |-> t[i]]
    BY <2>1
  <2> QED
    BY <2>1, <2>2, <2>3 DEF t
<1> QED
  BY <1>4, <1>5, <1>6 DEF f

\* A ticket is finished exactly when its log has ended.
LEMMA EndedIsFinished ==
  ASSUME TicketInv, NEW j \in Jobs
  PROVE  (finished[j] <=> T(j)!Ended) /\ (LogOf(resp[j]) = <<>> <=> resp[j] = <<>>)
<1>1. resp[j] \in Seq(StoredSet)
  BY DEF TicketInv
<1> DEFINE s == resp[j]
<1>2. /\ LogOf(s) \in Seq({"last", "more"}) /\ Len(LogOf(s)) = Len(s) /\ Len(s) \in Nat
  <2>1. \A i \in DOMAIN s : (IF s[i].last THEN "last" ELSE "more") \in {"last", "more"}
    OBVIOUS
  <2> QED
    BY <1>1, <2>1 DEF LogOf
<1>3. LogOf(s) = <<>> <=> s = <<>>
  BY <1>1, <1>2
<1>4. s # <<>> => (LogOf(s)[Len(LogOf(s))] = "last" <=> s[Len(s)].last)
  BY <1>1, <1>2 DEF LogOf
<1> QED
  BY <1>3, <1>4 DEF TicketInv, T!Ended

\* What is known about a ticket changes only with its outcome or its reader.
LEMMA KnownKept ==
  ASSUME NEW j, outcome'[j] = outcome[j],
         \A c \in Clients : (cur'[c] = j /\ cpc'[c] = "read") <=> (cur[c] = j /\ cpc[c] = "read")
  PROVE  KnownOf(j)' = KnownOf(j)
  BY DEF KnownOf

\* The tickets' initial states.
LEMMA TicketsInit ==
  ASSUME Init, NEW j \in Jobs
  PROVE  T(j)!Init
<1>1. LogOf(resp[j]) = <<>> /\ LogOf(view[j]) = <<>>
  <2>1. resp[j] = <<>> /\ view[j] = <<>>
    BY DEF Init
  <2> QED
    BY <2>1 DEF LogOf
<1>2. finished[j] = FALSE
  BY DEF Init
<1>3. KnownOf(j) = {}
  <2>1. outcome[j] = "none" /\ \A c \in Clients : cpc[c] = "idle"
    BY DEF Init
  <2> QED
    BY <2>1 DEF KnownOf
<1> QED
  BY <1>1, <1>2, <1>3 DEF T!Init

\* Every step is one of the abstract ticket's, or none, for every ticket.
LEMMA TicketsStep ==
  ASSUME IInv, [Next]_vars, NEW j \in Jobs
  PROVE  [T(j)!Next]_(T(j)!vars)
<1>0. QueueInv /\ TicketInv /\ ClientInv
  BY DEF IInv
<1>1. ASSUME KnownOf(j)' = KnownOf(j), UNCHANGED <<resp[j], finished[j], view[j]>>
      PROVE  UNCHANGED T(j)!vars
  BY <1>1 DEF T!vars, LogOf
<1>2. ASSUME UNCHANGED <<resp, finished, client>> PROVE UNCHANGED T(j)!vars
  <2>1. KnownOf(j)' = KnownOf(j) /\ view' = view
    BY <1>2, KnownKept DEF client
  <2> QED
    BY <1>1, <1>2, <2>1
<1>3. ASSUME NEW c \in Clients, NEW r \in Requests, Call(c, r) PROVE UNCHANGED T(j)!vars
  <2>1. /\ UNCHANGED <<resp, finished, outcome, view>> /\ cpc[c] = "idle"
        /\ \/ UNCHANGED <<cpc, cur>>
           \/ /\ cpc' = [cpc EXCEPT ![c] = "wait"]
              /\ cur' = [cur EXCEPT ![c] = started']
    BY <1>3 DEF Call
  <2>2. \A d \in Clients : (cur'[d] = j /\ cpc'[d] = "read") <=> (cur[d] = j /\ cpc[d] = "read")
    BY <1>0, <2>1 DEF ClientInv
  <2> QED
    BY <1>1, <2>1, <2>2, KnownKept
<1>4. ASSUME NEW c \in Clients, NEW how, End(c, how), cur[c] # j
      PROVE  KnownOf(j)' = KnownOf(j)
  <2>1. cur'[c] = 0 /\ cpc'[c] = "idle" /\ \A d \in Clients : d # c => cpc'[d] = cpc[d] /\ cur'[d] = cur[d]
    BY <1>0, <1>4 DEF End, ClientInv
  <2>2. outcome'[j] = outcome[j]
    BY <1>0, <1>4 DEF End, ClientInv
  <2> QED
    BY <1>4, <2>1, <2>2, KnownKept
<1>5. ASSUME NEW c \in Clients, NEW how, End(c, how), cur[c] = j
      PROVE  /\ outcome'[j] = how /\ \A d \in Clients : cur'[d] # j
             /\ KnownOf(j) = IF cpc[c] = "read" THEN {"finished"} ELSE {}
  <2>1. j # 0 /\ outcome[j] = "none" /\ \A d \in Clients : d # c => cur[d] # j
    BY <1>0, <1>5 DEF ClientInv, Jobs
  <2>2. outcome'[j] = how /\ cur' = [cur EXCEPT ![c] = 0]
    BY <1>0, <1>5 DEF End, ClientInv
  <2>3. \A d \in Clients : cur'[d] # j
    BY <1>0, <2>1, <2>2 DEF ClientInv
  <2> QED
    BY <1>5, <2>1, <2>2, <2>3 DEF KnownOf
<1>6. ASSUME NEW c \in Clients, WaitOver(c) PROVE [T(j)!Next]_(T(j)!vars)
  <2>1. UNCHANGED <<resp, finished, view>> /\ cpc[c] = "wait" /\ Answered(cur[c])
    BY <1>6 DEF WaitOver, Waiting, ticket
  <2>2. CASE attr[cur[c]].wait = "sent"
    <3>1. End(c, "ticket")
      BY <1>6, <2>2 DEF WaitOver
    <3>2. CASE cur[c] # j
      BY <1>1, <1>4, <2>1, <3>1, <3>2
    <3>3. CASE cur[c] = j
      <4>1. KnownOf(j) = {} /\ KnownOf(j)' = {"sent"}
        BY <1>5, <2>1, <3>1, <3>3 DEF KnownOf
      <4>2. LogOf(resp[j]) # <<>>
        BY <1>0, <2>1, <2>2, <3>3, EndedIsFinished DEF Answered
      <4>3. T(j)!LearnSent(j)
        BY <2>1, <4>1, <4>2 DEF T!LearnSent, LogOf
      <4> QED
        BY <4>3 DEF T!Next
    <3> QED
      BY <3>2, <3>3
  <2>3. CASE attr[cur[c]].wait # "sent"
    <3>1. cpc' = [cpc EXCEPT ![c] = "read"] /\ UNCHANGED <<cur, outcome>> /\ finished[cur[c]]
      BY <1>6, <2>1, <2>3 DEF WaitOver, Answered
    <3>2. CASE cur[c] # j
      <4>1. \A d \in Clients : (cur'[d] = j /\ cpc'[d] = "read") <=> (cur[d] = j /\ cpc[d] = "read")
        BY <1>0, <3>1, <3>2 DEF ClientInv
      <4> QED
        BY <1>1, <2>1, <3>1, <4>1, KnownKept
    <3>3. CASE cur[c] = j
      <4>1. outcome[j] = "none" /\ outcome' = outcome
        BY <1>0, <3>1, <3>3 DEF ClientInv, Jobs
      <4>2. \A d \in Clients : cur[d] = j => d = c
        BY <1>0, <3>3 DEF ClientInv, Jobs
      <4>3. KnownOf(j) = {}
        BY <2>1, <4>1, <4>2 DEF KnownOf
      <4>4. KnownOf(j)' = {"finished"}
        <5>1. cur'[c] = j /\ cpc'[c] = "read"
          BY <1>0, <3>1, <3>3 DEF ClientInv
        <5> QED
          BY <4>1, <5>1 DEF KnownOf
      <4>5. T(j)!LearnFinished(j)
        BY <2>1, <3>1, <3>3, <4>3, <4>4 DEF T!LearnFinished, LogOf
      <4> QED
        BY <4>5 DEF T!Next
    <3> QED
      BY <3>2, <3>3
  <2> QED
    BY <2>2, <2>3
<1>7. ASSUME NEW c \in Clients, GetResponse(c) PROVE [T(j)!Next]_(T(j)!vars)
  <2>1. /\ UNCHANGED <<resp, finished>> /\ view' = [view EXCEPT ![cur[c]] = resp[cur[c]]]
        /\ cpc[c] = "read" /\ (End(c, "error") \/ End(c, "ok"))
    BY <1>7 DEF GetResponse, ticket
  <2>2. CASE cur[c] # j
    <3>1. view'[j] = view[j]
      BY <1>0, <2>1, <2>2 DEF TicketInv
    <3> QED
      BY <1>1, <1>4, <2>1, <2>2, <3>1
  <2>3. CASE cur[c] = j
    <3>1. view'[j] = resp[j]
      BY <1>0, <2>1, <2>3 DEF TicketInv
    <3>2. KnownOf(j) = {"finished"} /\ KnownOf(j)' = {"finished"}
      BY <1>5, <2>1, <2>3 DEF KnownOf
    <3>3. T(j)!Observe(j)
      BY <2>1, <3>1, <3>2 DEF T!Observe, LogOf
    <3> QED
      BY <3>3 DEF T!Next
  <2> QED
    BY <2>2, <2>3
<1>8. ASSUME NEW c \in Clients, GiveUp(c) PROVE UNCHANGED T(j)!vars
  <2>1. UNCHANGED <<resp, finished, view>> /\ cpc[c] = "wait"
        /\ (End(c, "timeout") \/ End(c, "failure"))
    BY <1>8 DEF GiveUp, Waiting, ticket
  <2>2. CASE cur[c] # j
    BY <1>1, <1>4, <2>1, <2>2
  <2>3. CASE cur[c] = j
    <3>1. KnownOf(j) = {} /\ KnownOf(j)' = {}
      BY <1>5, <2>1, <2>3 DEF KnownOf
    <3> QED
      BY <1>1, <2>1, <3>1
  <2> QED
    BY <2>2, <2>3
<1>9. ASSUME DoMessage PROVE [T(j)!Next]_(T(j)!vars)
  <2>1. client' = client
    BY <1>9 DEF DoMessage
  <2>2. KnownOf(j)' = KnownOf(j) /\ view' = view
    BY <2>1, KnownKept DEF client
  <2>3. CASE UNCHANGED <<resp, finished>>
    BY <1>2, <2>1, <2>3
  <2>4. ASSUME NEW n \in Jobs, NEW m \in StoredSet, ~finished[n],
               resp' = [resp EXCEPT ![n] = Append(@, m)],
               finished' = [finished EXCEPT ![n] = m.last]
        PROVE  [T(j)!Next]_(T(j)!vars)
    <3>1. CASE j # n
      <4>1. resp'[j] = resp[j] /\ finished'[j] = finished[j]
        BY <1>0, <2>4, <3>1 DEF TicketInv, IInv, MapInv
      <4> QED
        BY <1>1, <2>2, <4>1
    <3>2. CASE j = n
      <4>1. resp'[j] = Append(resp[j], m) /\ finished'[j] = m.last /\ resp[j] \in Seq(StoredSet)
        BY <1>0, <2>4, <3>2 DEF TicketInv, IInv, MapInv
      <4>2. ~T(j)!Ended
        BY <1>0, <2>4, <3>2, EndedIsFinished
      <4> DEFINE e == IF m.last THEN "last" ELSE "more"
      <4>3. e \in {"more", "last"} /\ (m.last = (e = "last"))
        BY DEF StoredSet
      <4>4. LogOf(resp[j])' = Append(LogOf(resp[j]), e)
        BY <4>1, LogOfAppend DEF LogOf
      <4>5. T(j)!Receive(e)
        <5> HIDE DEF e
        <5> QED
          BY <2>2, <4>1, <4>2, <4>3, <4>4 DEF T!Receive, LogOf
      <4> QED
        BY <4>3, <4>5 DEF T!Next, T!Statuses
    <3> QED
      BY <3>1, <3>2
  <2> QED
    BY <1>9, <2>3, <2>4, TicketDoMessage
<1>10. ASSUME NoMessage \/ SocketFails \/ NoRequest \/ SendClientReq PROVE UNCHANGED T(j)!vars
  <2>1. UNCHANGED <<resp, finished, client>>
    BY <1>10 DEF NoMessage, SocketFails, NoRequest, SendClientReq, ticket
  <2> QED
    BY <1>2, <2>1
<1>11. ASSUME NEW i \in 0 .. MaxJobs, NodeAnswers(i) PROVE UNCHANGED T(j)!vars
  <2>1. UNCHANGED <<resp, finished, client>>
    BY <1>11 DEF NodeAnswers, ticket
  <2> QED
    BY <1>2, <2>1
<1>12. ASSUME UNCHANGED vars PROVE UNCHANGED T(j)!vars
  <2>1. UNCHANGED <<resp, finished, client>>
    BY <1>12 DEF vars, ticket
  <2> QED
    BY <1>2, <2>1
<1> QED
  BY <1>3, <1>6, <1>7, <1>8, <1>9, <1>10, <1>11, <1>12 DEF Next, Manager, ClientStep

\* Routed by the manager, every ticket keeps the promises of Ticket.tla.
THEOREM ImplementsTickets == Spec => TicketsImplemented
<1>1. Init => \A j \in Jobs : T(j)!Init
  BY TicketsInit
<1>2. IInv /\ [Next]_vars => [\A j \in Jobs : [T(j)!Next]_(T(j)!vars)]_vars
  BY TicketsStep
<1> QED
  BY <1>1, <1>2, InductiveInvariant, PTL DEF Spec, TicketsImplemented

===============================================================================
