------------------------------ MODULE RoutingProofs -----------------------------
(***************************************************************************)
(* Proofs about the routing of NodeThread.tla: a ticket gets precisely     *)
(* what the node says to its request, an operation returns that and no     *)
(* less, and no answer to a request of the library ends the manager; all   *)
(* for the keys under which no job was sent over another.                  *)
(*                                                                         *)
(* The argument follows a message from the node's conversation (script)    *)
(* over the connection (inbox) into the ticket (resp).  RInv says where    *)
(* every message that was said is at any time, that the head of the        *)
(* connection finds the ticket of its own request, and that a ticket is    *)
(* finished by the word that ends its conversation.                        *)
(***************************************************************************)
EXTENDS NodeThreadProofs, Recursion

-----------------------------------------------------------------------------
(* What is on the way: SaidIn, by the length of the connection's content.   *)

\* f holds SaidIn of every prefix of s.
SaidUpTo(f, s, j) ==
  /\ f[0] = <<>>
  /\ \A i \in 1 .. Len(s) :
       f[i] = IF IsSaidTo(s[i], j) THEN Append(f[i - 1], s[i]) ELSE f[i - 1]

\* Any two such functions agree.
LEMMA SaidUpToAgree ==
  ASSUME NEW n \in Nat, NEW s, n = Len(s), NEW j, NEW f, NEW g, SaidUpTo(f, s, j), SaidUpTo(g, s, j)
  PROVE  f[n] = g[n]
<1> DEFINE A == {i \in Nat : i <= n => f[i] = g[i]}
<1>1. 0 \in A
  BY DEF SaidUpTo
<1>2. ASSUME NEW i \in A PROVE i + 1 \in A
  <2> SUFFICES ASSUME i + 1 <= n PROVE f[i + 1] = g[i + 1]
    OBVIOUS
  <2>1. i \in Nat /\ f[i] = g[i] /\ (i + 1) - 1 = i
    OBVIOUS
  <2>2. i + 1 \in 1 .. Len(s)
    BY <2>1
  <2> QED
    BY <2>1, <2>2 DEF SaidUpTo
<1>3. A = Nat
  <2> HIDE DEF A
  <2>1. A \in SUBSET Nat
    BY DEF A
  <2> QED
    BY <1>1, <1>2, <2>1, NatSetInduction
<1> QED
  BY <1>3

\* There is one, its values are sequences, and SaidIn is its last value.
LEMMA SaidInFollows ==
  ASSUME NEW M, NEW s \in Seq(M), NEW j
  PROVE  \E f \in [0 .. Len(s) -> Seq(M)] : SaidUpTo(f, s, j) /\ SaidIn(s, j) = f[Len(s)]
<1> DEFINE n == Len(s)
           step == [p \in (1 .. n) \X Seq(M) |->
                      IF IsSaidTo(s[p[1]], j) THEN Append(p[2], s[p[1]]) ELSE p[2]]
           Up(u) == u = [i \in 0 .. n |->
                           IF i = 0 THEN <<>>
                           ELSE IF IsSaidTo(s[i], j) THEN Append(u[i - 1], s[i]) ELSE u[i - 1]]
           up == CHOOSE u : Up(u)
<1>1. n \in Nat /\ <<>> \in Seq(M) /\ \A i \in 1 .. n : s[i] \in M
  OBVIOUS
<1>2. step \in [(1 .. n) \X Seq(M) -> Seq(M)]
  <2> SUFFICES ASSUME NEW p \in (1 .. n) \X Seq(M)
               PROVE  (IF IsSaidTo(s[p[1]], j) THEN Append(p[2], s[p[1]]) ELSE p[2]) \in Seq(M)
    OBVIOUS
  <2>1. p[1] \in 1 .. n /\ p[2] \in Seq(M) /\ s[p[1]] \in M
    BY <1>1
  <2> QED
    BY <2>1
<1>3. PICK f \in [0 .. n -> Seq(M)] : Follows(f, n, <<>>, step)
  <2> HIDE DEF step, n
  <2> QED
    BY <1>1, <1>2, RecursionExists
<1>4. \A i \in 1 .. n : f[i] = IF IsSaidTo(s[i], j) THEN Append(f[i - 1], s[i]) ELSE f[i - 1]
  <2> SUFFICES ASSUME NEW i \in 1 .. n
               PROVE  f[i] = IF IsSaidTo(s[i], j) THEN Append(f[i - 1], s[i]) ELSE f[i - 1]
    OBVIOUS
  <2>1. f[i] = step[<<i, f[i - 1]>>]
    BY <1>3 DEF Follows
  <2>2. f[i - 1] \in Seq(M)
    <3> HIDE DEF n
    <3>1. i - 1 \in 0 .. n
      BY <1>1
    <3> QED
      BY <1>3, <3>1
  <2>3. <<i, f[i - 1]>> \in (1 .. n) \X Seq(M)
    BY <2>2
  <2> QED
    BY <2>1, <2>3
<1>5. f[0] = <<>>
  BY <1>3 DEF Follows
<1>6. Up(f)
  <2> HIDE DEF n
  <2>1. f = [i \in 0 .. n |-> f[i]]
    BY <1>3
  <2>2. ASSUME NEW i \in 0 .. n
        PROVE  f[i] = IF i = 0 THEN <<>>
                      ELSE IF IsSaidTo(s[i], j) THEN Append(f[i - 1], s[i]) ELSE f[i - 1]
    <3>1. i = 0 \/ i \in 1 .. n
      BY <1>1
    <3> QED
      BY <1>4, <1>5, <3>1
  <2> QED
    BY <2>1, <2>2
<1>7. Up(up)
  <2> HIDE DEF Up
  <2> QED
    BY <1>6
<1>8. SaidUpTo(up, s, j)
  <2> HIDE DEF up
  <2>1. up[0] = <<>>
    BY <1>1, <1>7
  <2>2. ASSUME NEW i \in 1 .. n
        PROVE  up[i] = IF IsSaidTo(s[i], j) THEN Append(up[i - 1], s[i]) ELSE up[i - 1]
    <3>1. i \in 0 .. n /\ i # 0
      BY <1>1
    <3> QED
      BY <1>7, <3>1
  <2> QED
    BY <2>1, <2>2 DEF SaidUpTo
<1>9. SaidUpTo(f, s, j)
  BY <1>4, <1>5 DEF SaidUpTo
<1>10. up[n] = f[n]
  <2> HIDE DEF up
  <2> QED
    BY <1>1, <1>8, <1>9, SaidUpToAgree
<1>11. SaidIn(s, j) = up[n]
  BY DEF SaidIn
<1> QED
  <2> HIDE DEF up
  <2> QED
    BY <1>9, <1>10, <1>11

\* So SaidIn may be computed by any such function.
LEMMA SaidInBy ==
  ASSUME NEW M, NEW s \in Seq(M), NEW j, NEW g, SaidUpTo(g, s, j)
  PROVE  SaidIn(s, j) = g[Len(s)]
<1>1. PICK f : SaidUpTo(f, s, j) /\ SaidIn(s, j) = f[Len(s)]
  BY SaidInFollows
<1>2. Len(s) \in Nat
  OBVIOUS
<1> QED
  BY <1>1, <1>2, SaidUpToAgree

\* It is a sequence of messages of the connection.
LEMMA SaidInTyped ==
  ASSUME NEW M, NEW s \in Seq(M), NEW j
  PROVE  SaidIn(s, j) \in Seq(M)
<1>1. PICK f \in [0 .. Len(s) -> Seq(M)] : SaidIn(s, j) = f[Len(s)]
  BY SaidInFollows
<1> QED
  BY <1>1

\* On an empty connection nothing is on the way.
LEMMA SaidInEmpty ==
  ASSUME NEW j
  PROVE  SaidIn(<<>>, j) = <<>>
<1>1. SaidUpTo([i \in 0 .. 0 |-> <<>>], <<>>, j)
  BY DEF SaidUpTo
<1>2. <<>> \in Seq({})
  OBVIOUS
<1> QED
  BY <1>1, <1>2, SaidInBy

\* What the node says last is last on the way.
LEMMA SaidInAppend ==
  ASSUME NEW M, NEW s \in Seq(M), NEW m \in M, NEW j
  PROVE  SaidIn(Append(s, m), j) =
           IF IsSaidTo(m, j) THEN Append(SaidIn(s, j), m) ELSE SaidIn(s, j)
<1> DEFINE n == Len(s)
           t == Append(s, m)
<1>1. n \in Nat /\ t \in Seq(M) /\ Len(t) = n + 1 /\ t[n + 1] = m /\ \A i \in 1 .. n : t[i] = s[i]
  OBVIOUS
<1>2. PICK f \in [0 .. n -> Seq(M)] : SaidUpTo(f, s, j) /\ SaidIn(s, j) = f[n]
  BY SaidInFollows
<1> HIDE DEF t
<1> DEFINE last == IF IsSaidTo(m, j) THEN Append(f[n], m) ELSE f[n]
           g == [i \in 0 .. n + 1 |-> IF i <= n THEN f[i] ELSE last]
<1>3. g[0] = <<>> /\ g[n] = f[n] /\ g[n + 1] = last
  BY <1>1, <1>2 DEF SaidUpTo
<1>4. ASSUME NEW i \in 1 .. n + 1
      PROVE  g[i] = IF IsSaidTo(t[i], j) THEN Append(g[i - 1], t[i]) ELSE g[i - 1]
  <2>1. CASE i <= n
    <3>1. i \in 1 .. n /\ i \in 0 .. n + 1 /\ i - 1 \in 0 .. n + 1 /\ i - 1 <= n
      BY <1>1, <2>1
    <3>2. g[i] = f[i] /\ g[i - 1] = f[i - 1] /\ t[i] = s[i]
      BY <1>1, <3>1
    <3> HIDE DEF g
    <3> QED
      BY <1>2, <3>1, <3>2 DEF SaidUpTo
  <2>2. CASE i = n + 1
    <3>1. i - 1 = n /\ t[i] = m
      BY <1>1, <2>2
    <3> HIDE DEF g
    <3> QED
      BY <1>3, <2>2, <3>1
  <2> QED
    BY <1>1, <2>1, <2>2
<1>5. SaidUpTo(g, t, j)
  <2> HIDE DEF g
  <2> QED
    BY <1>1, <1>3, <1>4 DEF SaidUpTo
<1>6. SaidIn(t, j) = g[Len(t)]
  <2> HIDE DEF g
  <2> QED
    BY <1>1, <1>5, SaidInBy
<1> QED
  BY <1>1, <1>2, <1>3, <1>6 DEF t

\* What the manager reads first was first on the way.
LEMMA SaidInHead ==
  ASSUME NEW M, NEW s \in Seq(M), s # <<>>, NEW j
  PROVE  SaidIn(s, j) = (IF IsSaidTo(Head(s), j) THEN <<Head(s)>> ELSE <<>>) \o SaidIn(Tail(s), j)
<1> DEFINE n == Len(s)
           t == Tail(s)
           first == IF IsSaidTo(Head(s), j) THEN <<Head(s)>> ELSE <<>>
<1>1. /\ n \in Nat \ {0} /\ t \in Seq(M) /\ Len(t) = n - 1 /\ Head(s) = s[1]
      /\ \A i \in 1 .. n - 1 : t[i] = s[i + 1]
      /\ Head(s) \in M
      /\ \A i \in 1 .. n : s[i] \in M
  OBVIOUS
<1> HIDE DEF t
<1>2. PICK f \in [0 .. n - 1 -> Seq(M)] : SaidUpTo(f, t, j) /\ SaidIn(t, j) = f[n - 1]
  <2>1. \E f \in [0 .. Len(t) -> Seq(M)] : SaidUpTo(f, t, j) /\ SaidIn(t, j) = f[Len(t)]
    <3>1. t \in Seq(M)
      BY <1>1
    <3> QED
      BY ONLY <3>1, SaidInFollows
  <2> QED
    BY <1>1, <2>1
<1>3. first \in Seq(M)
  <2> DEFINE e == Head(s)
  <2>1. e \in M
    BY <1>1
  <2> HIDE DEF e
  <2>2. <<e>> \in Seq(M) /\ <<>> \in Seq(M)
    BY <2>1
  <2> QED
    BY <2>2 DEF e
<1> DEFINE g == [i \in 0 .. n |-> IF i = 0 THEN <<>> ELSE first \o f[i - 1]]
<1>4. g[0] = <<>> /\ g[n] = first \o f[n - 1]
  <2> HIDE DEF first, n
  <2>1. 0 \in 0 .. n /\ n \in 0 .. n /\ n # 0
    BY <1>1
  <2> QED
    BY <2>1
<1>5. ASSUME NEW i \in 1 .. n
      PROVE  g[i] = IF IsSaidTo(s[i], j) THEN Append(g[i - 1], s[i]) ELSE g[i - 1]
  <2>1. CASE i = 1
    <3>0. f[0] = <<>>
      BY <1>2 DEF SaidUpTo
    <3>1. g[1] = first \o <<>> /\ g[i - 1] = <<>>
      <4> HIDE DEF first
      <4>1. 1 \in 0 .. n /\ 0 \in 0 .. n
        BY <1>1
      <4> QED
        BY <2>1, <3>0, <4>1, SMTT(30)
    <3>2. g[1] = first
      BY <1>3, <3>1
    <3> HIDE DEF g
    <3> QED
      BY <1>1, <2>1, <3>1, <3>2
  <2>2. CASE i # 1
    <3>1. /\ i \in 0 .. n /\ i - 1 \in 0 .. n /\ i # 0 /\ i - 1 # 0
          /\ i - 1 \in 1 .. n - 1 /\ (i - 1) + 1 = i /\ (i - 1) - 1 \in 0 .. n - 1
      BY <1>1, <2>2
    <3>2. g[i] = first \o f[i - 1] /\ g[i - 1] = first \o f[(i - 1) - 1] /\ t[i - 1] = s[i]
      BY <1>1, <3>1
    <3>3. f[i - 1] = IF IsSaidTo(s[i], j) THEN Append(f[(i - 1) - 1], s[i]) ELSE f[(i - 1) - 1]
      BY <1>1, <1>2, <3>1, <3>2 DEF SaidUpTo
    <3>4. f[(i - 1) - 1] \in Seq(M) /\ s[i] \in M
      BY <1>1, <1>2, <3>1
    <3> DEFINE b == f[(i - 1) - 1]
               e == s[i]
    <3>5. b \in Seq(M) /\ e \in M
      BY <3>4
    <3> HIDE DEF g, first, b, e
    <3>6. first \o Append(b, e) = Append(first \o b, e)
      BY <1>3, <3>5
    <3> QED
      BY <3>2, <3>3, <3>6 DEF b, e
  <2> QED
    BY <1>1, <2>1, <2>2
<1>6. SaidUpTo(g, s, j)
  <2> HIDE DEF g
  <2> QED
    BY <1>4, <1>5 DEF SaidUpTo
<1>7. SaidIn(s, j) = g[n]
  <2> HIDE DEF g
  <2> QED
    BY <1>1, <1>6, SaidInBy
<1> QED
  BY <1>2, <1>4, <1>7 DEF t

-----------------------------------------------------------------------------
(* The inductive invariant of routing, besides IInv.                        *)

\* What the node says to a request that was sent: an answer, or a collision.
ScriptInv ==
  /\ attr[0] = CreatedTicket
  /\ \A j \in Jobs :
       \/ script[j] = <<>> \/ script[j] \in Answers(attr[j])
       \/ attr[j].id # "" /\ script[j] = Words(<<"IdentifierCollision">>)

\* A message on the connection carries the key of the request it answers, and
\* that one was taken from the queue; the data of AllData follow it.
AddressInv ==
  \A i \in DOMAIN inbox :
    /\ inbox[i].re <= Taken
    /\ inbox[i].id = attr[inbox[i].re].id /\ inbox[i].global = attr[inbox[i].re].global
    /\ inbox[i].h = "AllData" => inbox[i + 1].h = "data"

\* s are the messages that the node has said to request j.
Tells(s, j) ==
  /\ Len(s) = pos[j]
  /\ \A i \in 1 .. pos[j] :
       s[i].h = script[j][i].h /\ s[i].code = script[j][i].code /\ s[i].re = j

\* ExactReplies, and nothing has come for a request that is still in the queue.
RouteInv ==
  Managing =>
    \A j \in Jobs : j > Taken \/ Key(j) \notin clashed => Tells(resp[j] \o OnTheWay(j), j)

\* A finished ticket has the whole conversation.
FinalInv ==
  \A j \in Jobs : finished[j] /\ Key(j) \notin clashed =>
    Tells(resp[j], j) /\ pos[j] = Len(script[j])

\* What an operation was given is what its ticket still holds.
ViewInv ==
  \A j \in Jobs : outcome[j] \in {"ok", "error"} => finished[j] /\ view[j] = resp[j]

\* All of it.
RInv == IInv /\ ScriptInv /\ AddressInv /\ RouteInv /\ FinalInv /\ ViewInv

-----------------------------------------------------------------------------
(* What follows from it.                                                    *)

\* Tells is the pointwise form of the equation of ExactReplies.
LEMMA TellsSaid ==
  ASSUME NEW S, NEW s \in Seq(S), NEW j, pos[j] \in Nat, Tells(s, j)
  PROVE  Said(s) = SaidTo(j)
<1>1. DOMAIN s = 1 .. pos[j]
  BY DEF Tells
<1>2. \A i \in 1 .. pos[j] : [h |-> s[i].h, code |-> s[i].code, re |-> s[i].re]
                             = [h |-> script[j][i].h, code |-> script[j][i].code, re |-> j]
  BY DEF Tells
<1> QED
  BY <1>1, <1>2 DEF Said, SaidTo

\* Every conversation ends with its last message and not before, for the ticket
\* of its request; WatchGlobal is not answered.
LEMMA ScriptsProper ==
  ASSUME IInv, ScriptInv, NEW j \in Jobs
  PROVE  /\ Proper(script[j], attr[j])
         /\ attr[j].cmd = "WatchGlobal" => script[j] = <<>>
<1>1. CASE j > Taken
  <2>1. script[j] = <<>>
    BY <1>1 DEF IInv, WireInv
  <2> QED
    BY <2>1, ProperNone
<1>2. CASE ~(j > Taken)
  <2>1. j \in 1 .. started
    <3>1. Len(queue) \in Nat /\ started \in Nat
      BY NodeThreadAssumption DEF IInv, QueueInv
    <3> QED
      BY <1>2, <3>1 DEF Taken, Jobs
  <2>2. attr[j] \in Requests
    BY <2>1 DEF IInv, WireInv
  <2>3. attr[j] \in RequestsUnder(attr[j].id)
    BY <2>2, NodeThreadAssumption
  <2>4. CASE script[j] = <<>>
    BY <2>4, ProperNone
  <2>5. CASE script[j] \in Answers(attr[j])
    <3>1. Proper(script[j], attr[j])
      BY <2>3, <2>5, AnswersProper
    <3>2. ASSUME attr[j].cmd = "WatchGlobal" PROVE script[j] = <<>>
      <4>1. Answers(attr[j]) = {<<>>}
        BY <3>2, Zenon DEF Answers
      <4> QED
        BY <2>5, <4>1
    <3> QED
      BY <3>1, <3>2
  <2>6. CASE attr[j].id # "" /\ script[j] = Words(<<"IdentifierCollision">>)
    <3>1. Proper(script[j], attr[j])
      BY <2>6, EndsAlone DEF AlwaysLast
    <3>2. attr[j].cmd # "WatchGlobal"
      BY <2>3, <2>6, RequestKinds
    <3> QED
      BY <3>1, <3>2
  <2> QED
    BY <2>4, <2>5, <2>6 DEF ScriptInv
<1> QED
  BY <1>1, <1>2

\* Two sequences, one after the other.
LEMMA ConcatOf ==
  ASSUME NEW S, NEW s \in Seq(S), NEW t \in Seq(S)
  PROVE  /\ s \o t \in Seq(S) /\ Len(s \o t) = Len(s) + Len(t)
         /\ Len(s) \in Nat /\ Len(t) \in Nat
         /\ \A i \in 1 .. Len(s) : (s \o t)[i] = s[i]
         /\ \A i \in 1 .. Len(t) : (s \o t)[Len(s) + i] = t[i]
  OBVIOUS

\* The manager has read everything that was said to a finished job.
LEMMA NothingLeft ==
  ASSUME RInv, Managing, NEW j \in Jobs, Key(j) \notin clashed, finished[j]
  PROVE  OnTheWay(j) = <<>>
<1> DEFINE All == StoredSet \cup Messages
<1>1. resp[j] \in Seq(All) /\ OnTheWay(j) \in Seq(All)
  <2>1. resp[j] \in Seq(StoredSet) /\ inbox \in Seq(Messages)
    BY DEF RInv, IInv, TicketInv, WireInv
  <2>2. OnTheWay(j) \in Seq(Messages)
    BY <2>1, SaidInTyped DEF OnTheWay
  <2> QED
    BY <2>1, <2>2
<1>2. Len(resp[j]) = pos[j] /\ Len(resp[j] \o OnTheWay(j)) = pos[j]
  BY DEF RInv, FinalInv, RouteInv, Tells
<1> HIDE DEF All
<1>3. Len(OnTheWay(j)) = 0
  BY <1>1, <1>2, ConcatOf
<1> QED
  BY <1>1, <1>3

\* The first message on the connection is said to the request it answers.
LEMMA FirstIsSaid ==
  ASSUME IInv, inbox # <<>>, NEW j, IsSaidTo(Head(inbox), j)
  PROVE  /\ OnTheWay(j) = <<Head(inbox)>> \o SaidIn(Tail(inbox), j)
         /\ OnTheWay(j) # <<>>
         /\ SaidIn(Tail(inbox), j) \in Seq(Messages)
<1>1. inbox \in Seq(Messages) /\ Head(inbox) \in Messages /\ Tail(inbox) \in Seq(Messages)
  BY TailOf DEF IInv, WireInv
<1>2. SaidIn(Tail(inbox), j) \in Seq(Messages)
  BY <1>1, SaidInTyped
<1>3. OnTheWay(j) = <<Head(inbox)>> \o SaidIn(Tail(inbox), j)
  BY <1>1, SaidInHead DEF OnTheWay
<1> DEFINE t == SaidIn(Tail(inbox), j)
           e == Head(inbox)
<1>4. e \in Messages /\ t \in Seq(Messages)
  BY <1>1, <1>2
<1> HIDE DEF t, e
<1>5. <<e>> \o t # <<>>
  <2>1. <<e>> \in Seq(Messages) /\ Len(<<e>>) = 1
    BY <1>4
  <2>2. Len(<<e>> \o t) # 0
    BY <1>4, <2>1, ConcatOf
  <2> QED
    BY <2>2
<1> QED
  BY <1>2, <1>3, <1>5 DEF t, e

\* While the key of its request has not clashed, the first message finds the
\* ticket of that request in the map.
LEMMA FindsItsTicket ==
  ASSUME RInv, Managing, inbox # <<>>, NEW j \in Jobs, IsSaidTo(Head(inbox), j),
         Key(j) \notin clashed
  PROVE  jobs[Key(j)] = j /\ j <= Taken
<1>1. OnTheWay(j) # <<>>
  BY FirstIsSaid DEF RInv
<1>2. ~finished[j]
  BY <1>1, NothingLeft
<1>3. j <= Taken
  <2>1. 1 \in DOMAIN inbox /\ Head(inbox) = inbox[1]
    BY TailOf DEF RInv, IInv, WireInv
  <2> QED
    BY <2>1 DEF RInv, AddressInv, IsSaidTo
<1>4. attr[j].cmd # "WatchGlobal"
  <2> SUFFICES ASSUME attr[j].cmd = "WatchGlobal" PROVE FALSE
    OBVIOUS
  <2>1. script[j] = <<>> /\ pos[j] <= Len(script[j]) /\ pos[j] \in Nat
    BY ScriptsProper DEF RInv, IInv, WireInv, Jobs
  <2>2. pos[j] = 0
    BY <2>1
  <2> DEFINE All == StoredSet \cup Messages
             a == resp[j]
             b == OnTheWay(j)
  <2>3. a \in Seq(All) /\ b \in Seq(All)
    <3>1. resp[j] \in Seq(StoredSet) /\ inbox \in Seq(Messages)
      BY DEF RInv, IInv, TicketInv, WireInv
    <3>2. OnTheWay(j) \in Seq(Messages)
      BY <3>1, SaidInTyped DEF OnTheWay
    <3> QED
      BY <3>1, <3>2
  <2>4. Len(a \o b) = 0
    BY <2>2 DEF RInv, RouteInv, Tells
  <2> HIDE DEF All, a, b
  <2>5. b = <<>>
    BY <2>3, <2>4, ConcatOf
  <2> QED
    BY <1>1, <2>5 DEF b
<1>5. j <= Len(sent)
  BY <1>3 DEF RInv, IInv, QueueInv, Managing
<1> QED
  BY <1>2, <1>3, <1>4, <1>5 DEF RInv, IInv, MapInv

\* An identifier in the node's global queue belongs to one request: the other
\* client's is none of the library's.
LEMMA ForeignKey ==
  ASSUME IInv, ScriptInv, NEW j \in Jobs, j <= Taken
  PROVE  Key(j) # Key(0)
<1>1. j \in 1 .. started
  <2>1. Len(queue) \in Nat /\ started \in Nat
    BY NodeThreadAssumption DEF IInv, QueueInv
  <2> QED
    BY <2>1 DEF Taken, Jobs
<1>2. attr[j] \in Requests
  BY <1>1 DEF IInv, WireInv
<1>3. CreatedTicket.global = TRUE
  BY DEF CreatedTicket, Command
<1> HIDE DEF CreatedTicket
<1> QED
  BY <1>2, <1>3, NodeThreadAssumption DEF Key, ScriptInv

\* And it is found there by no message for another.
LEMMA FoundIsItsTicket ==
  ASSUME RInv, Managing, inbox # <<>>, Head(inbox).h # "data",
         NEW n \in Jobs, n = jobs[<<Head(inbox).global, Head(inbox).id>>], Key(n) \notin clashed
  PROVE  Head(inbox).re = n
<1> DEFINE m == Head(inbox)
           k == <<m.global, m.id>>
<1>1. m \in Messages /\ m = inbox[1] /\ 1 \in DOMAIN inbox
  BY TailOf DEF RInv, IInv, WireInv
<1>2. m.re \in 0 .. MaxJobs /\ k = Key(m.re) /\ k \in Keys
  BY <1>1 DEF RInv, AddressInv, Messages, Key, Keys, Ids
<1>3. Key(n) = k /\ n <= Taken
  BY <1>2 DEF RInv, IInv, MapInv
<1>4. m.re # 0
  BY <1>2, <1>3, ForeignKey DEF RInv
<1>5. m.re \in Jobs
  BY <1>2, <1>4 DEF Jobs
<1>6. IsSaidTo(m, m.re)
  BY DEF IsSaidTo
<1>7. jobs[Key(m.re)] = m.re
  BY <1>2, <1>3, <1>5, <1>6, FindsItsTicket
<1> QED
  BY <1>2, <1>7

-----------------------------------------------------------------------------
(* Reading a message.                                                       *)

\* What is left of the connection after a message has been read: all but the
\* first one or, with the data of AllData, two; nothing else is lost to anyone.
LEMMA RestOfInbox ==
  ASSUME IInv, AddressInv, DoMessage
  PROVE  /\ inbox # <<>> /\ Head(inbox) \in Messages /\ inbox' \in Seq(Messages)
         /\ \E d \in {1, 2} : /\ Len(inbox') = Len(inbox) - d
                              /\ \A i \in 1 .. Len(inbox') : inbox'[i] = inbox[i + d]
         /\ Head(inbox).h # "data" =>
              \A j : SaidIn(inbox', j) = SaidIn(Tail(inbox), j)
<1>1. inbox # <<>> /\ inbox \in Seq(Messages)
  BY DEF DoMessage, IInv, WireInv
<1> DEFINE s == Tail(inbox)
<1>2. /\ Head(inbox) \in Messages /\ Head(inbox) = inbox[1]
      /\ s \in Seq(Messages) /\ Len(s) = Len(inbox) - 1 /\ Len(inbox) \in Nat \ {0}
      /\ \A i \in 1 .. Len(inbox) - 1 : s[i] = inbox[i + 1]
      /\ DOMAIN inbox = 1 .. Len(inbox)
  BY <1>1, TailOf
<1>3. inbox' = s \/ (Head(inbox).h = "AllData" /\ inbox' = Tail(s))
  BY DEF DoMessage
<1>4. CASE inbox' = s
  <2>1. \A i \in 1 .. Len(inbox') : inbox'[i] = inbox[i + 1]
    BY <1>2, <1>4
  <2>2. Len(inbox') = Len(inbox) - 1 /\ inbox' \in Seq(Messages)
    BY <1>2, <1>4
  <2> QED
    BY <1>1, <1>2, <1>4, <2>1, <2>2
<1>5. CASE Head(inbox).h = "AllData" /\ inbox' = Tail(s)
  <2>1. 1 + 1 \in DOMAIN inbox /\ inbox[1 + 1].h = "data"
    BY <1>2, <1>5 DEF IInv, WireInv, AddressInv
  <2>2. Len(s) # 0 /\ s[1].h = "data"
    BY <1>2, <2>1
  <2> HIDE DEF s
  <2>3. s # <<>>
    BY <1>2, <2>2
  <2>4. /\ Head(s) = s[1] /\ Tail(s) \in Seq(Messages) /\ Len(Tail(s)) = Len(s) - 1
        /\ \A i \in 1 .. Len(s) - 1 : Tail(s)[i] = s[i + 1]
    BY <1>2, <2>3, TailOf
  <2>5. Len(inbox') = Len(inbox) - 2 /\ inbox' \in Seq(Messages)
    BY <1>2, <1>5, <2>4
  <2>6. ASSUME NEW i \in 1 .. Len(inbox') PROVE inbox'[i] = inbox[i + 2]
    <3>1. i \in 1 .. Len(s) - 1 /\ i + 1 \in 1 .. Len(inbox) - 1 /\ (i + 1) + 1 = i + 2
      BY <1>2, <2>5
    <3> QED
      BY <1>2, <1>5, <2>4, <3>1
  <2>7. ASSUME NEW j PROVE SaidIn(inbox', j) = SaidIn(s, j)
    <3>1. ~IsSaidTo(Head(s), j)
      BY <2>2, <2>4 DEF IsSaidTo
    <3>2. SaidIn(s, j) = <<>> \o SaidIn(Tail(s), j)
      BY <1>2, <2>3, <3>1, SaidInHead
    <3> DEFINE t == SaidIn(Tail(s), j)
    <3>3. t \in Seq(Messages)
      BY <2>4, SaidInTyped
    <3> HIDE DEF t
    <3>4. <<>> \o t = t
      BY <3>3, SMTT(30)
    <3> QED
      BY <1>5, <3>2, <3>4 DEF t
  <2> QED
    BY <1>1, <1>2, <2>5, <2>6, <2>7 DEF s
<1> QED
  BY <1>3, <1>4, <1>5

\* What DoMessage does, in terms of what is on the way: either the manager
\* ends, or the first message leaves the connection; it goes into the ticket
\* found under its key, which is finished if it is its last one.
LEMMA Reading ==
  ASSUME IInv, AddressInv, DoMessage
  PROVE  LET m == Head(inbox)
             n == jobs[<<m.global, m.id>>]
         IN  \/ mgr' \in {"failed", "crashed"} /\ UNCHANGED <<resp, finished>>
             \/ /\ m.h \in Headers /\ mgr' = "queue"
                /\ \A j : SaidIn(inbox', j) = SaidIn(Tail(inbox), j)
                /\ \/ n \notin Jobs /\ UNCHANGED <<resp, finished>>
                   \/ /\ n \in Jobs /\ ~finished[n]
                      /\ IsLast(m, attr[n]) \in {"more", "last"}
                      /\ resp' = [resp EXCEPT ![n] =
                                    Append(@, Stored(m, IsLast(m, attr[n]) = "last"))]
                      /\ finished' = [finished EXCEPT ![n] = IsLast(m, attr[n]) = "last"]
<1> DEFINE m == Head(inbox)
           k == <<m.global, m.id>>
           n == jobs[k]
           last == IsLast(m, attr[n]) = "last"
<1>1. m \in Messages /\ (m.h # "data" => \A j : SaidIn(inbox', j) = SaidIn(Tail(inbox), j))
  BY RestOfInbox
<1>2. k \in Keys
  BY <1>1 DEF Messages, Keys, Ids
<1>3. n \in 0 .. NoTicket /\ NoTicket \notin Jobs /\ 0 \notin Jobs
      /\ (n \notin Jobs => n = 0 \/ n = NoTicket)
  BY <1>2, NodeThreadAssumption DEF IInv, MapInv, NoTicket, Jobs
<1>4. "data" \notin Headers
  BY DEF Headers, AlwaysLast, NeverLast
<1>5. \/ mgr' \in {"failed", "crashed"} /\ UNCHANGED <<resp, finished>>
      \/ m.h \in Headers /\ n = NoTicket /\ NotFound(m)
      \/ /\ m.h \in Headers /\ n # NoTicket /\ IsLast(m, attr[n]) \in {"more", "last"}
         /\ Deliver(m, n, last)
  BY DEF DoMessage, ManagerEnds
<1> HIDE DEF k
<1>6. CASE m.h \in Headers /\ n = NoTicket /\ NotFound(m)
  BY <1>1, <1>3, <1>4, <1>6 DEF NotFound, k
<1>7. CASE /\ m.h \in Headers /\ n # NoTicket /\ IsLast(m, attr[n]) \in {"more", "last"}
           /\ Deliver(m, n, last)
  <2>1. m.h # "data" /\ mgr' = "queue"
    BY <1>4, <1>7 DEF Deliver
  <2>2. CASE n = 0
    BY <1>1, <1>3, <1>7, <2>1, <2>2 DEF Deliver, k
  <2>3. CASE n # 0
    <3>1. n \in Jobs
      BY <1>3, <1>7, <2>3
    <3>2. ~finished[n]
      BY <1>2, <3>1 DEF IInv, MapInv
    <3>3. resp' = [resp EXCEPT ![n] = Append(@, Stored(m, last))]
      BY <1>7, <2>3 DEF Deliver, PutResponse
    <3>4. finished' = [finished EXCEPT ![n] = last]
      BY <1>7, <2>3, <3>1, <3>2 DEF Deliver, PutResult, IInv, MapInv
    <3> QED
      BY <1>1, <1>7, <2>1, <3>1, <3>2, <3>3, <3>4 DEF k
  <2> QED
    BY <2>2, <2>3
<1> QED
  BY <1>5, <1>6, <1>7 DEF k

-----------------------------------------------------------------------------
(* Every step keeps conversations and addresses.                            *)

\* Every step keeps ScriptInv.
LEMMA ScriptStep ==
  ASSUME IInv, ScriptInv, [Next]_vars
  PROVE  ScriptInv'
<1>1. ASSUME NEW c \in Clients, NEW r \in Requests, Call(c, r) PROVE ScriptInv'
  <2>1. script' = script /\ attr' = [attr EXCEPT ![started'] = r]
    BY <1>1 DEF Call, node
  <2>2. /\ started' \in Jobs /\ started' = started + 1 /\ started \in Nat
        /\ Taken \in 0 .. started
    BY <1>1, CallTaken DEF IInv
  <2>3. script[started'] = <<>>
    BY <2>2 DEF IInv, WireInv, Jobs
  <2>4. attr'[0] = attr[0] /\ \A j \in Jobs : j # started' => attr'[j] = attr[j]
    BY <2>1, <2>2 DEF IInv, WireInv, Jobs
  <2> HIDE DEF CreatedTicket
  <2> QED
    BY <2>1, <2>2, <2>3, <2>4 DEF ScriptInv
<1>2. ASSUME SendClientReq PROVE ScriptInv'
  <2> DEFINE n == Head(queue)
  <2>1. n \in Jobs /\ attr' = attr
    BY <1>2, SendTaken DEF IInv, SendClientReq, ticket
  <2>2. CASE script' = script
    BY <2>1, <2>2 DEF ScriptInv
  <2>3. CASE \E s \in Conversations(n) : script' = [script EXCEPT ![n] = s]
    <3>1. PICK s \in Conversations(n) : script' = [script EXCEPT ![n] = s]
      BY <2>3
    <3>2. script'[n] = s /\ \A j \in Jobs : j # n => script'[j] = script[j]
      BY <2>1, <3>1 DEF IInv, WireInv, Jobs
    <3>3. s \in Answers(attr[n]) \/ (attr[n].id # "" /\ s = Words(<<"IdentifierCollision">>))
      BY DEF Conversations
    <3> HIDE DEF n, CreatedTicket
    <3> QED
      BY <2>1, <3>2, <3>3 DEF ScriptInv
  <2> QED
    BY <1>2, <2>2, <2>3 DEF SendClientReq
<1>3. ASSUME UNCHANGED <<script, attr>> PROVE ScriptInv'
  BY <1>3 DEF ScriptInv
<1>4. ASSUME \/ \E c \in Clients : ClientStep(c)
             \/ NoMessage \/ SocketFails \/ DoMessage \/ NoRequest
             \/ \E j \in 0 .. MaxJobs : NodeAnswers(j)
             \/ UNCHANGED vars
      PROVE  ScriptInv'
  <2>1. UNCHANGED <<script, attr>>
    BY <1>4 DEF ClientStep, WaitOver, GetResponse, GiveUp, NoMessage, SocketFails, DoMessage,
                NoRequest, NodeAnswers, vars, ticket, node
  <2> QED
    BY <1>3, <2>1
<1> QED
  BY <1>1, <1>2, <1>4 DEF Next, Manager

\* Every step keeps AddressInv.
LEMMA AddressStep ==
  ASSUME IInv, AddressInv, [Next]_vars
  PROVE  AddressInv'
<1>0. inbox \in Seq(Messages) /\ DOMAIN inbox = 1 .. Len(inbox) /\ Len(inbox) \in Nat
  BY DEF IInv, WireInv
<1>1. \A i \in 1 .. Len(inbox) : inbox[i].re \in 0 .. MaxJobs
  <2>1. \A i \in 1 .. Len(inbox) : inbox[i] \in Messages
    BY <1>0
  <2> QED
    BY <2>1 DEF Messages
<1>2. ASSUME inbox' = inbox, Taken' >= Taken, Taken \in Int, Taken' \in Int,
             \A j \in 0 .. MaxJobs : j <= Taken => attr'[j] = attr[j]
      PROVE  AddressInv'
  <2> SUFFICES ASSUME NEW i \in 1 .. Len(inbox)
               PROVE  /\ inbox[i].re <= Taken'
                      /\ inbox[i].id = attr'[inbox[i].re].id
                      /\ inbox[i].global = attr'[inbox[i].re].global
                      /\ inbox[i].h = "AllData" => inbox[i + 1].h = "data"
    BY <1>0, <1>2 DEF AddressInv
  <2>1. inbox[i].re \in 0 .. MaxJobs /\ inbox[i].re <= Taken
    BY <1>0, <1>1 DEF AddressInv
  <2> QED
    BY <1>0, <1>2, <2>1 DEF AddressInv
<1>3. Taken \in Nat
  BY NodeThreadAssumption DEF IInv, QueueInv, Taken
<1>4. ASSUME NEW c \in Clients, NEW r \in Requests, Call(c, r) PROVE AddressInv'
  <2>1. inbox' = inbox /\ attr' = [attr EXCEPT ![started'] = r]
    BY <1>4 DEF Call
  <2>2. /\ started' \in Jobs /\ started' = started + 1 /\ started \in Nat
        /\ Taken \in 0 .. started /\ Taken' = Taken
    BY <1>4, CallTaken DEF IInv
  <2>3. \A j \in 0 .. MaxJobs : j <= Taken => attr'[j] = attr[j]
    BY <2>1, <2>2 DEF IInv, WireInv
  <2> QED
    BY <1>2, <1>3, <2>1, <2>2, <2>3
<1>5. ASSUME SendClientReq PROVE AddressInv'
  <2>1. Taken' = Taken + 1 /\ inbox' = inbox /\ attr' = attr
    BY <1>5, SendTaken DEF IInv, SendClientReq, ticket
  <2> QED
    BY <1>2, <1>3, <2>1
<1>6. ASSUME \/ \E c \in Clients : ClientStep(c)
             \/ NoMessage \/ SocketFails \/ NoRequest \/ UNCHANGED vars
      PROVE  AddressInv'
  <2>1. UNCHANGED <<attr, inbox, started, queue>>
    BY <1>6 DEF ClientStep, WaitOver, GetResponse, GiveUp, NoMessage, SocketFails,
                NoRequest, vars, ticket, manager
  <2>2. Taken' = Taken
    BY <2>1 DEF Taken
  <2> QED
    BY <1>2, <1>3, <2>1, <2>2
<1>7. ASSUME DoMessage PROVE AddressInv'
  <2>1. UNCHANGED <<attr, started, queue>>
    BY <1>7 DEF DoMessage
  <2>2. Taken' = Taken
    BY <2>1 DEF Taken
  <2>3. PICK d \in {1, 2} : /\ Len(inbox') = Len(inbox) - d
                            /\ \A i \in 1 .. Len(inbox') : inbox'[i] = inbox[i + d]
    BY <1>7, RestOfInbox
  <2>4. inbox' \in Seq(Messages) /\ DOMAIN inbox' = 1 .. Len(inbox')
    BY <1>7, RestOfInbox
  <2> SUFFICES ASSUME NEW i \in 1 .. Len(inbox')
               PROVE  /\ inbox'[i].re <= Taken
                      /\ inbox'[i].id = attr[inbox'[i].re].id
                      /\ inbox'[i].global = attr[inbox'[i].re].global
                      /\ inbox'[i].h = "AllData" => inbox'[i + 1].h = "data"
    BY <2>1, <2>2, <2>4 DEF AddressInv
  <2>5. i + d \in DOMAIN inbox /\ inbox'[i] = inbox[i + d]
    BY <1>0, <2>3
  <2>6. ASSUME inbox'[i].h = "AllData" PROVE inbox'[i + 1].h = "data"
    <3>1. (i + d) + 1 \in DOMAIN inbox /\ inbox[(i + d) + 1].h = "data"
      BY <2>5, <2>6 DEF IInv, WireInv, AddressInv
    <3>2. i + 1 \in 1 .. Len(inbox') /\ (i + 1) + d = (i + d) + 1
      BY <1>0, <2>3, <3>1
    <3> QED
      BY <2>3, <3>1, <3>2
  <2> QED
    BY <2>5, <2>6 DEF AddressInv
<1>8. ASSUME NEW j \in 0 .. MaxJobs, NodeAnswers(j) PROVE AddressInv'
  <2> DEFINE m == Message(j, pos'[j])
             d == [m EXCEPT !.h = "data"]
  <2>1. UNCHANGED <<attr, started, queue>> /\ pos[j] < Len(script[j])
        /\ pos' = [pos EXCEPT ![j] = @ + 1]
        /\ inbox' = inbox \o (IF m.h = "AllData" THEN <<m, d>> ELSE <<m>>)
    BY <1>8 DEF NodeAnswers, ticket, manager
  <2>2. Taken' = Taken
    BY <2>1 DEF Taken
  <2>3. m \in Messages /\ d \in Messages
    <3>1. pos'[j] = pos[j] + 1
      BY <2>1 DEF IInv, WireInv
    <3> QED
      BY <2>1, <3>1, MessageTyped DEF IInv
  <2>4. m.re = j /\ m.id = attr[j].id /\ m.global = attr[j].global
        /\ d.re = j /\ d.id = attr[j].id /\ d.global = attr[j].global /\ d.h = "data"
    BY DEF Message
  <2>5. j <= Taken
    <3>1. j = 0 => j <= Taken
      BY <1>3
    <3>2. j # 0 => j \in Jobs
      BY DEF Jobs
    <3>3. ASSUME j \in Jobs, j > Taken PROVE FALSE
      <4>1. script[j] = <<>> /\ pos[j] \in Nat
        BY <3>3 DEF IInv, WireInv
      <4> QED
        BY <2>1, <4>1
    <3> QED
      BY <1>3, <3>1, <3>2, <3>3 DEF Jobs
  <2> HIDE DEF m, d
  <2> DEFINE Right(e) == e.re <= Taken /\ e.id = attr[e.re].id /\ e.global = attr[e.re].global
  <2>6. \A i \in 1 .. Len(inbox) : Right(inbox[i])
    BY <1>0 DEF AddressInv
  <2>7. Right(m) /\ Right(d)
    BY <2>4, <2>5
  <2>8. \A i \in 1 .. Len(inbox) : inbox[i].h = "AllData" => i + 1 \in 1 .. Len(inbox) /\ inbox[i + 1].h = "data"
    BY <1>0 DEF AddressInv, IInv, WireInv
  <2> HIDE DEF Right
  <2>9. \A i \in DOMAIN inbox' : Right(inbox'[i]) /\ (inbox'[i].h = "AllData" => inbox'[i + 1].h = "data")
    <3>1. CASE m.h = "AllData"
      <4>1. inbox' = inbox \o <<m, d>> /\ <<m, d>> \in Seq(Messages)
        BY <2>1, <2>3, <3>1
      <4>2. /\ DOMAIN inbox' = 1 .. Len(inbox) + 2
            /\ \A i \in 1 .. Len(inbox) : inbox'[i] = inbox[i]
            /\ inbox'[Len(inbox) + 1] = m /\ inbox'[(Len(inbox) + 1) + 1] = d
        BY <1>0, <4>1
      <4>3. d.h # "AllData"
        BY <2>4
      <4> SUFFICES ASSUME NEW i \in 1 .. Len(inbox) + 2
                   PROVE  Right(inbox'[i]) /\ (inbox'[i].h = "AllData" => inbox'[i + 1].h = "data")
        BY <4>2
      <4>4. CASE i \in 1 .. Len(inbox)
        BY <2>6, <2>8, <4>2, <4>4
      <4>5. CASE i = Len(inbox) + 1
        BY <2>4, <2>7, <4>2, <4>5
      <4>6. CASE i = (Len(inbox) + 1) + 1
        BY <2>7, <4>2, <4>3, <4>6
      <4> QED
        BY <1>0, <4>4, <4>5, <4>6
    <3>2. CASE m.h # "AllData"
      <4>1. inbox' = inbox \o <<m>> /\ <<m>> \in Seq(Messages)
        BY <2>1, <2>3, <3>2
      <4>2. /\ DOMAIN inbox' = 1 .. Len(inbox) + 1
            /\ \A i \in 1 .. Len(inbox) : inbox'[i] = inbox[i]
            /\ inbox'[Len(inbox) + 1] = m
        BY <1>0, <4>1
      <4> SUFFICES ASSUME NEW i \in 1 .. Len(inbox) + 1
                   PROVE  Right(inbox'[i]) /\ (inbox'[i].h = "AllData" => inbox'[i + 1].h = "data")
        BY <4>2
      <4>4. CASE i \in 1 .. Len(inbox)
        BY <2>6, <2>8, <4>2, <4>4
      <4>5. CASE i = Len(inbox) + 1
        BY <2>7, <3>2, <4>2, <4>5
      <4> QED
        BY <1>0, <4>4, <4>5
    <3> QED
      BY <3>1, <3>2
  <2> QED
    BY <2>1, <2>2, <2>9 DEF AddressInv, Right
<1> QED
  BY <1>4, <1>5, <1>6, <1>7, <1>8 DEF Next, Manager

-----------------------------------------------------------------------------
(* Every step keeps the routing exact.                                      *)

\* The messages of a ticket and those on the way to it are sequences.
LEMMA RouteTyped ==
  ASSUME IInv, NEW j \in Jobs
  PROVE  /\ resp[j] \in Seq(StoredSet \cup Messages)
         /\ OnTheWay(j) \in Seq(StoredSet \cup Messages)
         /\ pos[j] \in Nat /\ script[j] \in Seq(WordSet) /\ pos[j] <= Len(script[j])
<1>1. resp[j] \in Seq(StoredSet) /\ inbox \in Seq(Messages)
  BY DEF IInv, TicketInv, WireInv
<1>2. OnTheWay(j) \in Seq(Messages)
  BY <1>1, SaidInTyped DEF OnTheWay
<1>3. j \in 0 .. MaxJobs
  BY DEF Jobs
<1> QED
  BY <1>1, <1>2, <1>3 DEF IInv, WireInv

\* A message moves from the head of what is on the way to the end of the ticket.
LEMMA Moves ==
  ASSUME NEW S, NEW a \in Seq(S), NEW m \in S, NEW e \in S, NEW b \in Seq(S), NEW j,
         m.h = e.h, m.code = e.code, m.re = e.re,
         Tells(a \o (<<m>> \o b), j)
  PROVE  Tells(Append(a, e) \o b, j)
<1> DEFINE s == a \o (<<m>> \o b)
           t == Append(a, e) \o b
<1>1. /\ <<m>> \o b \in Seq(S) /\ Len(<<m>> \o b) = Len(b) + 1
      /\ (<<m>> \o b)[1] = m /\ \A i \in 1 .. Len(b) : (<<m>> \o b)[1 + i] = b[i]
      /\ Len(a) \in Nat /\ Len(b) \in Nat
  <2> DEFINE c == <<m>>
  <2>1. c \in Seq(S) /\ Len(c) = 1 /\ c[1] = m /\ 1 \in 1 .. 1
    OBVIOUS
  <2>2. a \in Seq(S) /\ b \in Seq(S)
    OBVIOUS
  <2> HIDE DEF c
  <2>3. /\ c \o b \in Seq(S) /\ Len(c \o b) = Len(b) + 1
        /\ (c \o b)[1] = m /\ \A i \in 1 .. Len(b) : (c \o b)[1 + i] = b[i]
    <3>1. /\ c \o b \in Seq(S) /\ Len(c \o b) = Len(c) + Len(b) /\ Len(b) \in Nat
          /\ \A i \in 1 .. Len(c) : (c \o b)[i] = c[i]
          /\ \A i \in 1 .. Len(b) : (c \o b)[Len(c) + i] = b[i]
      <4>1. c \in Seq(S) /\ b \in Seq(S)
        BY <2>1, <2>2
      <4> QED
        BY ONLY <4>1
    <3> QED
      BY ONLY <2>1, <3>1
  <2>4. Len(a) \in Nat /\ Len(b) \in Nat
    BY ONLY <2>2, ConcatOf
  <2> QED
    BY <2>3, <2>4 DEF c
<1>2. /\ Len(s) = Len(a) + (Len(b) + 1)
      /\ \A i \in 1 .. Len(a) : s[i] = a[i]
      /\ s[Len(a) + 1] = m
      /\ \A i \in 1 .. Len(b) : s[Len(a) + (1 + i)] = b[i]
  <2> DEFINE c == <<m>> \o b
  <2>1. c \in Seq(S) /\ Len(c) = Len(b) + 1 /\ c[1] = m /\ \A i \in 1 .. Len(b) : c[1 + i] = b[i]
    BY <1>1
  <2> HIDE DEF c
  <2>2. /\ Len(a \o c) = Len(a) + Len(c) /\ Len(c) \in Nat
        /\ \A i \in 1 .. Len(a) : (a \o c)[i] = a[i]
        /\ \A i \in 1 .. Len(c) : (a \o c)[Len(a) + i] = c[i]
    <3>1. a \in Seq(S)
      OBVIOUS
    <3> QED
      BY ONLY <2>1, <3>1
  <2>3. 1 \in 1 .. Len(c) /\ \A i \in 1 .. Len(b) : 1 + i \in 1 .. Len(c)
    BY <1>1, <2>1
  <2> QED
    BY <2>1, <2>2, <2>3 DEF c
<1>3. /\ Len(t) = Len(a) + (Len(b) + 1)
      /\ \A i \in 1 .. Len(a) : t[i] = a[i]
      /\ t[Len(a) + 1] = e
      /\ \A i \in 1 .. Len(b) : t[Len(a) + (1 + i)] = b[i]
  <2> DEFINE c == Append(a, e)
  <2>1. c \in Seq(S) /\ Len(c) = Len(a) + 1 /\ c[Len(a) + 1] = e
        /\ \A i \in 1 .. Len(a) : c[i] = a[i]
    BY AppendOf
  <2> HIDE DEF c
  <2>2. /\ Len(c \o b) = Len(c) + Len(b)
        /\ \A i \in 1 .. Len(c) : (c \o b)[i] = c[i]
        /\ \A i \in 1 .. Len(b) : (c \o b)[Len(c) + i] = b[i]
    <3>1. b \in Seq(S)
      OBVIOUS
    <3> QED
      BY ONLY <2>1, <3>1
  <2>3. Len(a) + 1 \in 1 .. Len(c) /\ \A i \in 1 .. Len(a) : i \in 1 .. Len(c)
    BY <1>1, <2>1
  <2>4. \A i \in 1 .. Len(b) : Len(c) + i = Len(a) + (1 + i)
    BY <1>1, <2>1
  <2> QED
    BY <1>1, <2>1, <2>2, <2>3, <2>4 DEF c
<1>4. Tells(s, j)
  OBVIOUS
<1> HIDE DEF s, t
<1>5. Len(t) = pos[j]
  BY <1>2, <1>3, <1>4 DEF Tells
<1>6. ASSUME NEW i \in 1 .. pos[j]
      PROVE  t[i].h = s[i].h /\ t[i].code = s[i].code /\ t[i].re = s[i].re
  <2>1. CASE i \in 1 .. Len(a)
    BY <1>2, <1>3, <2>1
  <2>2. CASE i = Len(a) + 1
    BY <1>2, <1>3, <2>2
  <2>3. CASE ~(i <= Len(a) + 1)
    <3>1. i - (Len(a) + 1) \in 1 .. Len(b) /\ i = Len(a) + (1 + (i - (Len(a) + 1)))
      BY <1>1, <1>3, <1>5, <2>3
    <3> QED
      BY <1>2, <1>3, <3>1
  <2> QED
    BY <1>1, <2>1, <2>2, <2>3
<1> QED
  BY <1>4, <1>5, <1>6 DEF Tells, t

\* A prefix that is as long as all there is to tell.
LEMMA TellsPrefix ==
  ASSUME NEW S, NEW a \in Seq(S), NEW b \in Seq(S), NEW j, Tells(a \o b, j), Len(a) = pos[j]
  PROVE  Tells(a, j)
<1>1. \A i \in 1 .. Len(a) : (a \o b)[i] = a[i]
  BY ConcatOf, SMTT(30)
<1> QED
  BY <1>1 DEF Tells

\* The ticket gets the message it has to, and when that is the last one it
\* holds the whole conversation.
LEMMA RouteDoMessage ==
  ASSUME RInv, DoMessage
  PROVE  RouteInv' /\ FinalInv'
<1> DEFINE m == Head(inbox)
           k == <<m.global, m.id>>
           n == jobs[k]
           last == IsLast(m, attr[n]) = "last"
           All == StoredSet \cup Messages
<1>1. IInv /\ AddressInv /\ ScriptInv /\ Managing
  BY DEF RInv, DoMessage, Managing
<1>2. /\ UNCHANGED <<started, queue, attr, clashed, sent, script, pos>> /\ Taken' = Taken
      /\ \A j : Key(j)' = Key(j)
      /\ inbox # <<>>
  BY DEF DoMessage, node, Taken, Key
<1>3. m \in Messages /\ m = inbox[1] /\ 1 \in DOMAIN inbox
  BY <1>1, <1>2, TailOf DEF IInv, WireInv
<1>4. m.re \in 0 .. MaxJobs /\ m.re <= Taken /\ k = Key(m.re)
  BY <1>1, <1>3 DEF AddressInv, Messages, Key
<1>5. ASSUME UNCHANGED <<resp, finished>> PROVE FinalInv'
  BY <1>2, <1>5 DEF RInv, FinalInv, Tells
<1>6. CASE mgr' \in {"failed", "crashed"} /\ UNCHANGED <<resp, finished>>
  BY <1>5, <1>6 DEF RouteInv, Managing
<1>7. CASE /\ m.h \in Headers /\ mgr' = "queue"
           /\ \A j : SaidIn(inbox', j) = SaidIn(Tail(inbox), j)
           /\ \/ n \notin Jobs /\ UNCHANGED <<resp, finished>>
              \/ /\ n \in Jobs /\ ~finished[n]
                 /\ IsLast(m, attr[n]) \in {"more", "last"}
                 /\ resp' = [resp EXCEPT ![n] = Append(@, Stored(m, last))]
                 /\ finished' = [finished EXCEPT ![n] = last]
  <2> HIDE DEF last
  <2>1. "data" \notin Headers
    BY DEF Headers, AlwaysLast, NeverLast
  <2>2. \A j : IsSaidTo(m, j) <=> m.re = j
    BY <1>7, <2>1 DEF IsSaidTo
  <2>3. ASSUME NEW j \in Jobs, m.re # j PROVE OnTheWay(j)' = OnTheWay(j)
    <3>1. SaidIn(inbox, j) = <<>> \o SaidIn(Tail(inbox), j)
      BY <1>1, <1>2, <2>2, <2>3, SaidInHead DEF IInv, WireInv
    <3>2. SaidIn(Tail(inbox), j) \in Seq(Messages)
      BY <1>1, <1>2, TailOf, SaidInTyped DEF IInv, WireInv
    <3> DEFINE t == SaidIn(Tail(inbox), j)
    <3> HIDE DEF t
    <3>3. <<>> \o t = t
      BY <3>2 DEF t
    <3> QED
      BY <1>7, <3>1, <3>3 DEF OnTheWay, t
  <2>4. ASSUME NEW j \in Jobs, j > Taken \/ Key(j) \notin clashed, m.re # j
        PROVE  n # j
    <3> SUFFICES ASSUME n = j PROVE FALSE
      OBVIOUS
    <3>1. Key(j) = k /\ j <= Taken
      BY <1>1, <1>3 DEF IInv, MapInv, Messages, Keys, Ids
    <3>2. Taken \in Int
      BY NodeThreadAssumption, <1>1 DEF IInv, QueueInv, Taken
    <3>3. Key(j) \notin clashed
      BY <2>4, <3>1, <3>2 DEF Jobs
    <3> QED
      BY <1>1, <1>2, <1>7, <2>1, <2>4, <3>3, FoundIsItsTicket
  <2>5. ASSUME NEW j \in Jobs, j > Taken \/ Key(j) \notin clashed, m.re = j
        PROVE  /\ n = j /\ Key(j) \notin clashed
               /\ OnTheWay(j) = <<m>> \o OnTheWay(j)'
               /\ OnTheWay(j)' \in Seq(Messages)
    <3>1. Key(j) \notin clashed
      <4>1. Taken \in Int
        BY NodeThreadAssumption, <1>1 DEF IInv, QueueInv, Taken
      <4> QED
        BY <1>4, <2>5, <4>1 DEF Jobs
    <3>2. n = j
      BY <1>1, <1>2, <1>4, <2>2, <2>5, <3>1, FindsItsTicket
    <3>3. OnTheWay(j) = <<m>> \o SaidIn(Tail(inbox), j) /\ SaidIn(Tail(inbox), j) \in Seq(Messages)
      BY <1>1, <1>2, <2>2, <2>5, FirstIsSaid, SMTT(30)
    <3>4. OnTheWay(j)' = SaidIn(Tail(inbox), j)
      BY <1>7, SMTT(30) DEF OnTheWay
    <3> QED
      BY <3>1, <3>2, <3>3, <3>4
  <2>6. \A j \in Jobs : n # j => resp'[j] = resp[j] /\ finished'[j] = finished[j]
    BY <1>1, <1>7 DEF IInv, TicketInv, MapInv
  <2>7. ASSUME NEW j \in Jobs, j > Taken \/ Key(j) \notin clashed
        PROVE  Tells(resp[j] \o OnTheWay(j), j)
    BY <1>1, <2>7 DEF RInv, RouteInv
  <2>8. ASSUME NEW j \in Jobs, j > Taken \/ Key(j) \notin clashed, m.re = j
        PROVE  /\ Tells(resp'[j] \o OnTheWay(j)', j)
               /\ resp'[j] = Append(resp[j], Stored(m, last)) /\ finished'[j] = last
               /\ resp'[j] \in Seq(All) /\ OnTheWay(j)' \in Seq(All)
    <3>1. n = j /\ OnTheWay(j) = <<m>> \o OnTheWay(j)' /\ OnTheWay(j)' \in Seq(All)
      BY <2>5, <2>8
    <3>2. resp'[j] = Append(resp[j], Stored(m, last)) /\ finished'[j] = last
      BY <1>1, <1>7, <3>1 DEF IInv, TicketInv, MapInv
    <3>3. Stored(m, last) \in StoredSet
      BY <1>3, <1>7 DEF Stored, StoredSet, Messages, last
    <3>4. Stored(m, last).h = m.h /\ Stored(m, last).code = m.code /\ Stored(m, last).re = m.re
      BY DEF Stored
    <3>5. resp[j] \in Seq(All)
      BY <1>1, RouteTyped
    <3> DEFINE a == resp[j]
               b == OnTheWay(j)'
               e == Stored(m, last)
    <3>6. a \in Seq(All) /\ b \in Seq(All) /\ e \in All /\ m \in All /\ Tells(a \o (<<m>> \o b), j)
      BY <1>3, <2>7, <2>8, <3>1, <3>3, <3>5
    <3>7. e.h = m.h /\ e.code = m.code /\ e.re = m.re
      BY <3>4
    <3> HIDE DEF All, a, b, e, m
    <3>8. Tells(Append(a, e) \o b, j) /\ Append(a, e) \in Seq(All)
      BY <3>6, <3>7, Moves, AppendOf
    <3> QED
      BY <3>1, <3>2, <3>8 DEF a, b, e
  <2>9. RouteInv'
    <3> SUFFICES ASSUME NEW j \in Jobs, j > Taken \/ Key(j) \notin clashed
                 PROVE  Tells(resp[j] \o OnTheWay(j), j)'
      BY <1>2 DEF RouteInv
    <3>1. Tells(resp'[j] \o OnTheWay(j)', j)
      <4>1. CASE m.re = j
        BY <2>8, <4>1
      <4>2. CASE m.re # j
        BY <2>3, <2>4, <2>6, <2>7, <4>2
      <4> QED
        BY <4>1, <4>2
    <3> QED
      BY <1>2, <3>1 DEF Tells
  <2>10. FinalInv'
    <3> SUFFICES ASSUME NEW j \in Jobs, finished'[j], Key(j) \notin clashed
                 PROVE  Tells(resp[j], j)' /\ pos[j] = Len(script[j])
      BY <1>2 DEF FinalInv
    <3>1. CASE m.re # j
      <4>1. resp'[j] = resp[j] /\ finished'[j] = finished[j]
        BY <2>4, <2>6, <3>1
      <4> QED
        BY <1>2, <4>1 DEF RInv, FinalInv, Tells
    <3>2. CASE m.re = j
      <4> DEFINE a == resp'[j]
                 b == OnTheWay(j)'
                 w == script[j]
                 p == pos[j]
      <4>1. /\ Tells(a \o b, j) /\ a = Append(resp[j], Stored(m, last)) /\ last
            /\ a \in Seq(All) /\ b \in Seq(All)
        BY <2>8, <3>2
      <4>2. n = j /\ p \in Nat /\ w \in Seq(WordSet) /\ p <= Len(w) /\ resp[j] \in Seq(All)
        BY <1>1, <2>5, <3>2, RouteTyped
      <4>3. a[Len(a)] = Stored(m, last) /\ Len(a) \in Nat \ {0}
        <5> DEFINE e == Stored(m, last)
                   r == resp[j]
        <5>1. e \in All
          BY <1>3, <1>7 DEF Stored, StoredSet, Messages, last
        <5>2. r \in Seq(All) /\ a = Append(r, e)
          BY <4>1, <4>2
        <5> HIDE DEF a, e, r, All
        <5>3. Len(Append(r, e)) = Len(r) + 1 /\ Append(r, e)[Len(r) + 1] = e /\ Len(r) \in Nat
          BY ONLY <5>1, <5>2, AppendOf
        <5> QED
          BY ONLY <5>2, <5>3 DEF e
      <4> HIDE DEF a, b, w, All
      <4>4. /\ Len(a \o b) = p /\ Len(a) <= p /\ (a \o b)[Len(a)] = a[Len(a)]
        <5>1. Len(a \o b) = p
          BY <4>1 DEF Tells
        <5>2. /\ Len(a \o b) = Len(a) + Len(b) /\ Len(b) \in Nat
              /\ \A i \in 1 .. Len(a) : (a \o b)[i] = a[i]
          <6>1. a \in Seq(All) /\ b \in Seq(All)
            BY <4>1
          <6> QED
            BY ONLY <6>1
        <5> QED
          BY ONLY <4>3, <5>1, <5>2
      <4>5. a[Len(a)].h = w[Len(a)].h /\ a[Len(a)].code = w[Len(a)].code /\ Len(a) \in 1 .. p
        <5>1. Len(a) \in 1 .. p
          BY ONLY <4>2, <4>3, <4>4
        <5>2. \A i \in 1 .. p : (a \o b)[i].h = w[i].h /\ (a \o b)[i].code = w[i].code
          BY <4>1 DEF Tells, w
        <5> QED
          BY ONLY <4>4, <5>1, <5>2
      <4>6. m.h = w[Len(a)].h /\ m.code = w[Len(a)].code
        BY <4>3, <4>5 DEF Stored
      <4>7. IsLast(w[Len(a)], attr[j]) = "last"
        <5>1. IsLast(m, attr[j]) = "last"
          BY <4>1, <4>2 DEF last
        <5> HIDE DEF m
        <5> QED
          BY <1>7, <4>6, <5>1, LastOfWord
      <4>8. Proper(w, attr[j])
        BY <1>1, ScriptsProper DEF w
      <4>9. Len(a) = Len(w)
        BY <4>2, <4>5, <4>7, <4>8 DEF Proper
      <4>10. p = Len(w) /\ Len(a) = p
        BY <4>2, <4>3, <4>4, <4>9
      <4>11. Tells(a, j)
        BY <4>1, <4>10, TellsPrefix
      <4> QED
        BY <1>2, <4>10, <4>11 DEF Tells, a, w
    <3> QED
      BY <3>1, <3>2
  <2> QED
    BY <2>9, <2>10
<1> HIDE DEF k, last, m
<1> QED
  BY <1>1, <1>6, <1>7, Reading DEF k, last, m

\* The node says one more word of a conversation: one more message is on the
\* way to its request, and none more to any other.
LEMMA RouteNodeAnswers ==
  ASSUME RInv, NEW j \in 0 .. MaxJobs, NodeAnswers(j)
  PROVE  RouteInv' /\ FinalInv'
<1> DEFINE m == Message(j, pos'[j])
           d == [m EXCEPT !.h = "data"]
           All == StoredSet \cup Messages
<1>1. IInv
  BY DEF RInv
<1>2. /\ UNCHANGED <<started, queue, attr, clashed, script, resp, finished, mgr>>
      /\ Taken' = Taken /\ \A i : Key(i)' = Key(i)
      /\ pos[j] < Len(script[j]) /\ pos' = [pos EXCEPT ![j] = @ + 1]
      /\ inbox' = inbox \o (IF m.h = "AllData" THEN <<m, d>> ELSE <<m>>)
  BY DEF NodeAnswers, ticket, manager, Taken, Key
<1>3. pos \in [0 .. MaxJobs -> Nat] /\ pos'[j] = pos[j] + 1 /\ inbox \in Seq(Messages)
  BY <1>1, <1>2 DEF IInv, WireInv
<1>4. m \in Messages /\ d \in Messages /\ d.h = "data" /\ m.h # "data"
      /\ m.h = script[j][pos[j] + 1].h /\ m.code = script[j][pos[j] + 1].code /\ m.re = j
  <2>1. m \in Messages /\ d \in Messages
    BY <1>1, <1>2, <1>3, MessageTyped DEF IInv
  <2>2. script[j][pos[j] + 1] \in WordSet
    <3>1. script[j] \in Seq(WordSet) /\ pos[j] \in Nat
      BY <1>1, <1>3 DEF IInv, WireInv
    <3> QED
      BY <1>2, <3>1
  <2>3. m.h = script[j][pos[j] + 1].h /\ m.code = script[j][pos[j] + 1].code /\ m.re = j
        /\ d.h = "data"
    BY <1>3 DEF Message
  <2> HIDE DEF m, d
  <2> QED
    BY <2>1, <2>2, <2>3 DEF WordSet, Headers, AlwaysLast, NeverLast
<1> HIDE DEF m, d
<1>5. ASSUME NEW i
      PROVE  OnTheWay(i)' = IF i = j THEN Append(OnTheWay(i), m) ELSE OnTheWay(i)
  <2> DEFINE s == Append(inbox, m)
  <2>1. s \in Seq(Messages) /\ SaidIn(s, i) = IF i = j THEN Append(OnTheWay(i), m) ELSE OnTheWay(i)
    BY <1>3, <1>4, SaidInAppend DEF OnTheWay, IsSaidTo
  <2>2. CASE m.h = "AllData"
    <3>1. inbox' = Append(s, d)
      <4>1. inbox \o <<m, d>> = Append(Append(inbox, m), d)
        BY <1>3, <1>4
      <4> QED
        BY <1>2, <2>2, <4>1
    <3> HIDE DEF s
    <3>2. SaidIn(Append(s, d), i) = SaidIn(s, i)
      BY <1>4, <2>1, SaidInAppend DEF IsSaidTo
    <3> QED
      BY <2>1, <3>1, <3>2 DEF OnTheWay
  <2>3. CASE m.h # "AllData"
    <3>1. inbox' = s
      <4>1. inbox \o <<m>> = Append(inbox, m)
        BY <1>3, <1>4
      <4> QED
        BY <1>2, <2>3, <4>1
    <3> QED
      BY <2>1, <3>1 DEF OnTheWay
  <2> QED
    BY <2>2, <2>3
<1>6. ASSUME NEW i \in Jobs, i # j, NEW s PROVE Tells(s, i)' = Tells(s', i)
  <2>1. pos'[i] = pos[i] /\ script' = script
    BY <1>2, <1>3, <1>6 DEF Jobs
  <2> QED
    BY <2>1 DEF Tells
<1>7. RouteInv'
  <2> SUFFICES ASSUME Managing, NEW i \in Jobs, i > Taken \/ Key(i) \notin clashed
               PROVE  Tells(resp[i] \o OnTheWay(i), i)'
    BY <1>2 DEF RouteInv, Managing
  <2>1. Tells(resp[i] \o OnTheWay(i), i)
    BY DEF RInv, RouteInv
  <2>2. CASE i # j
    <3>1. pos'[i] = pos[i] /\ script' = script /\ resp' = resp
      BY <1>2, <1>3, <2>2 DEF Jobs
    <3>2. OnTheWay(i)' = OnTheWay(i)
      BY <1>5, <2>2
    <3> QED
      BY <2>1, <3>1, <3>2 DEF Tells
  <2>3. CASE i = j
    <3> DEFINE a == resp[j]
               b == OnTheWay(j)
               p == pos[j]
    <3>1. a \in Seq(All) /\ b \in Seq(All) /\ m \in All /\ p \in Nat
      BY <1>1, <1>4, <2>3, RouteTyped
    <3>2. Tells(a \o b, j)
      BY <2>1, <2>3
    <3> HIDE DEF a, b, p, All
    <3>3. a \o Append(b, m) = Append(a \o b, m) /\ a \o b \in Seq(All)
      BY ONLY <3>1
    <3> DEFINE s == a \o b
               t == Append(s, m)
    <3>4. /\ Len(t) = Len(s) + 1 /\ t[Len(s) + 1] = m /\ \A q \in 1 .. Len(s) : t[q] = s[q]
      BY <3>1, <3>3, AppendOf
    <3> HIDE DEF t
    <3>5. Len(s) = p /\ \A q \in 1 .. p :
             s[q].h = script[j][q].h /\ s[q].code = script[j][q].code /\ s[q].re = j
      BY <3>2 DEF Tells, p
    <3> HIDE DEF s
    <3>6. Len(t) = p + 1
      BY <3>4, <3>5
    <3>7. ASSUME NEW q \in 1 .. p + 1
          PROVE  t[q].h = script[j][q].h /\ t[q].code = script[j][q].code /\ t[q].re = j
      <4>1. CASE q \in 1 .. p
        BY <3>4, <3>5, <4>1
      <4>2. CASE q = p + 1
        BY <1>4, <3>4, <3>5, <4>2 DEF p
      <4> QED
        BY <3>1, <4>1, <4>2
    <3>8. (resp[i] \o OnTheWay(i))' = t /\ pos'[j] = p + 1 /\ script' = script
      BY <1>2, <1>3, <1>5, <2>3, <3>3 DEF a, b, s, t, p
    <3> QED
      BY <2>3, <3>6, <3>7, <3>8 DEF Tells
  <2> QED
    BY <2>2, <2>3
<1>8. FinalInv'
  <2> SUFFICES ASSUME NEW i \in Jobs, finished[i], Key(i) \notin clashed
               PROVE  Tells(resp[i], i)' /\ pos'[i] = Len(script[i])
    BY <1>2 DEF FinalInv
  <2>1. Tells(resp[i], i) /\ pos[i] = Len(script[i])
    BY DEF RInv, FinalInv
  <2>2. i # j
    BY <1>2, <1>3, <2>1
  <2>3. pos'[i] = pos[i] /\ script' = script /\ resp' = resp
    BY <1>2, <1>3, <2>2 DEF Jobs
  <2> QED
    BY <2>1, <2>3 DEF Tells
<1> QED
  BY <1>7, <1>8

\* Every step keeps RouteInv and FinalInv.
LEMMA RouteStep ==
  ASSUME RInv, [Next]_vars
  PROVE  RouteInv' /\ FinalInv'
<1>0. IInv
  BY DEF RInv
<1>1. ASSUME NEW c \in Clients, NEW r \in Requests, Call(c, r) PROVE RouteInv' /\ FinalInv'
  <2>1. UNCHANGED <<resp, finished, clashed, inbox, script, pos, mgr>>
        /\ attr' = [attr EXCEPT ![started'] = r]
    BY <1>1 DEF Call, node
  <2>2. /\ started' \in Jobs /\ started' = started + 1 /\ started \in Nat
        /\ Taken \in 0 .. started /\ Taken' = Taken
    BY <1>0, <1>1, CallTaken DEF IInv
  <2>3. \A j \in Jobs : j # started' => Key(j)' = Key(j)
    BY <1>0, <2>1, <2>2 DEF IInv, WireInv, Jobs, Key
  <2>4. \A j : OnTheWay(j)' = OnTheWay(j)
    BY <2>1 DEF OnTheWay
  <2>5. RouteInv'
    <3> SUFFICES ASSUME Managing, NEW j \in Jobs, j > Taken \/ Key(j)' \notin clashed
                 PROVE  Tells(resp[j] \o OnTheWay(j), j)'
      BY <2>1, <2>2 DEF RouteInv, Managing
    <3>1. j > Taken \/ Key(j) \notin clashed
      BY <2>2, <2>3
    <3>2. Tells(resp[j] \o OnTheWay(j), j)
      BY <3>1 DEF RInv, RouteInv
    <3> QED
      BY <2>1, <2>4, <3>2 DEF Tells
  <2>6. FinalInv'
    <3> SUFFICES ASSUME NEW j \in Jobs, finished[j], Key(j)' \notin clashed
                 PROVE  Tells(resp[j], j)' /\ pos[j] = Len(script[j])
      BY <2>1 DEF FinalInv
    <3>1. j # started'
      BY <1>0, <2>2 DEF IInv, MapInv
    <3>2. Tells(resp[j], j) /\ pos[j] = Len(script[j])
      BY <2>3, <3>1 DEF RInv, FinalInv
    <3> QED
      BY <2>1, <3>2 DEF Tells
  <2> QED
    BY <2>5, <2>6
<1>2. ASSUME SendClientReq PROVE RouteInv' /\ FinalInv'
  <2> DEFINE n == Head(queue)
  <2>1. UNCHANGED <<attr, resp, finished, inbox, pos>> /\ clashed \subseteq clashed' /\ Managing
    BY <1>2 DEF SendClientReq, ticket, Managing
  <2>2. n = Taken + 1 /\ n \in Jobs /\ Taken' = Taken + 1 /\ Taken \in Nat
    BY <1>0, <1>2, SendTaken DEF IInv
  <2>3. script[n] = <<>> /\ pos[n] = 0
    <3>1. n \in 0 .. MaxJobs /\ n > Taken
      BY <2>2 DEF Jobs
    <3>2. script[n] = <<>> /\ pos[n] \in Nat /\ pos[n] <= Len(script[n])
      BY <1>0, <2>2, <3>1 DEF IInv, WireInv
    <3> QED
      BY <3>2
  <2>4. \A j \in Jobs : j # n => script'[j] = script[j]
    <3>1. script' = script \/ \E s : script' = [script EXCEPT ![n] = s]
      BY <1>2 DEF SendClientReq
    <3>2. script \in [0 .. MaxJobs -> Seq(WordSet)] /\ \A j \in Jobs : j \in 0 .. MaxJobs
      BY <1>0 DEF IInv, WireInv, Jobs
    <3> HIDE DEF n
    <3> QED
      BY ONLY <3>1, <3>2
  <2>5. \A j : Key(j)' = Key(j) /\ OnTheWay(j)' = OnTheWay(j)
    BY <2>1 DEF Key, OnTheWay
  <2> HIDE DEF n
  <2>7. RouteInv'
    <3> SUFFICES ASSUME NEW j \in Jobs, j > Taken' \/ Key(j) \notin clashed'
                 PROVE  Tells(resp[j] \o OnTheWay(j), j)'
      BY <2>5 DEF RouteInv
    <3>1. j > Taken \/ Key(j) \notin clashed
      BY <2>1, <2>2 DEF Jobs
    <3>2. Tells(resp[j] \o OnTheWay(j), j)
      BY <2>1, <3>1 DEF RInv, RouteInv
    <3>3. CASE j = n
      BY <2>1, <2>3, <2>5, <3>2, <3>3 DEF Tells
    <3>4. CASE j # n
      BY <2>1, <2>4, <2>5, <3>2, <3>4 DEF Tells
    <3> QED
      BY <3>3, <3>4
  <2>8. FinalInv'
    <3> SUFFICES ASSUME NEW j \in Jobs, finished[j], Key(j) \notin clashed'
                 PROVE  Tells(resp[j], j)' /\ pos[j] = Len(script'[j])
      BY <2>1, <2>5 DEF FinalInv
    <3>1. Tells(resp[j], j) /\ pos[j] = Len(script[j])
      BY <2>1 DEF RInv, FinalInv
    <3>2. j # n
      BY <1>0, <2>2 DEF IInv, MapInv
    <3> QED
      BY <2>1, <2>4, <3>1, <3>2 DEF Tells
  <2> QED
    BY <2>7, <2>8
<1>3. ASSUME UNCHANGED <<started, queue, attr, clashed, inbox, script, pos, resp, finished>>,
             Managing' => Managing
      PROVE  RouteInv' /\ FinalInv'
  <2>1. Taken' = Taken /\ \A j : Key(j)' = Key(j) /\ OnTheWay(j)' = OnTheWay(j)
    BY <1>3 DEF Taken, Key, OnTheWay
  <2>2. RouteInv'
    <3> SUFFICES ASSUME Managing', NEW j \in Jobs, j > Taken \/ Key(j) \notin clashed
                 PROVE  Tells(resp[j] \o OnTheWay(j), j)'
      BY <1>3, <2>1 DEF RouteInv
    <3>1. Tells(resp[j] \o OnTheWay(j), j)
      BY <1>3 DEF RInv, RouteInv
    <3> QED
      BY <1>3, <2>1, <3>1 DEF Tells
  <2>3. FinalInv'
    BY <1>3, <2>1 DEF RInv, FinalInv, Tells
  <2> QED
    BY <2>2, <2>3
<1>4. ASSUME \/ \E c \in Clients : ClientStep(c)
             \/ NoMessage \/ SocketFails \/ NoRequest \/ UNCHANGED vars
      PROVE  RouteInv' /\ FinalInv'
  <2>1. UNCHANGED <<started, queue, attr, clashed, inbox, script, pos, resp, finished>>
        /\ (mgr' = mgr \/ mgr \in {"poll", "queue"})
    BY <1>4 DEF ClientStep, WaitOver, GetResponse, GiveUp, NoMessage, SocketFails, NoRequest,
                vars, ticket, manager, node
  <2> QED
    BY <1>3, <2>1 DEF Managing
<1>5. ASSUME NEW j \in 0 .. MaxJobs, NodeAnswers(j) PROVE RouteInv' /\ FinalInv'
  BY <1>5, RouteNodeAnswers
<1>6. ASSUME DoMessage PROVE RouteInv' /\ FinalInv'
  BY <1>6, RouteDoMessage
<1> QED
  BY <1>1, <1>2, <1>4, <1>5, <1>6 DEF Next, Manager

-----------------------------------------------------------------------------
(* Every step keeps what the operations were given.                         *)

\* Every step keeps ViewInv.
LEMMA ViewStep ==
  ASSUME RInv, [Next]_vars
  PROVE  ViewInv'
<1>0. IInv /\ ViewInv
  BY DEF RInv
<1>1. ASSUME UNCHANGED <<outcome, view>>,
             \A j \in Jobs : finished[j] => finished'[j] /\ resp'[j] = resp[j]
      PROVE  ViewInv'
  BY <1>0, <1>1 DEF ViewInv
<1>2. ASSUME NEW c \in Clients, cur[c] \in Jobs, UNCHANGED <<resp, finished>>,
             NEW how, outcome' = [outcome EXCEPT ![cur[c]] = how],
             how \in {"ok", "error"} => finished[cur[c]] /\ view'[cur[c]] = resp[cur[c]],
             \A j \in Jobs : j # cur[c] => view'[j] = view[j]
      PROVE  ViewInv'
  <2>1. outcome'[cur[c]] = how /\ \A j \in Jobs : j # cur[c] => outcome'[j] = outcome[j]
    BY <1>0, <1>2 DEF IInv, ClientInv
  <2> QED
    BY <1>0, <1>2, <2>1 DEF ViewInv
<1>3. ASSUME NEW c \in Clients, cpc[c] # "idle" PROVE cur[c] \in Jobs
  <2>1. cur[c] \in 1 .. started /\ started \in 0 .. MaxJobs
    BY <1>0, <1>3 DEF IInv, ClientInv, QueueInv
  <2> QED
    BY <2>1, NodeThreadAssumption DEF Jobs
<1>4. ASSUME NEW c \in Clients, WaitOver(c) PROVE ViewInv'
  <2>1. UNCHANGED <<resp, finished, view>> /\ cpc[c] # "idle"
    BY <1>4 DEF WaitOver, Waiting, ticket
  <2>2. CASE outcome' = outcome
    BY <1>1, <2>1, <2>2
  <2>3. CASE End(c, "ticket")
    <3>1. outcome' = [outcome EXCEPT ![cur[c]] = "ticket"]
      BY <2>3 DEF End
    <3> QED
      BY <1>2, <1>3, <2>1, <3>1
  <2> QED
    BY <1>4, <2>2, <2>3 DEF WaitOver
<1>5. ASSUME NEW c \in Clients, GetResponse(c) PROVE ViewInv'
  <2>1. UNCHANGED <<resp, finished>> /\ cpc[c] = "read"
        /\ view' = [view EXCEPT ![cur[c]] = resp[cur[c]]]
    BY <1>5 DEF GetResponse, ticket
  <2>2. finished[cur[c]] /\ cur[c] \in Jobs
    BY <1>0, <1>3, <2>1 DEF IInv, ClientInv
  <2>3. view'[cur[c]] = resp[cur[c]] /\ \A j \in Jobs : j # cur[c] => view'[j] = view[j]
    BY <1>0, <2>1, <2>2 DEF IInv, TicketInv
  <2>4. \E how : outcome' = [outcome EXCEPT ![cur[c]] = how]
    BY <1>5 DEF GetResponse, End
  <2> QED
    BY <1>2, <2>1, <2>2, <2>3, <2>4
<1>6. ASSUME NEW c \in Clients, GiveUp(c) PROVE ViewInv'
  <2>1. UNCHANGED <<resp, finished, view>> /\ cpc[c] # "idle"
    BY <1>6 DEF GiveUp, Waiting, ticket
  <2>2. \E how \in {"timeout", "failure"} : outcome' = [outcome EXCEPT ![cur[c]] = how]
    BY <1>6 DEF GiveUp, End
  <2> QED
    BY <1>2, <1>3, <2>1, <2>2
<1>7. ASSUME DoMessage PROVE ViewInv'
  <2>1. UNCHANGED <<outcome, view>>
    BY <1>7 DEF DoMessage, client
  <2>2. ASSUME NEW j \in Jobs, finished[j] PROVE finished'[j] /\ resp'[j] = resp[j]
    BY <1>0, <1>7, <2>2, TicketDoMessage DEF IInv, TicketInv, MapInv
  <2> QED
    BY <1>1, <2>1, <2>2
<1>8. ASSUME \/ \E c \in Clients, r \in Requests : Call(c, r)
             \/ NoMessage \/ SocketFails \/ NoRequest \/ SendClientReq
             \/ \E j \in 0 .. MaxJobs : NodeAnswers(j)
             \/ UNCHANGED vars
      PROVE  ViewInv'
  <2>1. UNCHANGED <<outcome, view, resp, finished>>
    BY <1>8 DEF Call, NoMessage, SocketFails, NoRequest, SendClientReq, NodeAnswers, vars,
                ticket, client
  <2> QED
    BY <1>1, <2>1
<1> QED
  BY <1>4, <1>5, <1>6, <1>7, <1>8 DEF Next, Manager, ClientStep

-----------------------------------------------------------------------------
(* The theorems.                                                            *)

\* It holds at first.
LEMMA InitRInv == Init => RInv
<1> SUFFICES ASSUME Init PROVE RInv
  OBVIOUS
<1>1. IInv
  BY InitIInv
<1>2. /\ attr = [j \in 0 .. MaxJobs |-> CreatedTicket] /\ inbox = <<>>
      /\ resp = [j \in Jobs |-> <<>>] /\ finished = [j \in Jobs |-> FALSE]
      /\ script = [j \in 0 .. MaxJobs |-> IF j = 0 THEN GlobalUpdates ELSE <<>>]
      /\ pos = [j \in 0 .. MaxJobs |-> 0] /\ outcome = [j \in Jobs |-> "none"]
  BY DEF Init
<1>3. ScriptInv
  <2>1. 0 \in 0 .. MaxJobs /\ \A j \in Jobs : j \in 0 .. MaxJobs /\ j # 0
    BY NodeThreadAssumption DEF Jobs
  <2> HIDE DEF CreatedTicket
  <2> QED
    BY <1>2, <2>1 DEF ScriptInv
<1>4. AddressInv
  BY <1>2 DEF AddressInv
<1>5. RouteInv
  <2> SUFFICES ASSUME NEW j \in Jobs PROVE Tells(resp[j] \o OnTheWay(j), j)
    BY DEF RouteInv
  <2>1. resp[j] = <<>> /\ OnTheWay(j) = <<>> /\ pos[j] = 0
    BY <1>2, SaidInEmpty DEF OnTheWay, Jobs
  <2>2. Len(<<>> \o <<>>) = 0
    OBVIOUS
  <2> QED
    BY <2>1, <2>2 DEF Tells
<1>6. FinalInv /\ ViewInv
  BY <1>2 DEF FinalInv, ViewInv
<1> QED
  BY <1>1, <1>3, <1>4, <1>5, <1>6 DEF RInv

\* Every step keeps it.
LEMMA RoutingStep ==
  ASSUME RInv, [Next]_vars
  PROVE  RInv'
<1>1. IInv /\ ScriptInv /\ AddressInv
  BY DEF RInv
<1>2. IInv'
  BY <1>1, QueueStep, WireStep, MapStep, TicketStep, ClientStepKeeps DEF IInv
<1> QED
  BY <1>1, <1>2, ScriptStep, AddressStep, RouteStep, ViewStep DEF RInv

\* The strengthening is an invariant.
THEOREM RoutingInvariant == Spec => []RInv
<1>1. RInv /\ [Next]_vars => RInv'
  BY RoutingStep
<1> QED
  BY <1>1, InitRInv, PTL DEF Spec

\* Nothing is lost, added or misdirected between the node and the tickets.
LEMMA RoutedExactly == RInv => ExactReplies
<1> SUFFICES ASSUME RInv, Managing, NEW j \in 1 .. started, Key(j) \notin clashed
             PROVE  Said(resp[j] \o OnTheWay(j)) = SaidTo(j)
  BY DEF ExactReplies
<1>1. j \in Jobs
  BY NodeThreadAssumption DEF RInv, IInv, QueueInv, Jobs
<1>2. Tells(resp[j] \o OnTheWay(j), j)
  BY <1>1 DEF RInv, RouteInv
<1> DEFINE a == resp[j]
           b == OnTheWay(j)
           All == StoredSet \cup Messages
<1>3. a \in Seq(All) /\ b \in Seq(All) /\ pos[j] \in Nat
  BY <1>1, RouteTyped DEF RInv
<1> HIDE DEF a, b, All
<1>4. a \o b \in Seq(All)
  BY <1>3
<1>5. Tells(a \o b, j)
  BY <1>2 DEF a, b
<1>6. Said(a \o b) = SaidTo(j)
  BY <1>3, <1>4, <1>5, TellsSaid
<1> QED
  BY <1>6 DEF a, b

\* Routing is exact: the ticket of a job whose key has not clashed, and the
\* connection after it, hold precisely what the node said to that job.
THEOREM RoutingIsExact == Spec => []ExactReplies
  BY RoutedExactly, RoutingInvariant, PTL

\* What is read of a finished ticket is its conversation to the end.
LEMMA AnsweredInFull == RInv => OwnAnswer
<1> SUFFICES ASSUME RInv, NEW j \in 1 .. started,
                    outcome[j] \in {"ok", "error"}, Key(j) \notin clashed
             PROVE  /\ Said(view[j]) = SaidTo(j)
                    /\ pos[j] = Len(script[j])
                    /\ finished[j] /\ view[j][Len(view[j])].last
  BY DEF OwnAnswer
<1>1. j \in Jobs
  BY NodeThreadAssumption DEF RInv, IInv, QueueInv, Jobs
<1>2. finished[j] /\ view[j] = resp[j]
  BY <1>1 DEF RInv, ViewInv
<1>3. Tells(resp[j], j) /\ pos[j] = Len(script[j])
  BY <1>1, <1>2 DEF RInv, FinalInv
<1>4. resp[j][Len(resp[j])].last
  BY <1>1, <1>2 DEF RInv, IInv, TicketInv
<1>5. resp[j] \in Seq(StoredSet \cup Messages) /\ pos[j] \in Nat
  BY <1>1, RouteTyped DEF RInv
<1>6. Said(resp[j]) = SaidTo(j)
  BY <1>3, <1>5, TellsSaid
<1> QED
  BY <1>2, <1>3, <1>4, <1>6

\* An operation that succeeds, or reports the node's error, has been given the
\* whole conversation for its own request and nothing else.
THEOREM AnswersAreOwn == Spec => []OwnAnswer
  BY AnsweredInFull, RoutingInvariant, PTL

-----------------------------------------------------------------------------
(* What a ticket holds when the manager has ended, and before its job has.  *)

\* s are the first of the messages that the node has said to request j.
Holds(s, j) ==
  /\ Len(s) <= pos[j]
  /\ \A i \in 1 .. Len(s) : s[i].h = script[j][i].h /\ s[i].code = script[j][i].code

\* So is what a ticket holds, whatever has become of the manager.
HoldsInv ==
  \A j \in Jobs : j > Taken \/ Key(j) \notin clashed => Holds(resp[j], j)

\* A failure after which the request is removed.
Cancels(m) == \/ m.h = "PutFailed" /\ m.code = "10"
              \/ m.h = "GetFailed" /\ m.code = "25"

\* An error in a ticket ends its job, or is a cancellation.
ErrorInv ==
  \A j \in Jobs : \A i \in 1 .. Len(resp[j]) :
    IsError(resp[j][i]) => resp[j][i].last \/ Cancels(resp[j][i])

\* An operation returns its ticket after the first message.
ConfirmedInv == \A j \in Jobs : outcome[j] = "ticket" => resp[j] # <<>>

\* All of it.
HeldInv == HoldsInv /\ ErrorInv /\ ConfirmedInv

\* The first part of a sequence agrees with what the whole agrees with.
LEMMA PrefixAgrees ==
  ASSUME NEW S, NEW a \in Seq(S), NEW b \in Seq(S), NEW w, NEW p,
         Len(a \o b) = p,
         \A i \in 1 .. p : (a \o b)[i].h = w[i].h /\ (a \o b)[i].code = w[i].code
  PROVE  /\ Len(a) <= p
         /\ \A i \in 1 .. Len(a) : a[i].h = w[i].h /\ a[i].code = w[i].code
<1>1. /\ Len(a \o b) = Len(a) + Len(b) /\ Len(a) \in Nat /\ Len(b) \in Nat
      /\ \A i \in 1 .. Len(a) : (a \o b)[i] = a[i]
  BY ConcatOf
<1>2. Len(a) <= p /\ \A i \in 1 .. Len(a) : i \in 1 .. p
  BY <1>1
<1> QED
  BY <1>1, <1>2

\* Every step keeps HoldsInv.
LEMMA HoldsStep ==
  ASSUME RInv, HoldsInv, [Next]_vars
  PROVE  HoldsInv'
<1>1. IInv /\ AddressInv /\ QueueInv /\ WireInv
  BY DEF RInv, IInv
<1>2. CASE Managing'
  <2> SUFFICES ASSUME NEW j \in Jobs, (j > Taken \/ Key(j) \notin clashed)'
               PROVE  Holds(resp[j], j)'
    BY DEF HoldsInv
  <2>1. RouteInv' /\ TicketInv' /\ WireInv'
    BY RoutingStep DEF RInv, IInv
  <2>2. Tells(resp[j] \o OnTheWay(j), j)'
    BY <1>2, <2>1 DEF RouteInv
  <2>3. PICK a, b, w, p : a = resp'[j] /\ b = OnTheWay(j)' /\ w = script'[j] /\ p = pos'[j]
    OBVIOUS
  <2>4. a \in Seq(StoredSet) /\ inbox' \in Seq(Messages)
    BY <2>1, <2>3 DEF TicketInv, WireInv
  <2>5. b \in Seq(Messages)
    BY <2>3, <2>4, SaidInTyped DEF OnTheWay
  <2> DEFINE All == StoredSet \cup Messages
  <2>6. a \in Seq(All) /\ b \in Seq(All)
    BY <2>4, <2>5
  <2> HIDE DEF All
  <2>7. Len(a \o b) = p
        /\ \A i \in 1 .. p : (a \o b)[i].h = w[i].h /\ (a \o b)[i].code = w[i].code
    BY <2>2, <2>3 DEF Tells
  <2>8. /\ Len(a) <= p
        /\ \A i \in 1 .. Len(a) : a[i].h = w[i].h /\ a[i].code = w[i].code
    BY ONLY <2>6, <2>7, PrefixAgrees
  <2> QED
    BY <2>3, <2>8 DEF Holds
<1>3. ASSUME UNCHANGED <<resp, script>>, \A j \in Jobs : pos[j] <= pos'[j],
             \A j \in Jobs : (j > Taken \/ Key(j) \notin clashed)'
                             => j > Taken \/ Key(j) \notin clashed
      PROVE  HoldsInv'
  <2> SUFFICES ASSUME NEW j \in Jobs, (j > Taken \/ Key(j) \notin clashed)'
               PROVE  Holds(resp[j], j)'
    BY DEF HoldsInv
  <2>1. Holds(resp[j], j)
    BY <1>3 DEF HoldsInv
  <2>2. pos[j] \in Nat /\ pos'[j] \in Nat /\ Len(resp[j]) \in Nat
    <3>1. WireInv' /\ resp[j] \in Seq(StoredSet)
      BY RoutingStep DEF RInv, IInv, TicketInv
    <3>2. j \in 0 .. MaxJobs
      BY DEF Jobs
    <3> QED
      BY <1>1, <3>1, <3>2 DEF WireInv
  <2>3. Len(resp[j]) <= pos'[j]
    BY <1>3, <2>1, <2>2 DEF Holds
  <2> QED
    BY <1>3, <2>1, <2>3 DEF Holds
<1>4. \A j \in Jobs : j \in 0 .. MaxJobs /\ pos[j] \in Nat
  BY <1>1 DEF WireInv, Jobs
<1>5. ASSUME UNCHANGED <<resp, script, pos, started, queue, attr, clashed>> PROVE HoldsInv'
  <2>1. Taken' = Taken /\ \A j : Key(j)' = Key(j)
    BY <1>5 DEF Taken, Key
  <2> QED
    BY <1>3, <1>4, <1>5, <2>1
<1>6. ASSUME NEW c \in Clients, NEW r \in Requests, Call(c, r) PROVE HoldsInv'
  <2>1. /\ started' = started + 1 /\ started \in Nat /\ started' \in Jobs
        /\ Taken' = Taken /\ Taken \in 0 .. started
    BY <1>1, <1>6, CallTaken
  <2>2. UNCHANGED <<resp, script, pos, clashed>> /\ attr' = [attr EXCEPT ![started'] = r]
    BY <1>6 DEF Call, node
  <2>3. \A j \in Jobs : j # started' => Key(j)' = Key(j)
    BY <1>1, <1>4, <2>1, <2>2 DEF WireInv, Key
  <2>4. started' > Taken
    BY <2>1
  <2> QED
    BY <1>3, <1>4, <2>1, <2>2, <2>3, <2>4
<1>7. ASSUME NEW c \in Clients, ClientStep(c) PROVE HoldsInv'
  <2>1. UNCHANGED <<resp, script, pos, started, queue, attr, clashed>>
    BY <1>7 DEF ClientStep, WaitOver, GetResponse, GiveUp, ticket, manager, node
  <2> QED
    BY <1>5, <2>1
<1>8. ASSUME NoMessage \/ SocketFails \/ NoRequest \/ UNCHANGED vars PROVE HoldsInv'
  <2>1. UNCHANGED <<resp, script, pos, started, queue, attr, clashed>>
    BY <1>8 DEF NoMessage, SocketFails, NoRequest, vars, ticket, manager, node
  <2> QED
    BY <1>5, <2>1
<1>9. ASSUME DoMessage PROVE HoldsInv'
  <2>1. UNCHANGED <<script, pos, started, queue, attr, clashed>>
    BY <1>9, SMTT(30) DEF DoMessage, node
  <2>2. Managing' \/ UNCHANGED resp
    BY <1>1, <1>9, Reading DEF Managing
  <2> QED
    BY <1>2, <1>5, <2>1, <2>2
<1>10. ASSUME SendClientReq PROVE HoldsInv'
  <2>1. CASE mgr' = "poll"
    BY <1>2, <2>1 DEF Managing
  <2>2. CASE mgr' # "poll"
    <3>1. UNCHANGED <<resp, script, pos, started, attr>> /\ clashed \subseteq clashed'
      BY <1>10, <2>2 DEF SendClientReq, ticket
    <3>2. Taken' = Taken + 1 /\ Taken \in Nat
      BY <1>1, <1>10, SendTaken
    <3>3. \A j : Key(j)' = Key(j)
      BY <3>1 DEF Key
    <3>4. \A j \in Jobs : j > Taken' => j > Taken
      BY <3>2 DEF Jobs
    <3> QED
      BY <1>3, <1>4, <3>1, <3>3, <3>4
  <2> QED
    BY <2>1, <2>2
<1>11. ASSUME NEW n \in 0 .. MaxJobs, NodeAnswers(n) PROVE HoldsInv'
  <2>1. UNCHANGED <<resp, script, started, queue, attr, clashed>>
        /\ pos' = [pos EXCEPT ![n] = @ + 1]
    BY <1>11 DEF NodeAnswers, ticket, manager
  <2>2. \A j \in Jobs : pos[j] <= pos'[j]
    BY <1>1, <1>4, <2>1 DEF WireInv
  <2>3. Taken' = Taken /\ \A j : Key(j)' = Key(j)
    BY <2>1 DEF Taken, Key
  <2> QED
    BY <1>3, <2>1, <2>2, <2>3
<1> QED
  BY <1>6, <1>7, <1>8, <1>9, <1>10, <1>11 DEF Next, Manager

\* An error that does not end its job is a cancellation.
LEMMA GoesOnAfter ==
  ASSUME NEW m, NEW job, IsError(m), IsLast(m, job) = "more"
  PROVE  Cancels(m)
<1>1. m.h \notin AlwaysLast
  BY AlwaysIsLast
<1>2. m.h \in {"PutFailed", "GetFailed"}
  BY <1>1 DEF IsError, AlwaysLast
<1>3. CASE m.h = "PutFailed"
  <2>1. IsLast(m, job) = IsLastFailed(m, "10")
    BY <1>3, Zenon DEF IsLast, AlwaysLast, NeverLast
  <2> QED
    BY <1>3, <2>1 DEF IsLastFailed, Verdict, Cancels
<1>4. CASE m.h = "GetFailed"
  <2>1. IsLast(m, job) = IsLastFailed(m, "25")
    BY <1>4, Zenon DEF IsLast, AlwaysLast, NeverLast
  <2> QED
    BY <1>4, <2>1 DEF IsLastFailed, Verdict, Cancels
<1> QED
  BY <1>2, <1>3, <1>4

\* Every step keeps ErrorInv.
LEMMA ErrorStep ==
  ASSUME IInv, AddressInv, ErrorInv, [Next]_vars
  PROVE  ErrorInv'
<1>1. CASE UNCHANGED resp
  BY <1>1 DEF ErrorInv
<1>2. ASSUME NEW n \in Jobs, NEW m, NEW job, IsLast(m, job) \in {"more", "last"},
             NEW e \in StoredSet, e = Stored(m, IsLast(m, job) = "last"),
             resp' = [resp EXCEPT ![n] = Append(@, e)]
      PROVE  ErrorInv'
  <2>1. resp[n] \in Seq(StoredSet) /\ DOMAIN resp = Jobs
    BY DEF IInv, TicketInv
  <2>2. PICK s, t : s = resp[n] /\ t = Append(s, e)
    OBVIOUS
  <2>3. /\ Len(t) = Len(s) + 1 /\ t[Len(s) + 1] = e /\ Len(s) \in Nat
        /\ \A i \in 1 .. Len(s) : t[i] = s[i]
    BY <2>1, <2>2, AppendOf
  <2>4. IsError(e) => e.last \/ Cancels(e)
    <3>1. e.h = m.h /\ e.code = m.code /\ e.last = (IsLast(m, job) = "last")
      BY <1>2 DEF Stored
    <3>2. CASE IsLast(m, job) = "last"
      BY <3>1, <3>2
    <3>3. CASE IsLast(m, job) = "more"
      <4>1. IsError(m) => Cancels(m)
        BY <3>3, GoesOnAfter
      <4> QED
        BY <3>1, <4>1 DEF IsError, Cancels
    <3> QED
      BY <1>2, <3>2, <3>3
  <2>5. ASSUME NEW i \in 1 .. Len(t) PROVE IsError(t[i]) => t[i].last \/ Cancels(t[i])
    <3>1. CASE i \in 1 .. Len(s)
      BY <2>2, <2>3, <3>1 DEF ErrorInv
    <3>2. CASE i = Len(s) + 1
      BY <2>3, <2>4, <3>2
    <3> QED
      BY <2>3, <3>1, <3>2
  <2>6. resp'[n] = t /\ \A j \in Jobs : j # n => resp'[j] = resp[j]
    BY <1>2, <2>1, <2>2
  <2> QED
    BY <2>5, <2>6 DEF ErrorInv
<1>3. CASE DoMessage
  <2>1. PICK m : m = Head(inbox)
    OBVIOUS
  <2>2. PICK n : n = jobs[<<m.global, m.id>>]
    BY Zenon
  <2>3. \/ UNCHANGED resp
        \/ /\ m.h \in Headers /\ n \in Jobs /\ IsLast(m, attr[n]) \in {"more", "last"}
           /\ resp' = [resp EXCEPT ![n] = Append(@, Stored(m, IsLast(m, attr[n]) = "last"))]
    BY <1>3, <2>1, <2>2, Reading, Zenon
  <2>4. m \in Messages
    BY <1>3, <2>1, TailOf DEF DoMessage, IInv, WireInv
  <2>5. m.h \in Headers => Stored(m, IsLast(m, attr[n]) = "last") \in StoredSet
    BY <2>4 DEF Stored, StoredSet, Messages
  <2> QED
    BY <1>1, <1>2, <2>3, <2>5
<1>4. DoMessage \/ UNCHANGED resp
  BY DEF Next, ClientStep, Call, WaitOver, GetResponse, GiveUp, Manager, NoMessage, SocketFails,
         NoRequest, SendClientReq, NodeAnswers, vars, ticket
<1> QED
  BY <1>1, <1>3, <1>4

\* Every step keeps ConfirmedInv.
LEMMA ConfirmedStep ==
  ASSUME IInv, ConfirmedInv, [Next]_vars
  PROVE  ConfirmedInv'
<1>1. \A j \in Jobs : resp[j] # <<>> => resp'[j] # <<>>
  <2>1. CASE UNCHANGED resp
    BY <2>1
  <2>2. ASSUME NEW n \in Jobs, NEW m \in StoredSet, resp' = [resp EXCEPT ![n] = Append(@, m)]
        PROVE  \A j \in Jobs : resp[j] # <<>> => resp'[j] # <<>>
    <3>1. resp[n] \in Seq(StoredSet) /\ DOMAIN resp = Jobs
      BY DEF IInv, TicketInv
    <3>2. Append(resp[n], m) # <<>>
      BY <3>1, AppendOf
    <3> QED
      BY <2>2, <3>1, <3>2
  <2>3. DoMessage \/ UNCHANGED resp
    BY DEF Next, ClientStep, Call, WaitOver, GetResponse, GiveUp, Manager, NoMessage,
           SocketFails, NoRequest, SendClientReq, NodeAnswers, vars, ticket
  <2> QED
    BY <2>1, <2>2, <2>3, TicketDoMessage
<1>2. ASSUME NEW c \in Clients, ClientStep(c) PROVE ConfirmedInv'
  <2>1. cpc[c] # "idle"
    BY <1>2 DEF ClientStep, WaitOver, GetResponse, GiveUp, Waiting
  <2>2. cur[c] \in Jobs /\ DOMAIN outcome = Jobs
    BY <2>1 DEF IInv, ClientInv, QueueInv, Jobs
  <2>3. \A j \in Jobs : j # cur[c] => outcome'[j] = outcome[j]
    BY <1>2, <2>2 DEF ClientStep, WaitOver, GetResponse, GiveUp, End
  <2>4. outcome'[cur[c]] = "ticket" => resp[cur[c]] # <<>>
    <3>1. CASE WaitOver(c)
      <4>1. outcome[cur[c]] # "ticket"
        BY <2>2 DEF IInv, ClientInv, Jobs
      <4> QED
        BY <3>1, <4>1 DEF WaitOver, Answered
    <3>2. CASE GetResponse(c) \/ GiveUp(c)
      BY <2>2, <3>2 DEF GetResponse, GiveUp, End
    <3> QED
      BY <1>2, <3>1, <3>2 DEF ClientStep
  <2> QED
    BY <1>1, <2>2, <2>3, <2>4 DEF ConfirmedInv
<1>3. ASSUME UNCHANGED outcome PROVE ConfirmedInv'
  BY <1>1, <1>3 DEF ConfirmedInv
<1>4. UNCHANGED outcome \/ \E c \in Clients : ClientStep(c)
  BY DEF Next, Call, Manager, NoMessage, SocketFails, DoMessage, NoRequest, SendClientReq,
         NodeAnswers, vars, client
<1> QED
  BY <1>2, <1>3, <1>4

\* No ticket holds anything at first.
LEMMA InitHeldInv == Init => HeldInv
<1> SUFFICES ASSUME Init PROVE HeldInv
  OBVIOUS
<1>1. \A j \in Jobs : resp[j] = <<>> /\ pos[j] = 0 /\ outcome[j] = "none"
  BY DEF Init, Jobs
<1> QED
  BY <1>1 DEF HeldInv, HoldsInv, Holds, ErrorInv, ConfirmedInv

\* Every step keeps HeldInv.
LEMMA HeldStep ==
  ASSUME RInv, HeldInv, [Next]_vars
  PROVE  HeldInv'
<1>1. IInv /\ AddressInv
  BY DEF RInv
<1> QED
  BY <1>1, HoldsStep, ErrorStep, ConfirmedStep DEF HeldInv

\* Whatever has become of the manager, a ticket whose key has not clashed holds
\* the beginning of its own conversation; and an error is the end of it, but for
\* that of a cancelled request.
THEOREM TicketsHoldTheirOwn == Spec => []HeldInv
<1>1. RInv /\ HeldInv /\ [Next]_vars => HeldInv'
  BY HeldStep
<1> QED
  BY InitHeldInv, <1>1, RoutingInvariant, PTL DEF Spec

-----------------------------------------------------------------------------
(* The manager survives.                                                    *)

\* What the theorems need of the surroundings: the node reports nothing of the
\* other client's request that the plain ticket doMessage makes for it cannot
\* take.
UpdatesFit ==
  \A n \in DOMAIN GlobalUpdates :
    /\ GlobalUpdates[n].h # "AllData"
    /\ IsLast(GlobalUpdates[n], CreatedTicket) \in {"more", "last"}

\* While no key has clashed, data on the connection follow AllData only, which
\* is said to a request of the library's.
HeardInv ==
  /\ script[0] = GlobalUpdates
  /\ clashed = {} =>
       \A i \in DOMAIN inbox :
         /\ inbox[i].h = "data" => i > 1 /\ inbox[i - 1].h = "AllData"
         /\ inbox[i].re = 0 =>
              \E n \in DOMAIN GlobalUpdates :
                inbox[i].h = GlobalUpdates[n].h /\ inbox[i].code = GlobalUpdates[n].code

\* The manager takes every message, for a ticket or to drop it, and goes on.
MessagesAreTaken == [][clashed = {} /\ DoMessage => mgr' = "queue"]_vars

\* Whatever the node says to a job is a word of a conversation that ends well.
LEMMA VerdictOfMessage ==
  ASSUME RInv, Managing, inbox # <<>>, NEW j \in Jobs, IsSaidTo(Head(inbox), j),
         Key(j) \notin clashed
  PROVE  Head(inbox).h \in Headers /\ IsLast(Head(inbox), attr[j]) \in {"more", "last"}
<1> DEFINE m == Head(inbox)
           a == resp[j]
           b == SaidIn(Tail(inbox), j)
           w == script[j]
           All == StoredSet \cup Messages
<1>1. m \in Messages /\ OnTheWay(j) = <<m>> \o b /\ b \in Seq(All)
  BY FirstIsSaid, TailOf DEF RInv, IInv, WireInv
<1>2. a \in Seq(All) /\ w \in Seq(WordSet) /\ pos[j] \in Nat /\ pos[j] <= Len(w)
  BY RouteTyped DEF RInv
<1>3. Tells(a \o (<<m>> \o b), j)
  BY <1>1 DEF RInv, RouteInv
<1>4. m.h \in Headers
  BY <1>1 DEF Messages, IsSaidTo
<1>5. m \in All
  BY <1>1
<1> HIDE DEF m, a, b, w, All
<1>6. /\ (a \o (<<m>> \o b))[Len(a) + 1] = m
      /\ Len(a \o (<<m>> \o b)) = Len(a) + (1 + Len(b)) /\ Len(a) \in Nat /\ Len(b) \in Nat
  <2>1. a \in Seq(All) /\ b \in Seq(All)
    BY <1>1, <1>2
  <2> QED
    BY ONLY <1>5, <2>1
<1>7. Len(a) + 1 \in 1 .. pos[j] /\ m.h = w[Len(a) + 1].h /\ m.code = w[Len(a) + 1].code
  <2>1. Len(a) + 1 \in 1 .. pos[j]
    BY <1>2, <1>3, <1>6 DEF Tells
  <2>2. \A i \in 1 .. pos[j] : (a \o (<<m>> \o b))[i].h = w[i].h
                               /\ (a \o (<<m>> \o b))[i].code = w[i].code
    BY <1>3 DEF Tells, w
  <2> QED
    BY <1>6, <2>1, <2>2
<1>8. IsLast(w[Len(a) + 1], attr[j]) \in {"more", "last"}
  <2>1. Proper(w, attr[j])
    BY ScriptsProper DEF RInv, w
  <2>2. Len(a) + 1 \in 1 .. Len(w)
    BY <1>2, <1>7
  <2> QED
    BY <2>1, <2>2 DEF Proper
<1>9. IsLast(m, attr[j]) = IsLast(w[Len(a) + 1], attr[j])
  BY <1>4, <1>7, LastOfWord
<1> QED
  BY <1>4, <1>8, <1>9 DEF m

\* The manager reads a message and goes on.
LEMMA HeardDoMessage ==
  ASSUME UpdatesFit, RInv, HeardInv, DoMessage
  PROVE  HeardInv' /\ (clashed = {} => mgr' = "queue")
<1>1. UNCHANGED <<script, clashed>> /\ inbox # <<>> /\ Managing
  BY DEF DoMessage, node, Managing
<1> SUFFICES ASSUME clashed = {}
             PROVE  /\ mgr' = "queue"
                    /\ \A i \in DOMAIN inbox' :
                         /\ inbox'[i].h = "data" => i > 1 /\ inbox'[i - 1].h = "AllData"
                         /\ inbox'[i].re = 0 =>
                              \E n \in DOMAIN GlobalUpdates :
                                /\ inbox'[i].h = GlobalUpdates[n].h
                                /\ inbox'[i].code = GlobalUpdates[n].code
  BY <1>1 DEF HeardInv
<1> DEFINE m == Head(inbox)
           k == <<m.global, m.id>>
           n == jobs[k]
<1>2. m \in Messages /\ m = inbox[1] /\ DOMAIN inbox = 1 .. Len(inbox) /\ Len(inbox) \in Nat \ {0}
  BY <1>1, TailOf DEF RInv, IInv, WireInv
<1>3. m.h # "data" /\ m.h \in Headers
  BY <1>2 DEF HeardInv, Messages
<1>4. m.re \in 0 .. MaxJobs /\ k = Key(m.re) /\ k \in Keys
  BY <1>2 DEF RInv, AddressInv, Messages, Key, Keys, Ids
<1>5. ASSUME m.re # 0
      PROVE  n = m.re /\ IsLast(m, attr[n]) \in {"more", "last"}
  <2>1. m.re \in Jobs /\ IsSaidTo(m, m.re)
    BY <1>3, <1>4, <1>5 DEF Jobs, IsSaidTo
  <2> QED
    BY <1>1, <1>4, <2>1, FindsItsTicket, VerdictOfMessage
<1>6. ASSUME m.re = 0, n # NoTicket
      PROVE  IsLast(m, attr[n]) \in {"more", "last"}
  <2>1. n \in Jobs => m.re = n
    BY <1>1, <1>3, FoundIsItsTicket
  <2>2. n = 0
    <3>1. n \in 0 .. NoTicket
      BY <1>4 DEF RInv, IInv, MapInv
    <3> QED
      BY <1>6, <2>1, <3>1, NodeThreadAssumption DEF Jobs, NoTicket
  <2>3. PICK q \in DOMAIN GlobalUpdates : m.h = GlobalUpdates[q].h /\ m.code = GlobalUpdates[q].code
    BY <1>2, <1>6 DEF HeardInv
  <2>4. attr[n] = CreatedTicket
    BY <2>2 DEF RInv, ScriptInv
  <2> HIDE DEF m, n, CreatedTicket
  <2>5. IsLast(m, attr[n]) = IsLast(GlobalUpdates[q], CreatedTicket)
    BY <1>3, <2>3, <2>4, LastOfWord
  <2> QED
    BY <2>5 DEF UpdatesFit
<1>7. n # NoTicket => IsLast(m, attr[n]) \in {"more", "last"}
  BY <1>5, <1>6
<1>8. m.h = "AllData" => n # NoTicket
  <2>1. ASSUME m.h = "AllData" PROVE m.re # 0
    BY <1>2, <2>1 DEF HeardInv, UpdatesFit
  <2> QED
    BY <1>4, <1>5, <2>1, NodeThreadAssumption DEF NoTicket
<1>9. mgr' = "queue"
  BY <1>3, <1>7, Zenon DEF DoMessage, NotFound, Deliver
<1>10. inbox' = IF m.h = "AllData" THEN Tail(Tail(inbox)) ELSE Tail(inbox)
  BY <1>3, <1>8 DEF DoMessage
<1> DEFINE d == IF m.h = "AllData" THEN 2 ELSE 1
<1>11. /\ Len(inbox') = Len(inbox) - d /\ DOMAIN inbox' = 1 .. Len(inbox')
       /\ \A i \in 1 .. Len(inbox') : inbox'[i] = inbox[i + d]
       /\ Len(inbox') \in Nat
  <2>1. inbox \in Seq(Messages)
    BY DEF RInv, IInv, WireInv
  <2>2. m.h = "AllData" => Len(inbox) >= 2
    BY <1>2 DEF RInv, IInv, WireInv
  <2> HIDE DEF m
  <2> DEFINE t == Tail(inbox)
  <2>3. /\ t \in Seq(Messages) /\ Len(t) = Len(inbox) - 1
        /\ \A i \in 1 .. Len(t) : t[i] = inbox[i + 1]
        /\ DOMAIN t = 1 .. Len(t) /\ Len(t) \in Nat
    BY <1>1, <1>2, <2>1, TailOf
  <2> HIDE DEF t
  <2>4. CASE m.h = "AllData"
    <3>1. t # <<>> /\ Len(t) # 0
      BY <2>2, <2>3, <2>4
    <3>2. /\ Tail(t) \in Seq(Messages) /\ Len(Tail(t)) = Len(t) - 1
          /\ \A i \in 1 .. Len(t) - 1 : Tail(t)[i] = t[i + 1]
          /\ DOMAIN Tail(t) = 1 .. Len(t) - 1
      BY <2>3, <3>1, TailOf
    <3>3. inbox' = Tail(t)
      BY <1>10, <2>4 DEF t
    <3>4. \A i \in 1 .. Len(t) - 1 : Tail(t)[i] = inbox[(i + 1) + 1]
      BY <2>3, <3>2
    <3>5. Len(inbox') = Len(t) - 1 /\ Len(t) - 1 = Len(inbox) - 2 /\ Len(t) - 1 \in Nat
      <4>1. Len(inbox') = Len(t) - 1
        BY <3>2, <3>3
      <4>2. Len(inbox) \in Nat /\ Len(t) \in Nat /\ Len(t) # 0 /\ Len(t) = Len(inbox) - 1
        BY <1>2, <2>3, <3>1
      <4> QED
        BY ONLY <4>1, <4>2
    <3>6. \A i \in 1 .. Len(inbox') : inbox'[i] = inbox[i + 2]
      <4> SUFFICES ASSUME NEW i \in 1 .. Len(inbox') PROVE inbox'[i] = inbox[i + 2]
        OBVIOUS
      <4>1. i \in 1 .. Len(t) - 1 /\ (i + 1) + 1 = i + 2
        BY <3>5
      <4> QED
        BY <3>3, <3>4, <4>1
    <3>7. DOMAIN inbox' = 1 .. Len(inbox')
      BY <3>2, <3>3
    <3> QED
      BY <2>4, <3>5, <3>6, <3>7
  <2>5. CASE m.h # "AllData"
    BY <1>10, <2>3, <2>5 DEF t
  <2> QED
    BY <2>4, <2>5
<1>11a. d \in {1, 2}
  OBVIOUS
<1>12. ASSUME NEW i \in 1 .. Len(inbox'), inbox'[i].h = "data"
       PROVE  i > 1 /\ inbox'[i - 1].h = "AllData"
  <2>1. i + d \in 1 .. Len(inbox) /\ inbox[i + d].h = "data"
    <3> HIDE DEF d
    <3> QED
      BY <1>2, <1>11, <1>12, <1>11a
  <2>2. inbox[(i + d) - 1].h = "AllData"
    BY <1>2, <2>1 DEF HeardInv
  <2>3. CASE i = 1
    <3>1. CASE m.h = "AllData"
      <4>1. inbox[1 + 1].h = "data" /\ (i + d) - 1 = 1 + 1
        BY <1>2, <2>3, <3>1 DEF RInv, AddressInv
      <4> QED
        BY <2>2, <4>1
    <3>2. CASE m.h # "AllData"
      BY <1>2, <2>2, <2>3, <3>2
    <3> QED
      BY <3>1, <3>2
  <2>4. CASE i # 1
    <3>1. i > 1 /\ i - 1 \in 1 .. Len(inbox') /\ (i - 1) + d = (i + d) - 1
      BY <1>11, <2>4
    <3> QED
      BY <1>11, <2>2, <3>1
  <2> QED
    BY <2>3, <2>4
<1>13. ASSUME NEW i \in 1 .. Len(inbox'), inbox'[i].re = 0
       PROVE  \E q \in DOMAIN GlobalUpdates :
                inbox'[i].h = GlobalUpdates[q].h /\ inbox'[i].code = GlobalUpdates[q].code
  <2>1. i + d \in DOMAIN inbox /\ inbox'[i] = inbox[i + d]
    <3> HIDE DEF d
    <3> QED
      BY <1>2, <1>11, <1>11a
  <2> HIDE DEF d
  <2> QED
    BY <1>13, <2>1 DEF HeardInv
<1> QED
  BY <1>9, <1>11, <1>12, <1>13

\* What the node says goes to the end of the connection, data behind AllData.
LEMMA HeardNodeAnswers ==
  ASSUME UpdatesFit, RInv, HeardInv, NEW j \in 0 .. MaxJobs, NodeAnswers(j)
  PROVE  HeardInv'
<1> DEFINE m == Message(j, pos'[j])
           d == [m EXCEPT !.h = "data"]
<1>1. /\ UNCHANGED <<script, clashed, mgr>> /\ pos[j] < Len(script[j])
      /\ pos' = [pos EXCEPT ![j] = @ + 1]
      /\ inbox' = inbox \o (IF m.h = "AllData" THEN <<m, d>> ELSE <<m>>)
  BY DEF NodeAnswers, manager
<1>2. pos'[j] = pos[j] + 1 /\ pos[j] \in Nat /\ inbox \in Seq(Messages) /\ script[j] \in Seq(WordSet)
  BY <1>1 DEF RInv, IInv, WireInv
<1>3. m \in Messages /\ d \in Messages
  BY <1>1, <1>2, MessageTyped DEF RInv, IInv
<1>4. m.h = script[j][pos[j] + 1].h /\ m.code = script[j][pos[j] + 1].code /\ m.re = j
      /\ d.h = "data" /\ d.re = j
  BY <1>2 DEF Message
<1>5. pos[j] + 1 \in DOMAIN script[j] /\ script[j][pos[j] + 1] \in WordSet
  BY <1>1, <1>2
<1>6. m.h # "data"
  BY <1>4, <1>5 DEF WordSet, Headers, AlwaysLast, NeverLast
<1> DEFINE Foreign(e) == e.re = 0 => \E n \in DOMAIN GlobalUpdates :
                           e.h = GlobalUpdates[n].h /\ e.code = GlobalUpdates[n].code
<1>7. Foreign(m) /\ (m.h = "AllData" => d.re # 0)
  BY <1>4, <1>5 DEF HeardInv, UpdatesFit
<1>8. m.h = "AllData" => Foreign(d)
  BY <1>7
<1> HIDE DEF m, d, Foreign
<1> SUFFICES ASSUME clashed = {}
             PROVE  \A i \in DOMAIN inbox' :
                      /\ inbox'[i].h = "data" => i > 1 /\ inbox'[i - 1].h = "AllData"
                      /\ Foreign(inbox'[i])
  BY <1>1 DEF HeardInv, Foreign
<1> DEFINE l == Len(inbox)
           Data(i) == inbox'[i].h = "data" => i > 1 /\ inbox'[i - 1].h = "AllData"
<1>10. l \in Nat /\ DOMAIN inbox = 1 .. l
  BY <1>2
<1>11. ASSUME \A i \in 1 .. l : inbox'[i] = inbox[i], NEW i \in 1 .. l
       PROVE  Data(i) /\ Foreign(inbox'[i])
  <2>1. inbox[i].h = "data" => i > 1 /\ inbox[i - 1].h = "AllData"
    BY <1>10 DEF HeardInv
  <2>2. Foreign(inbox[i])
    BY <1>10 DEF HeardInv, Foreign
  <2>3. i > 1 => inbox'[i - 1] = inbox[i - 1]
    BY <1>10, <1>11
  <2> QED
    BY <1>11, <2>1, <2>2, <2>3
<1>12. CASE m.h = "AllData"
  <2>1. inbox' = inbox \o <<m, d>>
    BY <1>1, <1>12
  <2>2. /\ DOMAIN inbox' = 1 .. l + 2 /\ \A i \in 1 .. l : inbox'[i] = inbox[i]
        /\ inbox'[l + 1] = m /\ inbox'[l + 2] = d
    BY <1>2, <1>3, <1>10, <2>1
  <2>3. Data(l + 1) /\ Foreign(inbox'[l + 1])
    BY <1>6, <1>7, <2>2
  <2>4. Data(l + 2) /\ Foreign(inbox'[l + 2])
    <3>1. l + 2 > 1 /\ (l + 2) - 1 = l + 1
      BY <1>10
    <3> QED
      BY <1>8, <1>12, <2>2, <3>1
  <2> HIDE DEF Data
  <2>5. \A i \in 1 .. l + 2 : i \in 1 .. l \/ i = l + 1 \/ i = l + 2
    BY <1>10
  <2>6. \A i \in 1 .. l + 2 : Data(i) /\ Foreign(inbox'[i])
    BY <1>11, <2>2, <2>3, <2>4, <2>5
  <2> QED
    BY <2>2, <2>6 DEF Data
<1>13. CASE m.h # "AllData"
  <2>1. inbox' = inbox \o <<m>>
    BY <1>1, <1>13
  <2>2. /\ DOMAIN inbox' = 1 .. l + 1 /\ \A i \in 1 .. l : inbox'[i] = inbox[i]
        /\ inbox'[l + 1] = m
    BY <1>2, <1>3, <1>10, <2>1
  <2>3. Data(l + 1) /\ Foreign(inbox'[l + 1])
    BY <1>6, <1>7, <2>2
  <2> HIDE DEF Data
  <2>4. \A i \in 1 .. l + 1 : i \in 1 .. l \/ i = l + 1
    BY <1>10
  <2>5. \A i \in 1 .. l + 1 : Data(i) /\ Foreign(inbox'[i])
    BY <1>11, <2>2, <2>3, <2>4
  <2> QED
    BY <2>2, <2>5 DEF Data
<1> QED
  BY <1>12, <1>13

\* Every step keeps HeardInv.
LEMMA HeardStep ==
  ASSUME UpdatesFit, RInv, HeardInv, [Next]_vars
  PROVE  HeardInv'
<1>1. ASSUME UNCHANGED inbox, script'[0] = script[0], clashed \subseteq clashed'
      PROVE  HeardInv'
  BY <1>1 DEF HeardInv
<1>2. ASSUME \/ \E c \in Clients : (\E r \in Requests : Call(c, r)) \/ ClientStep(c)
             \/ NoMessage \/ SocketFails \/ NoRequest \/ UNCHANGED vars
      PROVE  HeardInv'
  <2>1. UNCHANGED <<inbox, script, clashed>>
    BY <1>2 DEF Call, ClientStep, WaitOver, GetResponse, GiveUp, NoMessage,
                SocketFails, NoRequest, vars, manager, node
  <2> QED
    BY <1>1, <2>1
<1>3. ASSUME SendClientReq PROVE HeardInv'
  <2>1. /\ inbox' = inbox /\ clashed \subseteq clashed'
        /\ script' = script \/ \E s : script' = [script EXCEPT ![Head(queue)] = s]
    BY <1>3 DEF SendClientReq
  <2>2. script'[0] = script[0]
    <3>1. Head(queue) \in Jobs /\ 0 \notin Jobs
      BY <1>3, SendTaken DEF RInv, IInv, Jobs
    <3>2. script \in [0 .. MaxJobs -> Seq(WordSet)] /\ 0 \in 0 .. MaxJobs
      BY NodeThreadAssumption DEF RInv, IInv, WireInv
    <3> QED
      BY <2>1, <3>1, <3>2
  <2> QED
    BY <1>1, <2>1, <2>2
<1> QED
  BY <1>2, <1>3, HeardDoMessage, HeardNodeAnswers DEF Next, Manager

\* A clash is for ever.
LEMMA ClashesGrow == ASSUME [Next]_vars PROVE clashed \subseteq clashed'
  BY DEF Next, Manager, NoMessage, SocketFails, DoMessage, NoRequest, SendClientReq, Call,
         ClientStep, WaitOver, GetResponse, GiveUp, NodeAnswers, manager, vars

\* What is on the connection, in every state.
LEMMA HeardAlways ==
  ASSUME UpdatesFit
  PROVE  Spec => []HeardInv
<1>1. Init => HeardInv
  <2> SUFFICES ASSUME Init PROVE HeardInv
    OBVIOUS
  <2>1. script[0] = GlobalUpdates /\ inbox = <<>> /\ mgr = "poll"
    BY NodeThreadAssumption DEF Init
  <2> QED
    BY <2>1 DEF HeardInv
<1>2. RInv /\ HeardInv /\ [Next]_vars => HeardInv'
  BY HeardStep
<1> QED
  BY <1>1, <1>2, RoutingInvariant, PTL DEF Spec

\* No request of the library and no answer to it that its code is written for
\* makes the manager throw or crash, while no key has clashed: its policies
\* find out when each job is over, whatever the connection does.
THEOREM EveryMessageIsTaken ==
  ASSUME UpdatesFit
  PROVE  Spec => MessagesAreTaken
<1>1. RInv /\ HeardInv /\ [Next]_vars => [clashed = {} /\ DoMessage => mgr' = "queue"]_vars
  BY HeardDoMessage
<1> QED
  BY <1>1, HeardAlways, RoutingInvariant, PTL DEF Spec, MessagesAreTaken

\* The manager does not crash on a message of the global queue: reports that
\* the ticket of doMessage cannot take are the one thing that makes it.
THEOREM FittingUpdatesAreFollowed ==
  ASSUME UpdatesFit
  PROVE  Spec => []GlobalQueueIsFollowed
<1>1. Init => GlobalQueueIsFollowed
  BY DEF Init, GlobalQueueIsFollowed
<1>2. RInv /\ HeardInv /\ GlobalQueueIsFollowed /\ [Next]_vars => GlobalQueueIsFollowed'
  <2> SUFFICES ASSUME RInv, HeardInv, GlobalQueueIsFollowed, [Next]_vars, clashed' = {}
               PROVE  mgr' # "crashed"
    BY DEF GlobalQueueIsFollowed
  <2>1. clashed = {} /\ mgr # "crashed"
    BY ClashesGrow DEF GlobalQueueIsFollowed
  <2>2. CASE DoMessage
    BY <2>1, <2>2, HeardDoMessage
  <2>3. CASE ~DoMessage
    BY <2>1, <2>3 DEF Next, Manager, NoMessage, SocketFails, NoRequest, SendClientReq, Call,
                      ClientStep, WaitOver, GetResponse, GiveUp, NodeAnswers, manager, vars
  <2> QED
    BY <2>2, <2>3
<1> QED
  BY <1>1, <1>2, HeardAlways, RoutingInvariant, PTL DEF Spec

\* So the manager runs for ever if the connection holds as well.
THEOREM ManagerSurvivesUnclashed ==
  ASSUME UpdatesFit, "socket" \notin Faults
  PROVE  Spec => []ManagerSurvives
<1>1. Init => ManagerSurvives
  BY DEF Init, ManagerSurvives, Managing
<1>2. RInv /\ HeardInv /\ ManagerSurvives /\ [Next]_vars => ManagerSurvives'
  <2> SUFFICES ASSUME RInv, HeardInv, ManagerSurvives, [Next]_vars, clashed' = {}
               PROVE  Managing'
    BY DEF ManagerSurvives
  <2>1. clashed = {} /\ Managing
    BY ClashesGrow DEF ManagerSurvives
  <2>2. CASE DoMessage
    BY <2>1, <2>2, HeardDoMessage DEF Managing
  <2>3. CASE ~DoMessage
    BY <2>1, <2>3 DEF Next, Manager, NoMessage, SocketFails, NoRequest, SendClientReq, Call,
                      ClientStep, WaitOver, GetResponse, GiveUp, NodeAnswers, manager, vars,
                      Managing
  <2> QED
    BY <2>2, <2>3
<1> QED
  BY <1>1, <1>2, HeardAlways, RoutingInvariant, PTL DEF Spec

===============================================================================
