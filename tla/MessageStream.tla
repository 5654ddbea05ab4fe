----------------------------- MODULE MessageStream -----------------------------
(***************************************************************************)
(* What the connection promises the manager: the node's messages, whole    *)
(* and in the order in which they were sent.  It is what NodeThread.tla    *)
(* takes its inbox for; ServerStream.tla is the byte stream below it.      *)
(***************************************************************************)
EXTENDS Naturals, Sequences

CONSTANTS
  Messages      \* the messages the node sends

VARIABLES
  sent,         \* the messages sent, in order
  received      \* the messages the manager has got

vars == <<sent, received>>

Init == sent = <<>> /\ received = <<>>

Send(m) ==
  /\ sent' = Append(sent, m)
  /\ UNCHANGED received

\* The next message arrives, as it was sent.
Receive ==
  /\ Len(received) < Len(sent)
  /\ received' = Append(received, sent[Len(received) + 1])
  /\ UNCHANGED sent

Next == (\E m \in Messages : Send(m)) \/ Receive

Spec == Init /\ [][Next]_vars

===============================================================================
