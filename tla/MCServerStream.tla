---------------------------- MODULE MCServerStream -----------------------------
(***************************************************************************)
(* A small instance of ServerStream: messages with a field, with an empty  *)
(* body, and with one of a block and a half that looks like lines;         *)
(* requests with a stream as long as announced, or too short.              *)
(***************************************************************************)
EXTENDS ServerStream, TLC

AllData(data) ==
  [h |-> "AllData", fields |-> <<DataLength(Len(data))>>, data |-> data]

SmallMessages ==
  {[h |-> "Peer", fields |-> <<Text("Field")>>, data |-> <<>>],
   AllData(<<>>), AllData(<<NL, Byte(2), Text("Peer")>>)}

SmallRequests == {[length |-> 3, have |-> 3], [length |-> 3, have |-> 2]}
===============================================================================
