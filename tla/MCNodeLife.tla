------------------------------ MODULE MCNodeLife -------------------------------
(***************************************************************************)
(* A small instance of NodeLife for TLC: beside hello and shutdown, one    *)
(* command.                                                                *)
(***************************************************************************)
EXTENDS NodeLife

FewRequests == {ClientHello, Shutdown, ListPeer}
NoUpdates == <<>>
===============================================================================
