-------------------------------- MODULE Ticket --------------------------------
(***************************************************************************)
(* What a job ticket promises the threads that share it, with no mutex and *)
(* no thread in sight: a log of the node's messages that only grows, ends  *)
(* with the message that finishes the job, and is read by snapshots; and   *)
(* two facts a client may learn by waiting, "sent" (the node has answered) *)
(* and "finished" (the job is over).  JobTicket.tla is the mutex protocol  *)
(* of src/JobTicket.h that implements it.                                  *)
(***************************************************************************)
EXTENDS Sequences

CONSTANTS
  Clients   \* the client threads that hold the ticket

VARIABLES
  log,      \* the messages received, in order: "more" or "last"
  done,     \* the job is finished
  known,    \* for each client, what its waits have told it
  view      \* for each client, its last snapshot of the log

vars == <<log, done, known, view>>

Statuses == {"more", "last"}
Facts == {"sent", "finished"}

Init ==
  /\ log = <<>>
  /\ done = FALSE
  /\ known = [c \in Clients |-> {}]
  /\ view = [c \in Clients |-> <<>>]

Ended == log # <<>> /\ log[Len(log)] = "last"

\* A message of the node is recorded, unless the last one already is; the last
\* one may finish the job in the same step.
Receive(s) ==
  /\ ~Ended
  /\ log' = Append(log, s)
  /\ done' \in {done, s = "last"}
  /\ UNCHANGED <<known, view>>

\* The job finishes, once its last message is in the log.
Finish ==
  /\ Ended
  /\ ~done
  /\ done' = TRUE
  /\ UNCHANGED <<log, known, view>>

\* A client learns that the node has answered.
LearnSent(c) ==
  /\ log # <<>>
  /\ known' = [known EXCEPT ![c] = @ \cup {"sent"}]
  /\ UNCHANGED <<log, done, view>>

\* A client learns that the job is finished.
LearnFinished(c) ==
  /\ done
  /\ known' = [known EXCEPT ![c] = @ \cup {"finished"}]
  /\ UNCHANGED <<log, done, view>>

\* A client takes a snapshot of the whole log.
Observe(c) ==
  /\ view' = [view EXCEPT ![c] = log]
  /\ UNCHANGED <<log, done, known>>

Next ==
  \/ \E s \in Statuses : Receive(s)
  \/ Finish
  \/ \E c \in Clients : LearnSent(c) \/ LearnFinished(c) \/ Observe(c)

Spec == Init /\ [][Next]_vars

===============================================================================
