---------------------------- MODULE JobTicketProofs ----------------------------
(***************************************************************************)
(* Proofs about JobTicket for any set of clients, any number of calls and  *)
(* any number of messages.                                                 *)
(*                                                                         *)
(* IInv is inductive: one lemma per conjunct of it says that a step of any *)
(* thread preserves the conjunct, with one step per action.  The safety    *)
(* properties, the action property FinishedIsFinal and the refinement of   *)
(* Ticket follow from it.                                                  *)
(***************************************************************************)
EXTENDS JobTicket, TLAPS

\* The last element of a sequence that has just been appended to.
LEMMA AppendLast ==
  ASSUME NEW s \in Seq(Statuses), NEW e \in Statuses
  PROVE  /\ Append(s, e) \in Seq(Statuses)
         /\ Append(s, e) # <<>>
         /\ Len(Append(s, e)) = Len(s) + 1
         /\ Append(s, e)[Len(Append(s, e))] = e
  OBVIOUS

\* Every thread starts outside the ticket, with both latches held.
LEMMA InitIInv == Init => IInv
<1> SUFFICES ASSUME Init PROVE IInv
  OBVIOUS
<1> USE ThreadAssumption, BoundAssumption DEF Init
<1>1. nodeResponse \in Seq(Statuses) /\ Len(nodeResponse) = 0
  OBVIOUS
<1>2. ~Ended
  BY DEF Ended
<1>3. TypeOK
  <2>1. mpc \in MgrSteps /\ status \in Statuses
    BY DEF MgrSteps, Statuses
  <2>2. cpc \in [Clients -> ClientSteps] /\ call \in [Clients -> Calls]
    BY DEF ClientSteps, Calls, Waits
  <2>3. result \in [Clients -> Results] /\ known \in [Clients -> SUBSET Facts]
    BY DEF Results
  <2>4. view \in [Clients -> Seq(Statuses)] /\ calls \in [Clients -> Nat]
    OBVIOUS
  <2>5. phase \in [Clients -> {"reqSent", "lock"}] /\ expired \in [Clients -> BOOLEAN]
    OBVIOUS
  <2>6. nodeResponse \in Seq(Statuses) /\ Len(nodeResponse) <= MaxResponses
    BY <1>1
  <2>7. /\ access \in Clients \cup {Mgr, Nobody}
        /\ stage \in {"queued", "registered", "erased"}
        /\ {lock, reqSentLock, isFinished, interrupted, isAlive, hasException} \subseteq BOOLEAN
    OBVIOUS
  <2> HIDE DEF Init
  <2> QED
    BY <2>1, <2>2, <2>3, <2>4, <2>5, <2>6, <2>7 DEF TypeOK
<1>4. AccessInv /\ StageInv
  BY <1>2 DEF AccessInv, StageInv
<1>5. SentInv /\ FinishedInv /\ FailureInv
  BY DEF SentInv, FinishedInv, LockDiscipline, FailureInv, GetFailureSafe
<1> QED
  BY <1>3, <1>4, <1>5 DEF IInv

\* Steps keep the types; the bound on messages is PollMessage's guard,
\* carried to Push by StageInv.
LEMMA TypeStep ==
  TypeOK /\ StageInv /\ [Next]_vars => TypeOK'
<1> SUFFICES ASSUME TypeOK, StageInv, [Next]_vars PROVE TypeOK'
  OBVIOUS
<1> USE DEF TypeOK
<1>1. ASSUME NEW c \in Clients, NEW k \in Calls, Begin(c, k) PROVE TypeOK'
  BY <1>1 DEF Begin, Goto, Waits, ClientSteps, Calls, Results, ticket, manager,
        clients
<1>2. ASSUME NEW c \in Clients, Expire(c) PROVE TypeOK'
  BY <1>2 DEF Expire, ticket, manager, clients
<1>3. ASSUME NEW c \in Clients, TryBusy(c) PROVE TypeOK'
  BY <1>3 DEF TryBusy, Goto, ClientSteps, ticket, manager, clients
<1>4. ASSUME NEW c \in Clients, TakeReqSentLock(c) PROVE TypeOK'
  <2>1. known' \in [Clients -> SUBSET Facts]
    BY <1>4 DEF TakeReqSentLock, Learn, Facts
  <2>2. cpc' \in [Clients -> ClientSteps] /\ result' \in [Clients -> Results]
    BY <1>4 DEF TakeReqSentLock, Return, ClientSteps, Results
  <2>3. phase' \in [Clients -> {"reqSent", "lock"}]
    BY <1>4 DEF TakeReqSentLock
  <2> QED
    BY <1>4, <2>1, <2>2, <2>3 DEF TakeReqSentLock, manager
<1>5. ASSUME NEW c \in Clients, TakeLock(c) PROVE TypeOK'
  <2>1. cpc' \in [Clients -> ClientSteps]
    BY <1>5 DEF TakeLock, Goto, ClientSteps
  <2> QED
    BY <1>5, <2>1 DEF TakeLock, manager
<1>6. ASSUME NEW c \in Clients, ReleaseLock(c) PROVE TypeOK'
  <2>1. known' \in [Clients -> SUBSET Facts]
    BY <1>6 DEF ReleaseLock, Learn, Facts
  <2>2. cpc' \in [Clients -> ClientSteps] /\ result' \in [Clients -> Results]
    BY <1>6 DEF ReleaseLock, Return, ClientSteps, Results
  <2> QED
    BY <1>6, <2>1, <2>2 DEF ReleaseLock, manager
<1>7. ASSUME NEW c \in Clients, CheckAlive(c) PROVE TypeOK'
  <2>1. cpc' \in [Clients -> ClientSteps]
    BY <1>7 DEF CheckAlive, Goto, Return, ClientSteps
  <2>2. result' \in [Clients -> Results]
    BY <1>7 DEF CheckAlive, Return, Results
  <2> QED
    BY <1>7, <2>1, <2>2 DEF CheckAlive, ticket, manager
<1>8. ASSUME NEW c \in Clients, HasFailure(c) PROVE TypeOK'
  <2>1. cpc' \in [Clients -> ClientSteps]
    BY <1>8, ZenonT(30) DEF HasFailure, Goto, Return, ClientSteps
  <2>2. result' \in [Clients -> Results]
    BY <1>8 DEF HasFailure, Return, Results
  <2> QED
    BY <1>8, <2>1, <2>2 DEF HasFailure, ticket, manager
<1>9. ASSUME NEW c \in Clients, GetFailure(c) PROVE TypeOK'
  <2>1. cpc' \in [Clients -> ClientSteps] /\ result' \in [Clients -> Results]
    BY <1>9 DEF GetFailure, Return, ClientSteps, Results
  <2> QED
    BY <1>9, <2>1 DEF GetFailure, ticket, manager
<1>10. ASSUME NEW c \in Clients, AcquireAccess(c) PROVE TypeOK'
  BY <1>10 DEF AcquireAccess, Goto, ClientSteps, ticket, manager, clients
<1>11. ASSUME NEW c \in Clients, Read(c) PROVE TypeOK'
  <2>1. known' \in [Clients -> SUBSET Facts]
    <3>1. CASE call[c] # "getResponse" /\ isFinished
      <4>1. known' = [known EXCEPT ![c] = known[c] \cup {"finished"}]
        BY <1>11, <3>1 DEF Read, Learn
      <4> QED
        BY <4>1 DEF Facts
    <3>2. CASE ~(call[c] # "getResponse" /\ isFinished)
      BY <1>11, <3>2 DEF Read
    <3> QED
      BY <3>1, <3>2
  <2>2. view' \in [Clients -> Seq(Statuses)]
    BY <1>11 DEF Read
  <2>3. cpc' \in [Clients -> ClientSteps] /\ result' \in [Clients -> Results]
    BY <1>11 DEF Read, Return, ClientSteps, Results
  <2> QED
    BY <1>11, <2>1, <2>2, <2>3 DEF Read, manager
<1>12. ASSUME Top PROVE TypeOK'
  BY <1>12 DEF Top, MgrSteps, ticket, manager, clients
<1>13. ASSUME PollOther PROVE TypeOK'
  BY <1>13 DEF PollOther, MgrSteps, ticket, manager, clients
<1>14. ASSUME NEW s \in Statuses, PollMessage(s) PROVE TypeOK'
  BY <1>14 DEF PollMessage, MgrSteps, ticket, manager, clients
<1>15. ASSUME Respond PROVE TypeOK'
  BY <1>15 DEF Respond, MgrSteps, ticket, manager, clients
<1>16. ASSUME Confirm PROVE TypeOK'
  BY <1>16 DEF Confirm, MgrSteps, ticket, manager, clients
<1>17. ASSUME Push PROVE TypeOK'
  BY <1>17, BoundAssumption DEF Push, StageInv, MgrSteps, ticket, manager, clients
<1>18. ASSUME Result PROVE TypeOK'
  BY <1>18 DEF Result, MgrSteps, ticket, manager, clients
<1>19. ASSUME Finish PROVE TypeOK'
  BY <1>19 DEF Finish, MgrSteps, ticket, manager, clients
<1>20. ASSUME Leave PROVE TypeOK'
  BY <1>20 DEF Leave, MgrSteps, ticket, manager, clients
<1>21. ASSUME QueueOther PROVE TypeOK'
  BY <1>21 DEF QueueOther, MgrSteps, ticket, manager, clients
<1>22. ASSUME Register PROVE TypeOK'
  BY <1>22 DEF Register, MgrSteps, ticket, manager, clients
<1>23. ASSUME Send PROVE TypeOK'
  BY <1>23 DEF Send, MgrSteps, ticket, manager, clients
<1>24. ASSUME Wake PROVE TypeOK'
  BY <1>24 DEF Wake, MgrSteps, ticket, manager, clients
<1>25. ASSUME ThrowInterrupted PROVE TypeOK'
  BY <1>25 DEF ThrowInterrupted, MgrSteps, ticket, manager, clients
<1>26. ASSUME ThrowError PROVE TypeOK'
  BY <1>26 DEF ThrowError, MgrSteps, ticket, manager, clients
<1>27. ASSUME SetIsAlive PROVE TypeOK'
  BY <1>27 DEF SetIsAlive, MgrSteps, ticket, manager, clients
<1>28. ASSUME SetFailure PROVE TypeOK'
  BY <1>28 DEF SetFailure, MgrSteps, ticket, manager, clients
<1>29. ASSUME Interrupt PROVE TypeOK'
  BY <1>29 DEF Interrupt, ticket, manager, clients
<1>30. CASE UNCHANGED vars
  BY <1>30 DEF vars, ticket, manager, clients
<1> QED
  BY <1>1, <1>2, <1>3, <1>4, <1>5, <1>6, <1>7, <1>8, <1>9, <1>10, <1>11, <1>12,
        <1>13, <1>14, <1>15, <1>16, <1>17, <1>18, <1>19, <1>20, <1>21, <1>22,
        <1>23, <1>24, <1>25, <1>26, <1>27, <1>28, <1>29, <1>30 DEF Next, ClientStep, Manager

\* Only the owner of access stands in a guarded section.
LEMMA AccessStep ==
  TypeOK /\ AccessInv /\ [Next]_vars => AccessInv'
<1> SUFFICES ASSUME TypeOK, AccessInv, [Next]_vars PROVE AccessInv'
  OBVIOUS
<1> USE ThreadAssumption DEF TypeOK, AccessInv, ClientSteps, MgrSteps
<1>1. ASSUME NEW c \in Clients, NEW k \in Calls, Begin(c, k) PROVE AccessInv'
  BY <1>1 DEF Begin, Goto, Waits, ticket, manager, clients
<1>2. ASSUME NEW c \in Clients, Expire(c) PROVE AccessInv'
  BY <1>2 DEF Expire, ticket, manager, clients
<1>3. ASSUME NEW c \in Clients, TryBusy(c) PROVE AccessInv'
  BY <1>3 DEF TryBusy, Goto, ticket, manager, clients
<1>4. ASSUME NEW c \in Clients, TakeReqSentLock(c) PROVE AccessInv'
  BY <1>4 DEF TakeReqSentLock, Learn, Return, ticket, manager, clients
<1>5. ASSUME NEW c \in Clients, TakeLock(c) PROVE AccessInv'
  BY <1>5 DEF TakeLock, Goto, ticket, manager, clients
<1>6. ASSUME NEW c \in Clients, ReleaseLock(c) PROVE AccessInv'
  BY <1>6 DEF ReleaseLock, Learn, Return, ticket, manager, clients
<1>7. ASSUME NEW c \in Clients, CheckAlive(c) PROVE AccessInv'
  BY <1>7 DEF CheckAlive, Goto, Return, ticket, manager, clients
<1>8. ASSUME NEW c \in Clients, HasFailure(c) PROVE AccessInv'
  BY <1>8 DEF HasFailure, Goto, Return, ticket, manager, clients
<1>9. ASSUME NEW c \in Clients, GetFailure(c) PROVE AccessInv'
  BY <1>9 DEF GetFailure, Return, ticket, manager, clients
<1>10. ASSUME NEW c \in Clients, AcquireAccess(c) PROVE AccessInv'
  BY <1>10 DEF AcquireAccess, Goto, ticket, manager, clients
<1>11. ASSUME NEW c \in Clients, Read(c) PROVE AccessInv'
  BY <1>11 DEF Read, Learn, Return, ticket, manager, clients
<1>12. ASSUME Top PROVE AccessInv'
  BY <1>12 DEF Top, ticket, manager, clients
<1>13. ASSUME PollOther PROVE AccessInv'
  BY <1>13 DEF PollOther, ticket, manager, clients
<1>14. ASSUME NEW s \in Statuses, PollMessage(s) PROVE AccessInv'
  BY <1>14 DEF PollMessage, ticket, manager, clients
<1>15. ASSUME Respond PROVE AccessInv'
  BY <1>15 DEF Respond, ticket, manager, clients
<1>16. ASSUME Confirm PROVE AccessInv'
  BY <1>16 DEF Confirm, ticket, manager, clients
<1>17. ASSUME Push PROVE AccessInv'
  BY <1>17 DEF Push, ticket, manager, clients
<1>18. ASSUME Result PROVE AccessInv'
  BY <1>18 DEF Result, ticket, manager, clients
<1>19. ASSUME Finish PROVE AccessInv'
  BY <1>19 DEF Finish, ticket, manager, clients
<1>20. ASSUME Leave PROVE AccessInv'
  BY <1>20 DEF Leave, ticket, manager, clients
<1>21. ASSUME QueueOther PROVE AccessInv'
  BY <1>21 DEF QueueOther, ticket, manager, clients
<1>22. ASSUME Register PROVE AccessInv'
  BY <1>22 DEF Register, ticket, manager, clients
<1>23. ASSUME Send PROVE AccessInv'
  BY <1>23 DEF Send, ticket, manager, clients
<1>24. ASSUME Wake PROVE AccessInv'
  BY <1>24 DEF Wake, ticket, manager, clients
<1>25. ASSUME ThrowInterrupted PROVE AccessInv'
  BY <1>25 DEF ThrowInterrupted, ticket, manager, clients
<1>26. ASSUME ThrowError PROVE AccessInv'
  BY <1>26 DEF ThrowError, ticket, manager, clients
<1>27. ASSUME SetIsAlive PROVE AccessInv'
  BY <1>27 DEF SetIsAlive, ticket, manager, clients
<1>28. ASSUME SetFailure PROVE AccessInv'
  BY <1>28 DEF SetFailure, ticket, manager, clients
<1>29. ASSUME Interrupt PROVE AccessInv'
  BY <1>29 DEF Interrupt, ticket, manager, clients
<1>30. CASE UNCHANGED vars
  BY <1>30 DEF vars, ticket, manager, clients
<1> QED
  BY <1>1, <1>2, <1>3, <1>4, <1>5, <1>6, <1>7, <1>8, <1>9, <1>10, <1>11, <1>12,
        <1>13, <1>14, <1>15, <1>16, <1>17, <1>18, <1>19, <1>20, <1>21, <1>22,
        <1>23, <1>24, <1>25, <1>26, <1>27, <1>28, <1>29, <1>30 DEF Next, ClientStep, Manager

\* The ticket is in the map while messages come, and out of it once finished.
LEMMA StageStep ==
  TypeOK /\ StageInv /\ [Next]_vars => StageInv'
<1> SUFFICES ASSUME TypeOK, StageInv, [Next]_vars PROVE StageInv'
  OBVIOUS
<1> USE DEF TypeOK, StageInv, Ended, MgrSteps, Statuses
<1>1. ASSUME NEW c \in Clients, NEW k \in Calls, Begin(c, k) PROVE StageInv'
  BY <1>1 DEF Begin, Goto, Waits, ticket, manager, clients
<1>2. ASSUME NEW c \in Clients, Expire(c) PROVE StageInv'
  BY <1>2 DEF Expire, ticket, manager, clients
<1>3. ASSUME NEW c \in Clients, TryBusy(c) PROVE StageInv'
  BY <1>3 DEF TryBusy, Goto, ticket, manager, clients
<1>4. ASSUME NEW c \in Clients, TakeReqSentLock(c) PROVE StageInv'
  BY <1>4 DEF TakeReqSentLock, Learn, Return, ticket, manager, clients
<1>5. ASSUME NEW c \in Clients, TakeLock(c) PROVE StageInv'
  BY <1>5 DEF TakeLock, Goto, ticket, manager, clients
<1>6. ASSUME NEW c \in Clients, ReleaseLock(c) PROVE StageInv'
  BY <1>6 DEF ReleaseLock, Learn, Return, ticket, manager, clients
<1>7. ASSUME NEW c \in Clients, CheckAlive(c) PROVE StageInv'
  BY <1>7 DEF CheckAlive, Goto, Return, ticket, manager, clients
<1>8. ASSUME NEW c \in Clients, HasFailure(c) PROVE StageInv'
  BY <1>8 DEF HasFailure, Goto, Return, ticket, manager, clients
<1>9. ASSUME NEW c \in Clients, GetFailure(c) PROVE StageInv'
  BY <1>9 DEF GetFailure, Return, ticket, manager, clients
<1>10. ASSUME NEW c \in Clients, AcquireAccess(c) PROVE StageInv'
  BY <1>10 DEF AcquireAccess, Goto, ticket, manager, clients
<1>11. ASSUME NEW c \in Clients, Read(c) PROVE StageInv'
  BY <1>11 DEF Read, Learn, Return, ticket, manager, clients
<1>12. ASSUME Top PROVE StageInv'
  BY <1>12 DEF Top, ticket, manager, clients
<1>13. ASSUME PollOther PROVE StageInv'
  BY <1>13 DEF PollOther, ticket, manager, clients
<1>14. ASSUME NEW s \in Statuses, PollMessage(s) PROVE StageInv'
  BY <1>14 DEF PollMessage, ticket, manager, clients
<1>15. ASSUME Respond PROVE StageInv'
  BY <1>15 DEF Respond, ticket, manager, clients
<1>16. ASSUME Confirm PROVE StageInv'
  BY <1>16 DEF Confirm, ticket, manager, clients
<1>17. ASSUME Push PROVE StageInv'
  <2>1. /\ nodeResponse' # <<>>
        /\ nodeResponse'[Len(nodeResponse')] = status
    BY <1>17, AppendLast DEF Push
  <2>2. mpc' = (IF status = "last" THEN "result" ELSE "queue")
    BY <1>17 DEF Push
  <2>3. stage' = "registered" /\ ~isFinished'
    BY <1>17 DEF Push
  <2> QED
    BY <2>1, <2>2, <2>3
<1>18. ASSUME Result PROVE StageInv'
  BY <1>18 DEF Result, ticket, manager, clients
<1>19. ASSUME Finish PROVE StageInv'
  BY <1>19 DEF Finish, ticket, manager, clients
<1>20. ASSUME Leave PROVE StageInv'
  BY <1>20 DEF Leave, ticket, manager, clients
<1>21. ASSUME QueueOther PROVE StageInv'
  BY <1>21 DEF QueueOther, ticket, manager, clients
<1>22. ASSUME Register PROVE StageInv'
  BY <1>22 DEF Register, ticket, manager, clients
<1>23. ASSUME Send PROVE StageInv'
  BY <1>23 DEF Send, ticket, manager, clients
<1>24. ASSUME Wake PROVE StageInv'
  BY <1>24 DEF Wake, ticket, manager, clients
<1>25. ASSUME ThrowInterrupted PROVE StageInv'
  BY <1>25 DEF ThrowInterrupted, ticket, manager, clients
<1>26. ASSUME ThrowError PROVE StageInv'
  BY <1>26 DEF ThrowError, ticket, manager, clients
<1>27. ASSUME SetIsAlive PROVE StageInv'
  BY <1>27 DEF SetIsAlive, ticket, manager, clients
<1>28. ASSUME SetFailure PROVE StageInv'
  BY <1>28 DEF SetFailure, ticket, manager, clients
<1>29. ASSUME Interrupt PROVE StageInv'
  BY <1>29 DEF Interrupt, ticket, manager, clients
<1>30. CASE UNCHANGED vars
  BY <1>30 DEF vars, ticket, manager, clients
<1> QED
  BY <1>1, <1>2, <1>3, <1>4, <1>5, <1>6, <1>7, <1>8, <1>9, <1>10, <1>11, <1>12,
        <1>13, <1>14, <1>15, <1>16, <1>17, <1>18, <1>19, <1>20, <1>21, <1>22,
        <1>23, <1>24, <1>25, <1>26, <1>27, <1>28, <1>29, <1>30 DEF Next, ClientStep, Manager

\* reqSentLock opens with the first message.
LEMMA SentStep ==
  TypeOK /\ SentInv /\ [Next]_vars => SentInv'
<1> SUFFICES ASSUME TypeOK, SentInv, [Next]_vars PROVE SentInv'
  OBVIOUS
<1> USE DEF TypeOK, SentInv, MgrSteps, Statuses, Facts
<1>1. ASSUME NEW c \in Clients, NEW k \in Calls, Begin(c, k) PROVE SentInv'
  BY <1>1 DEF Begin, Goto, Waits, ticket, manager, clients
<1>2. ASSUME NEW c \in Clients, Expire(c) PROVE SentInv'
  BY <1>2 DEF Expire, ticket, manager, clients
<1>3. ASSUME NEW c \in Clients, TryBusy(c) PROVE SentInv'
  BY <1>3 DEF TryBusy, Goto, ticket, manager, clients
<1>4. ASSUME NEW c \in Clients, TakeReqSentLock(c) PROVE SentInv'
  BY <1>4 DEF TakeReqSentLock, Learn, Return, ticket, manager, clients
<1>5. ASSUME NEW c \in Clients, TakeLock(c) PROVE SentInv'
  BY <1>5 DEF TakeLock, Goto, ticket, manager, clients
<1>6. ASSUME NEW c \in Clients, ReleaseLock(c) PROVE SentInv'
  BY <1>6 DEF ReleaseLock, Learn, Return, ticket, manager, clients
<1>7. ASSUME NEW c \in Clients, CheckAlive(c) PROVE SentInv'
  BY <1>7 DEF CheckAlive, Goto, Return, ticket, manager, clients
<1>8. ASSUME NEW c \in Clients, HasFailure(c) PROVE SentInv'
  BY <1>8 DEF HasFailure, Goto, Return, ticket, manager, clients
<1>9. ASSUME NEW c \in Clients, GetFailure(c) PROVE SentInv'
  BY <1>9 DEF GetFailure, Return, ticket, manager, clients
<1>10. ASSUME NEW c \in Clients, AcquireAccess(c) PROVE SentInv'
  BY <1>10 DEF AcquireAccess, Goto, ticket, manager, clients
<1>11. ASSUME NEW c \in Clients, Read(c) PROVE SentInv'
  <2>1. ASSUME NEW d \in Clients, "sent" \in known'[d] PROVE "sent" \in known[d]
    BY <1>11, <2>1 DEF Read, Learn
  <2> QED
    BY <1>11, <2>1 DEF Read, manager
<1>12. ASSUME Top PROVE SentInv'
  BY <1>12 DEF Top, ticket, manager, clients
<1>13. ASSUME PollOther PROVE SentInv'
  BY <1>13 DEF PollOther, ticket, manager, clients
<1>14. ASSUME NEW s \in Statuses, PollMessage(s) PROVE SentInv'
  BY <1>14 DEF PollMessage, ticket, manager, clients
<1>15. ASSUME Respond PROVE SentInv'
  BY <1>15 DEF Respond, ticket, manager, clients
<1>16. ASSUME Confirm PROVE SentInv'
  BY <1>16 DEF Confirm, ticket, manager, clients
<1>17. ASSUME Push PROVE SentInv'
  BY <1>17 DEF Push, ticket, manager, clients
<1>18. ASSUME Result PROVE SentInv'
  BY <1>18 DEF Result, ticket, manager, clients
<1>19. ASSUME Finish PROVE SentInv'
  BY <1>19 DEF Finish, ticket, manager, clients
<1>20. ASSUME Leave PROVE SentInv'
  BY <1>20 DEF Leave, ticket, manager, clients
<1>21. ASSUME QueueOther PROVE SentInv'
  BY <1>21 DEF QueueOther, ticket, manager, clients
<1>22. ASSUME Register PROVE SentInv'
  BY <1>22 DEF Register, ticket, manager, clients
<1>23. ASSUME Send PROVE SentInv'
  BY <1>23 DEF Send, ticket, manager, clients
<1>24. ASSUME Wake PROVE SentInv'
  BY <1>24 DEF Wake, ticket, manager, clients
<1>25. ASSUME ThrowInterrupted PROVE SentInv'
  BY <1>25 DEF ThrowInterrupted, ticket, manager, clients
<1>26. ASSUME ThrowError PROVE SentInv'
  BY <1>26 DEF ThrowError, ticket, manager, clients
<1>27. ASSUME SetIsAlive PROVE SentInv'
  BY <1>27 DEF SetIsAlive, ticket, manager, clients
<1>28. ASSUME SetFailure PROVE SentInv'
  BY <1>28 DEF SetFailure, ticket, manager, clients
<1>29. ASSUME Interrupt PROVE SentInv'
  BY <1>29 DEF Interrupt, ticket, manager, clients
<1>30. CASE UNCHANGED vars
  BY <1>30 DEF vars, ticket, manager, clients
<1> QED
  BY <1>1, <1>2, <1>3, <1>4, <1>5, <1>6, <1>7, <1>8, <1>9, <1>10, <1>11, <1>12,
        <1>13, <1>14, <1>15, <1>16, <1>17, <1>18, <1>19, <1>20, <1>21, <1>22,
        <1>23, <1>24, <1>25, <1>26, <1>27, <1>28, <1>29, <1>30 DEF Next, ClientStep, Manager

\* lock opens when the ticket is finished and passes from waiter to waiter.
LEMMA FinishedStep ==
  TypeOK /\ StageInv /\ FinishedInv /\ [Next]_vars => FinishedInv'
<1> SUFFICES ASSUME TypeOK, StageInv, FinishedInv, [Next]_vars PROVE FinishedInv'
  OBVIOUS
<1> USE DEF TypeOK, FinishedInv, LockDiscipline, ClientSteps, Facts
<1>1. ASSUME NEW c \in Clients, NEW k \in Calls, Begin(c, k) PROVE FinishedInv'
  BY <1>1 DEF Begin, Goto, Waits, ticket, manager, clients
<1>2. ASSUME NEW c \in Clients, Expire(c) PROVE FinishedInv'
  BY <1>2 DEF Expire, ticket, manager, clients
<1>3. ASSUME NEW c \in Clients, TryBusy(c) PROVE FinishedInv'
  BY <1>3 DEF TryBusy, Goto, ticket, manager, clients
<1>4. ASSUME NEW c \in Clients, TakeReqSentLock(c) PROVE FinishedInv'
  BY <1>4 DEF TakeReqSentLock, Learn, Return, ticket, manager, clients
<1>5. ASSUME NEW c \in Clients, TakeLock(c) PROVE FinishedInv'
  BY <1>5 DEF TakeLock, Goto, ticket, manager, clients
<1>6. ASSUME NEW c \in Clients, ReleaseLock(c) PROVE FinishedInv'
  BY <1>6 DEF ReleaseLock, Learn, Return, ticket, manager, clients
<1>7. ASSUME NEW c \in Clients, CheckAlive(c) PROVE FinishedInv'
  <2>1. ASSUME NEW d \in Clients PROVE cpc'[d] = "unlock" <=> cpc[d] = "unlock"
    BY <1>7 DEF CheckAlive, Goto, Return
  <2> QED
    BY <1>7, <2>1 DEF CheckAlive, ticket, manager
<1>8. ASSUME NEW c \in Clients, HasFailure(c) PROVE FinishedInv'
  <2>1. ASSUME NEW d \in Clients PROVE cpc'[d] = "unlock" <=> cpc[d] = "unlock"
    BY <1>8 DEF HasFailure, Goto, Return
  <2> QED
    BY <1>8, <2>1 DEF HasFailure, ticket, manager
<1>9. ASSUME NEW c \in Clients, GetFailure(c) PROVE FinishedInv'
  BY <1>9 DEF GetFailure, Return, ticket, manager, clients
<1>10. ASSUME NEW c \in Clients, AcquireAccess(c) PROVE FinishedInv'
  BY <1>10 DEF AcquireAccess, Goto, ticket, manager, clients
<1>11. ASSUME NEW c \in Clients, Read(c) PROVE FinishedInv'
  BY <1>11 DEF Read, Learn, Return, ticket, manager, clients
<1>12. ASSUME Top PROVE FinishedInv'
  BY <1>12 DEF Top, ticket, manager, clients
<1>13. ASSUME PollOther PROVE FinishedInv'
  BY <1>13 DEF PollOther, ticket, manager, clients
<1>14. ASSUME NEW s \in Statuses, PollMessage(s) PROVE FinishedInv'
  BY <1>14 DEF PollMessage, ticket, manager, clients
<1>15. ASSUME Respond PROVE FinishedInv'
  BY <1>15 DEF Respond, ticket, manager, clients
<1>16. ASSUME Confirm PROVE FinishedInv'
  BY <1>16 DEF Confirm, ticket, manager, clients
<1>17. ASSUME Push PROVE FinishedInv'
  BY <1>17 DEF Push, ticket, manager, clients
<1>18. ASSUME Result PROVE FinishedInv'
  BY <1>18 DEF Result, ticket, manager, clients
<1>19. ASSUME Finish PROVE FinishedInv'
  BY <1>19 DEF Finish, StageInv, ticket, manager, clients
<1>20. ASSUME Leave PROVE FinishedInv'
  BY <1>20 DEF Leave, ticket, manager, clients
<1>21. ASSUME QueueOther PROVE FinishedInv'
  BY <1>21 DEF QueueOther, ticket, manager, clients
<1>22. ASSUME Register PROVE FinishedInv'
  BY <1>22 DEF Register, ticket, manager, clients
<1>23. ASSUME Send PROVE FinishedInv'
  BY <1>23 DEF Send, ticket, manager, clients
<1>24. ASSUME Wake PROVE FinishedInv'
  BY <1>24 DEF Wake, ticket, manager, clients
<1>25. ASSUME ThrowInterrupted PROVE FinishedInv'
  BY <1>25 DEF ThrowInterrupted, ticket, manager, clients
<1>26. ASSUME ThrowError PROVE FinishedInv'
  BY <1>26 DEF ThrowError, ticket, manager, clients
<1>27. ASSUME SetIsAlive PROVE FinishedInv'
  BY <1>27 DEF SetIsAlive, ticket, manager, clients
<1>28. ASSUME SetFailure PROVE FinishedInv'
  BY <1>28 DEF SetFailure, ticket, manager, clients
<1>29. ASSUME Interrupt PROVE FinishedInv'
  BY <1>29 DEF Interrupt, ticket, manager, clients
<1>30. CASE UNCHANGED vars
  BY <1>30 DEF vars, ticket, manager, clients
<1> QED
  BY <1>1, <1>2, <1>3, <1>4, <1>5, <1>6, <1>7, <1>8, <1>9, <1>10, <1>11, <1>12,
        <1>13, <1>14, <1>15, <1>16, <1>17, <1>18, <1>19, <1>20, <1>21, <1>22,
        <1>23, <1>24, <1>25, <1>26, <1>27, <1>28, <1>29, <1>30 DEF Next, ClientStep, Manager

\* The flags a waiter reads one after the other only change once.
LEMMA FailureStep ==
  TypeOK /\ FailureInv /\ [Next]_vars => FailureInv'
<1> SUFFICES ASSUME TypeOK, FailureInv, [Next]_vars PROVE FailureInv'
  OBVIOUS
<1> USE DEF TypeOK, FailureInv, GetFailureSafe, ClientSteps, MgrSteps, Results
<1>1. ASSUME NEW c \in Clients, NEW k \in Calls, Begin(c, k) PROVE FailureInv'
  BY <1>1 DEF Begin, Goto, Waits, ticket, manager, clients
<1>2. ASSUME NEW c \in Clients, Expire(c) PROVE FailureInv'
  BY <1>2 DEF Expire, ticket, manager, clients
<1>3. ASSUME NEW c \in Clients, TryBusy(c) PROVE FailureInv'
  BY <1>3 DEF TryBusy, Goto, ticket, manager, clients
<1>4. ASSUME NEW c \in Clients, TakeReqSentLock(c) PROVE FailureInv'
  BY <1>4 DEF TakeReqSentLock, Learn, Return, ticket, manager, clients
<1>5. ASSUME NEW c \in Clients, TakeLock(c) PROVE FailureInv'
  BY <1>5 DEF TakeLock, Goto, ticket, manager, clients
<1>6. ASSUME NEW c \in Clients, ReleaseLock(c) PROVE FailureInv'
  BY <1>6 DEF ReleaseLock, Learn, Return, ticket, manager, clients
<1>7. ASSUME NEW c \in Clients, CheckAlive(c) PROVE FailureInv'
  BY <1>7 DEF CheckAlive, Goto, Return, ticket, manager, clients
<1>8. ASSUME NEW c \in Clients, HasFailure(c) PROVE FailureInv'
  BY <1>8 DEF HasFailure, Goto, Return, ticket, manager, clients
<1>9. ASSUME NEW c \in Clients, GetFailure(c) PROVE FailureInv'
  BY <1>9 DEF GetFailure, Return, ticket, manager, clients
<1>10. ASSUME NEW c \in Clients, AcquireAccess(c) PROVE FailureInv'
  BY <1>10 DEF AcquireAccess, Goto, ticket, manager, clients
<1>11. ASSUME NEW c \in Clients, Read(c) PROVE FailureInv'
  BY <1>11 DEF Read, Learn, Return, ticket, manager, clients
<1>12. ASSUME Top PROVE FailureInv'
  BY <1>12 DEF Top, ticket, manager, clients
<1>13. ASSUME PollOther PROVE FailureInv'
  BY <1>13 DEF PollOther, ticket, manager, clients
<1>14. ASSUME NEW s \in Statuses, PollMessage(s) PROVE FailureInv'
  BY <1>14 DEF PollMessage, ticket, manager, clients
<1>15. ASSUME Respond PROVE FailureInv'
  BY <1>15 DEF Respond, ticket, manager, clients
<1>16. ASSUME Confirm PROVE FailureInv'
  BY <1>16 DEF Confirm, ticket, manager, clients
<1>17. ASSUME Push PROVE FailureInv'
  BY <1>17 DEF Push, ticket, manager, clients
<1>18. ASSUME Result PROVE FailureInv'
  BY <1>18 DEF Result, ticket, manager, clients
<1>19. ASSUME Finish PROVE FailureInv'
  BY <1>19 DEF Finish, ticket, manager, clients
<1>20. ASSUME Leave PROVE FailureInv'
  BY <1>20 DEF Leave, ticket, manager, clients
<1>21. ASSUME QueueOther PROVE FailureInv'
  BY <1>21 DEF QueueOther, ticket, manager, clients
<1>22. ASSUME Register PROVE FailureInv'
  BY <1>22 DEF Register, ticket, manager, clients
<1>23. ASSUME Send PROVE FailureInv'
  BY <1>23 DEF Send, ticket, manager, clients
<1>24. ASSUME Wake PROVE FailureInv'
  BY <1>24 DEF Wake, ticket, manager, clients
<1>25. ASSUME ThrowInterrupted PROVE FailureInv'
  BY <1>25 DEF ThrowInterrupted, ticket, manager, clients
<1>26. ASSUME ThrowError PROVE FailureInv'
  BY <1>26 DEF ThrowError, ticket, manager, clients
<1>27. ASSUME SetIsAlive PROVE FailureInv'
  BY <1>27 DEF SetIsAlive, ticket, manager, clients
<1>28. ASSUME SetFailure PROVE FailureInv'
  BY <1>28 DEF SetFailure, ticket, manager, clients
<1>29. ASSUME Interrupt PROVE FailureInv'
  BY <1>29 DEF Interrupt, ticket, manager, clients
<1>30. CASE UNCHANGED vars
  BY <1>30 DEF vars, ticket, manager, clients
<1> QED
  BY <1>1, <1>2, <1>3, <1>4, <1>5, <1>6, <1>7, <1>8, <1>9, <1>10, <1>11, <1>12,
        <1>13, <1>14, <1>15, <1>16, <1>17, <1>18, <1>19, <1>20, <1>21, <1>22,
        <1>23, <1>24, <1>25, <1>26, <1>27, <1>28, <1>29, <1>30 DEF Next, ClientStep, Manager

\* IInv is inductive.
LEMMA IInvStep == IInv /\ [Next]_vars => IInv'
  BY TypeStep, AccessStep, StageStep, SentStep, FinishedStep, FailureStep DEF IInv

\* The inductive invariant holds in every reachable state: the threads of
\* JobTicket.cpp and NodeThread::run keep the ticket's three mutexes, its
\* responses and the node's failure flags in step.
THEOREM InductiveInvariant == Spec => []IInv
<1>1. Init => IInv
  BY InitIInv
<1>2. IInv /\ [Next]_vars => IInv'
  BY IInvStep
<1> QED
  BY <1>1, <1>2, PTL DEF Spec

\* The ticket's state has its type in every reachable state, and putResponse
\* stores no more messages than the node sent.
THEOREM TypeCorrect == Spec => []TypeOK
<1>1. IInv => TypeOK
  BY DEF IInv
<1> QED
  BY <1>1, InductiveInvariant, PTL

\* After a successful wait getResponse returns the messages waited for, for
\* any number of clients: between reqSentLock.release and push_back the
\* manager owns access, so no client reads.
THEOREM WaitersCanRead == Spec => []ReadableAfterWait
<1>1. IInv => ReadableAfterWait
  <2> SUFFICES ASSUME IInv, NEW c \in Clients, cpc[c] = "read"
               PROVE  /\ "sent" \in known[c] => nodeResponse # <<>>
                      /\ "finished" \in known[c] => Ended
    BY DEF ReadableAfterWait
  <2>1. access = c
    BY DEF IInv, AccessInv
  <2>2. mpc # "push"
    BY <2>1, ThreadAssumption DEF IInv, AccessInv
  <2> QED
    BY <2>2 DEF IInv, SentInv, FinishedInv, StageInv
<1> QED
  BY <1>1, InductiveInvariant, PTL

\* The latch lock opens only for a finished ticket and is never left shut by
\* a waiter, for any number of waiters.
THEOREM LatchWorks == Spec => []LockDiscipline
<1>1. IInv => LockDiscipline
  BY DEF IInv, FinishedInv
<1> QED
  BY <1>1, InductiveInvariant, PTL

\* No waiter ever meets the std::logic_error of Node::getFailure.
THEOREM FailureIsReported == Spec => []GetFailureSafe
<1>1. IInv => GetFailureSafe
  BY DEF IInv, FailureInv
<1> QED
  BY <1>1, InductiveInvariant, PTL

\* A finished ticket is never changed again: only Push stores a message, and
\* the manager never pushes to a finished ticket.
THEOREM FinishedForGood == Spec => FinishedIsFinal
<1>1. IInv /\ [Next]_vars => (isFinished => isFinished' /\ nodeResponse' = nodeResponse)
  <2> SUFFICES ASSUME IInv, [Next]_vars, isFinished
               PROVE  isFinished' /\ nodeResponse' = nodeResponse
    OBVIOUS
  <2>1. ~Push
    BY DEF IInv, StageInv, Push
  <2>2. CASE Finish \/ Confirm \/ Respond \/ Result \/ Leave
    BY <2>2 DEF Finish, Confirm, Respond, Result, Leave
  <2>3. ASSUME NEW c \in Clients,
               (\E k \in Calls : Begin(c, k)) \/ Expire(c) \/ ClientStep(c)
        PROVE  isFinished' /\ nodeResponse' = nodeResponse
    BY <2>3 DEF Begin, Expire, ClientStep, TryBusy, TakeReqSentLock, TakeLock,
        ReleaseLock, CheckAlive, HasFailure, GetFailure, AcquireAccess, Read, ticket
  <2>4. CASE \/ Top \/ PollOther \/ (\E s \in Statuses : PollMessage(s))
             \/ QueueOther \/ Register \/ Send \/ Wake \/ ThrowInterrupted
             \/ ThrowError \/ SetIsAlive \/ SetFailure \/ Interrupt
    BY <2>4 DEF Top, PollOther, PollMessage, QueueOther, Register, Send, Wake,
        ThrowInterrupted, ThrowError, SetIsAlive, SetFailure, Interrupt, ticket
  <2>5. CASE UNCHANGED vars
    BY <2>5 DEF vars, ticket
  <2> QED
    BY <2>1, <2>2, <2>3, <2>4, <2>5 DEF Next, Manager
<1> QED
  BY <1>1, InductiveInvariant, PTL DEF Spec, FinishedIsFinal

\* A step of a thread is a step of the abstract ticket or leaves it alone.
LEMMA RefineStep == IInv /\ [Next]_vars => [T!Next]_(T!vars)
<1> SUFFICES ASSUME IInv, [Next]_vars PROVE [T!Next]_(T!vars)
  OBVIOUS
<1> USE DEF T!vars
<1>1. ASSUME NEW c \in Clients, TakeReqSentLock(c) PROVE T!Next
  <2>1. Log # <<>> /\ Log' = Log
    <3>1. nodeResponse # <<>> \/ mpc = "push"
      BY <1>1 DEF TakeReqSentLock, IInv, SentInv
    <3>2. Append(nodeResponse, status) # <<>>
      BY AppendLast DEF IInv, TypeOK
    <3> QED
      BY <1>1, <3>1, <3>2 DEF TakeReqSentLock, Log, manager
  <2>2. T!LearnSent(c)
    BY <1>1, <2>1 DEF TakeReqSentLock, Learn, T!LearnSent
  <2> QED
    BY <2>2 DEF T!Next
<1>2. ASSUME NEW c \in Clients, ReleaseLock(c) PROVE T!Next
  <2>1. isFinished /\ Log' = Log
    BY <1>2 DEF ReleaseLock, IInv, FinishedInv, Log, manager
  <2>2. T!LearnFinished(c)
    BY <1>2, <2>1 DEF ReleaseLock, Learn, T!LearnFinished
  <2> QED
    BY <2>2 DEF T!Next
<1>3. ASSUME NEW c \in Clients, Read(c) PROVE [T!Next]_(T!vars)
  <2>1. access = c
    BY <1>3 DEF Read, IInv, AccessInv
  <2>2. mpc # "push"
    BY <2>1, ThreadAssumption DEF IInv, AccessInv
  <2>3. Log = nodeResponse /\ Log' = Log /\ isFinished' = isFinished
    BY <1>3, <2>2 DEF Read, Log, manager
  <2>4. CASE call[c] = "getResponse"
    <3>1. T!Observe(c)
      BY <1>3, <2>3, <2>4 DEF Read, T!Observe
    <3> QED
      BY <3>1 DEF T!Next
  <2>5. CASE call[c] # "getResponse" /\ isFinished
    <3>1. T!LearnFinished(c)
      BY <1>3, <2>3, <2>5 DEF Read, Learn, T!LearnFinished
    <3> QED
      BY <3>1 DEF T!Next
  <2>6. CASE call[c] # "getResponse" /\ ~isFinished
    BY <1>3, <2>3, <2>6 DEF Read
  <2> QED
    BY <2>4, <2>5, <2>6
<1>4. ASSUME NEW c \in Clients,
             \/ \E k \in Calls : Begin(c, k)
             \/ Expire(c) \/ TryBusy(c) \/ TakeLock(c) \/ CheckAlive(c)
             \/ HasFailure(c) \/ GetFailure(c) \/ AcquireAccess(c)
      PROVE  UNCHANGED T!vars
  <2>1. UNCHANGED <<nodeResponse, isFinished, mpc, status, known, view>>
    BY <1>4 DEF Begin, Expire, TryBusy, TakeLock, CheckAlive, HasFailure,
        GetFailure, AcquireAccess, ticket, manager
  <2> QED
    BY <2>1 DEF Log
<1>5. CASE Confirm
  <2>1. Log = nodeResponse /\ Log' = Append(Log, status) /\ status \in {"more", "last"}
    BY <1>5 DEF Confirm, Log, IInv, TypeOK, Statuses
  <2>2. ~T!Ended
    BY <1>5, <2>1 DEF Confirm, IInv, StageInv, Ended, T!Ended
  <2>3. T!Receive(status)
    BY <1>5, <2>1, <2>2 DEF Confirm, clients, T!Receive
  <2> QED
    BY <2>1, <2>3 DEF T!Next, T!Statuses
<1>6. CASE Push
  BY <1>6 DEF Push, Log, clients
<1>7. CASE Finish
  <2>1. Log = nodeResponse /\ Log' = Log
    BY <1>7 DEF Finish, Log
  <2>2. T!Ended /\ ~isFinished
    BY <1>7, <2>1 DEF Finish, IInv, StageInv, Ended, T!Ended
  <2>3. T!Finish
    BY <1>7, <2>1, <2>2 DEF Finish, clients, T!Finish
  <2> QED
    BY <2>3 DEF T!Next
<1>8. CASE \/ Top \/ PollOther \/ (\E s \in Statuses : PollMessage(s))
           \/ Respond \/ Result \/ Leave \/ QueueOther \/ Register \/ Send \/ Wake
           \/ ThrowInterrupted \/ ThrowError \/ SetIsAlive \/ SetFailure
  <2>1. UNCHANGED <<nodeResponse, isFinished, known, view>>
    BY <1>8 DEF Top, PollOther, PollMessage, Respond, Result, Leave, QueueOther,
        Register, Send, Wake, ThrowInterrupted, ThrowError, SetIsAlive,
        SetFailure, ticket, clients
  <2>2. mpc # "push" /\ mpc' # "push"
    BY <1>8 DEF Top, PollOther, PollMessage, Respond, Result, Leave, QueueOther,
        Register, Send, Wake, ThrowInterrupted, ThrowError, SetIsAlive, SetFailure
  <2> QED
    BY <2>1, <2>2 DEF Log
<1>9. CASE Interrupt \/ UNCHANGED vars
  BY <1>9 DEF Interrupt, Log, vars, ticket, manager, clients
<1> QED
  BY <1>1, <1>2, <1>3, <1>4, <1>5, <1>6, <1>7, <1>8, <1>9
    DEF Next, ClientStep, Manager

\* The mutexes, latches and flags implement the abstract ticket of Ticket.tla:
\* what clients learn and read is what an atomic, append-only log would give.
THEOREM ImplementsTicket == Spec => TicketImplemented
<1>1. Init => T!Init
  BY DEF Init, T!Init, Log
<1>2. IInv /\ [Next]_vars => [T!Next]_(T!vars)
  BY RefineStep
<1> QED
  BY <1>1, <1>2, InductiveInvariant, PTL DEF Spec, TicketImplemented, T!Spec

===============================================================================
