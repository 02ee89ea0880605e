--------------------------- MODULE BodyPassProofs ---------------------------
(***************************************************************************)
(* Proofs about BodyPass, for every number of workers, messages, attempts, *)
(* retries and faults: the type invariant, who holds a claim, what is      *)
(* parked as too large, and that no message the metadata pass adds is      *)
(* missed; that the pass implements WorkQueue and stays within RowFeed.    *)
(* Claims are reaped by age alone, also under the pass that made them.     *)
(***************************************************************************)
EXTENDS BodyPass, FiniteSetTheorems, TLAPS

USE ConstantsAssumption

-----------------------------------------------------------------------------
(* The inductive invariant *)

\* What a worker has before it depends on where it is; nobody works between
\* passes; every claim a worker comes to was made by the running pass.
WorkerInv ==
    \A w \in Workers :
        /\ ~running => worker[w] = "off"
        /\ worker[w] \in {"off", "open", "idle"} => batch[w] = {}
        /\ left[w] \subseteq batch[w]
        /\ batch[w] \subseteq mine
        /\ hand[w] # NoClaim => /\ hand[w] \in batch[w]
                                /\ worker[w] \in {"fetch", "failed", "tooLarge"}

\* A batch with a message that goes alone holds nothing else, and one that was
\* too large holds a message that is.
BatchInv ==
    \A w \in Workers :
        /\ \A m \in batch[w] \cap Solo : batch[w] = {m}
        /\ worker[w] = "tooLarge" => batch[w] \cap Large # {}

\* What the running pass has claimed, and who still holds it; nothing is known
\* of a message that was reaped under it.
HoldInv ==
    /\ \A w \in Workers : hand[w] \notin {NoClaim} \cup reaped =>
          /\ hand[w] \notin claims
          /\ bodyState[hand[w]] \in {"fetching", "gone"}
          /\ \A v \in Workers : hand[v] = hand[w] => v = w
    /\ \A m \in (claims \cap AtWork) \ reaped :
          bodyState[m] \in {"fetching", "gone"}

\* What the producer knows about the metadata pass, and what it has claimed of
\* what that pass found.
SweepInv ==
    /\ queue \subseteq mine
    /\ ~running => queue = {}
    /\ \A m \in mine : bodyState[m] # "absent"
    /\ \A m \in UIDs : bodyState[m] = "absent" => attempts[m] = 0
    /\ outcome # "none" => ~running
    /\ finalSweep => metadataDone
    /\ \A m \in found : \/ m \in mine
                        \/ bodyState[m] = "gone"
                        \/ bodyState[m] = "pending" /\ attempts[m] < MaxAttempts
    /\ producer = "done" /\ ~producerErr =>
          metadataDone /\ found \subseteq mine \cup In("gone")
    /\ NothingMissed

-----------------------------------------------------------------------------
(* Types *)

\* Failures are counted up to their bound.
LEMMA FaultType ==
    ASSUME faults \in 0..MaxFaults, Fault \/ CallFails
    PROVE  faults' \in 0..MaxFaults
  BY DEF CallFails, Fault

\* A worker that leaves its batch.
LEMMA LeaveType ==
    ASSUME NEW w \in Workers, NEW phase \in WorkerPhases,
           worker \in [Workers -> WorkerPhases],
           batch \in [Workers -> SUBSET UIDs],
           left \in [Workers -> SUBSET UIDs], tries \in [Workers -> Nat],
           LeaveBatch(w, phase)
    PROVE  /\ worker' \in [Workers -> WorkerPhases]
           /\ batch' \in [Workers -> SUBSET UIDs]
           /\ left' \in [Workers -> SUBSET UIDs]
           /\ tries' \in [Workers -> Nat]
  BY DEF LeaveBatch

\* A worker that gives up.
LEMMA GiveUpType ==
    ASSUME NEW w \in Workers, worker \in [Workers -> WorkerPhases],
           batch \in [Workers -> SUBSET UIDs],
           left \in [Workers -> SUBSET UIDs], tries \in [Workers -> Nat],
           workerErr \in SUBSET Workers, GiveUp(w)
    PROVE  /\ worker' \in [Workers -> WorkerPhases]
           /\ batch' \in [Workers -> SUBSET UIDs]
           /\ left' \in [Workers -> SUBSET UIDs]
           /\ tries' \in [Workers -> Nat]
           /\ workerErr' \in SUBSET Workers
<1>1. LeaveBatch(w, "drain") /\ workerErr' = workerErr \cup {w}
  BY DEF GiveUp
<1>2. "drain" \in WorkerPhases
  BY DEF WorkerPhases
<1> QED
  BY <1>1, <1>2, LeaveType

\* A worker that looks a claim up.
LEMMA TakeType ==
    ASSUME NEW w \in Workers, NEW m \in UIDs, claims \in SUBSET UIDs,
           left \in [Workers -> SUBSET UIDs],
           hand \in [Workers -> UIDs \cup {NoClaim}], TakeClaim(w, m)
    PROVE  /\ claims' \in SUBSET UIDs
           /\ left' \in [Workers -> SUBSET UIDs]
           /\ hand' \in [Workers -> UIDs \cup {NoClaim}]
  BY DEF TakeClaim

\* A row whose attempt failed.
LEMMA MarkType ==
    ASSUME NEW m \in UIDs, bodyState \in [UIDs -> BodyStates],
           attempts \in [UIDs -> Nat], MarkBodyFailed(m)
    PROVE  bodyState' \in [UIDs -> BodyStates] /\ attempts' \in [UIDs -> Nat]
<1>1. CASE bodyState[m] = "gone"
  BY <1>1 DEF MarkBodyFailed, rows
<1>2. CASE bodyState[m] # "gone"
  BY <1>2 DEF MarkBodyFailed, BodyStates
<1> QED
  BY <1>1, <1>2

\* The type invariant is inductive by itself.
LEMMA TypeStep == TypeOK /\ [Next]_vars => TypeOK'
<1> SUFFICES ASSUME TypeOK, [Next]_vars PROVE TypeOK'
  OBVIOUS
<1> USE DEF TypeOK, BodyStates, ProducerPhases, WorkerPhases, Outcomes, rows,
            production, work, metadata, reaping
<1>1. CASE StartPass
  BY <1>1 DEF StartPass
<1>2. ASSUME NEW m \in UIDs, Discover(m)
      PROVE  TypeOK'
  BY <1>2 DEF Discover
<1>3. ASSUME NEW m \in UIDs, DeleteRow(m)
      PROVE  TypeOK'
  BY <1>3 DEF DeleteRow
<1>4. CASE CloseMetadataDone
  BY <1>4 DEF CloseMetadataDone
<1>5. CASE ClaimPendingBodies
  <2> DEFINE claimed == Newest(Claimable, ClaimLimit)
  <2>1. claimed \subseteq UIDs
    BY DEF Newest, Claimable, In
  <2>2. /\ bodyState' = [m \in UIDs |-> IF m \in claimed THEN "fetching"
                                                        ELSE bodyState[m]]
        /\ claims' = claims \cup claimed
        /\ queue' = claimed
        /\ mine' = mine \cup claimed
        /\ producer' = "send"
        /\ UNCHANGED <<upstream, reaping, attempts, finalSweep, producerErr,
                       metadata, cancelled, work, outcome, faults>>
    BY <1>5 DEF ClaimPendingBodies
  <2> HIDE DEF claimed
  <2> QED
    BY <2>1, <2>2
<1>6. CASE SweepFindsNothing
  BY <1>6 DEF SweepFindsNothing
<1>7. CASE WaitForMetadata
  BY <1>7 DEF WaitForMetadata
<1>8. ASSUME NEW w \in Workers, SendBatch(w)
      PROVE  TypeOK'
  <2>1. PICK b \in FirstBatches(queue) :
          /\ queue' = queue \ b
          /\ producer' = IF queue \ b = {} THEN "claim" ELSE "send"
          /\ \/ /\ worker[w] = "idle"
                /\ worker' = [worker EXCEPT ![w] = "attempt"]
                /\ batch' = [batch EXCEPT ![w] = b]
             \/ worker[w] = "drain" /\ UNCHANGED <<worker, batch>>
    BY <1>8 DEF SendBatch
  <2>2. b \in SUBSET UIDs
    BY DEF FirstBatches
  <2>3. UNCHANGED <<upstream, reaping, rows, claims, finalSweep, producerErr,
                    mine, metadata, cancelled, left, hand, tries, workerErr,
                    outcome, faults>>
    BY <1>8 DEF SendBatch
  <2> QED
    BY <2>1, <2>2, <2>3
<1>9. CASE ProducerFails
  BY <1>9, FaultType DEF ProducerFails
<1>10. ASSUME NEW w \in Workers, OpenMailbox(w)
      PROVE  TypeOK'
  BY <1>10 DEF OpenMailbox
<1>11. ASSUME NEW w \in Workers, OpenFails(w)
      PROVE  TypeOK'
  BY <1>11, FaultType DEF OpenFails
<1>12. ASSUME NEW w \in Workers, Attempt(w)
      PROVE  TypeOK'
  BY <1>12 DEF Attempt
<1>13. ASSUME NEW w \in Workers, AttemptFails(w)
      PROVE  TypeOK'
  BY <1>13, FaultType, GiveUpType DEF AttemptFails
<1>14. ASSUME NEW w \in Workers, NEW m \in UIDs, ReceiveBody(w, m)
      PROVE  TypeOK'
  BY <1>14, TakeType DEF ReceiveBody
<1>15. ASSUME NEW w \in Workers, NEW m \in UIDs, ReceiveTooLarge(w, m)
      PROVE  TypeOK'
  BY <1>15 DEF ReceiveTooLarge
<1>16. ASSUME NEW w \in Workers, NEW m \in UIDs, ReleaseNext(w, m)
      PROVE  TypeOK'
  BY <1>16, TakeType DEF ReleaseNext
<1>17. ASSUME NEW w \in Workers, AttachBody(w)
      PROVE  TypeOK'
  BY <1>17 DEF AttachBody
<1>18. ASSUME NEW w \in Workers, AttachFails(w)
      PROVE  TypeOK'
  <2>1. bodyState' \in [UIDs -> BodyStates]
    BY <1>18 DEF AttachFails
  <2>2. faults' \in 0..MaxFaults
    BY <1>18, FaultType DEF AttachFails
  <2>3. worker' \in [Workers -> WorkerPhases] /\ left' \in [Workers -> SUBSET UIDs]
    BY <1>18 DEF AttachFails
  <2>4. hand' \in [Workers -> UIDs \cup {NoClaim}]
    BY <1>18 DEF AttachFails
  <2> QED
    BY <1>18, <2>1, <2>2, <2>3, <2>4 DEF AttachFails
<1>19. ASSUME NEW w \in Workers, BodyNotStored(w)
      PROVE  TypeOK'
  <2>1. hand[w] \in UIDs
    BY <1>19 DEF BodyNotStored
  <2> QED
    BY <1>19, <2>1, FaultType, MarkType DEF BodyNotStored
<1>20. ASSUME NEW w \in Workers, FetchEnds(w)
      PROVE  TypeOK'
  BY <1>20, LeaveType DEF FetchEnds
<1>21. ASSUME NEW w \in Workers, FetchFails(w)
      PROVE  TypeOK'
  BY <1>21, FaultType DEF FetchFails
<1>22. ASSUME NEW w \in Workers, SettleClaim(w)
      PROVE  TypeOK'
  <2>1. hand[w] \in UIDs
    BY <1>22 DEF SettleClaim
  <2>2. bodyState' \in [UIDs -> BodyStates] /\ attempts' \in [UIDs -> Nat]
    BY <1>22, <2>1, MarkType DEF SettleClaim
  <2> QED
    BY <1>22, <2>2 DEF SettleClaim
<1>23. ASSUME NEW w \in Workers, SettleFails(w)
      PROVE  TypeOK'
  BY <1>23, FaultType, GiveUpType DEF SettleFails
<1>24. ASSUME NEW w \in Workers, ReleaseEnds(w)
      PROVE  TypeOK'
  BY <1>24, LeaveType, GiveUpType DEF ReleaseEnds
<1>25. ASSUME NEW w \in Workers, ChannelClosed(w)
      PROVE  TypeOK'
  BY <1>25 DEF ChannelClosed
<1>26. CASE EndPass
  BY <1>26 DEF EndPass, ForgetPass
<1>27. CASE Deadline
  BY <1>27 DEF Deadline
<1>28. CASE Cancel
  BY <1>28, FaultType DEF Cancel
<1>29. CASE Crash
  <2>1. ForgetPass /\ claims' = {} /\ mine' = {} /\ found' = {} /\ outcome' = "none"
        /\ UNCHANGED <<upstream, rows, reaps>>
    BY <1>29 DEF Crash
  <2>2. faults' \in 0..MaxFaults
    BY <1>29, FaultType DEF Crash
  <2> QED
    BY <2>1, <2>2 DEF ForgetPass
<1>30. CASE ReapStaleClaims
  BY <1>30 DEF ReapStaleClaims, Reapable, In
<1>31. ASSUME NEW m \in Vanishing, Vanish(m)
      PROVE  TypeOK'
  BY <1>31 DEF Vanish
<1>32. CASE UNCHANGED vars
  BY <1>32 DEF vars
<1>33. QED
  BY <1>1, <1>2, <1>3, <1>4, <1>5, <1>6, <1>7, <1>8, <1>9, <1>10, <1>11,
     <1>12, <1>13, <1>14, <1>15, <1>16, <1>17, <1>18, <1>19, <1>20, <1>21,
     <1>22, <1>23, <1>24, <1>25, <1>26, <1>27, <1>28, <1>29, <1>30, <1>31,
     <1>32 DEF Next, MetadataStep, ProducerStep, WorkerStep

\* The initial states have the right types.
LEMMA TypeInit == Init => TypeOK
<1> SUFFICES ASSUME Init PROVE TypeOK
  OBVIOUS
<1>1. bodyState \in [UIDs -> BodyStates]
  BY DEF Init, BodyStates
<1>2. attempts \in [UIDs -> Nat] /\ faults \in 0..MaxFaults
  BY DEF Init
<1>3. /\ worker \in [Workers -> WorkerPhases]
      /\ batch \in [Workers -> SUBSET UIDs]
      /\ left \in [Workers -> SUBSET UIDs]
      /\ hand \in [Workers -> UIDs \cup {NoClaim}]
      /\ tries \in [Workers -> Nat]
  BY DEF Init, WorkerPhases
<1>4. reaped \in SUBSET UIDs /\ reaps \in 0..MaxReaps
  BY DEF Init
<1> QED
  BY <1>1, <1>2, <1>3, <1>4 DEF Init, TypeOK, ProducerPhases, Outcomes

\* Every variable keeps its type: the numbers are in range, phases and states
\* are those the code has.
THEOREM TypeCorrect == Spec => []TypeOK
  BY TypeInit, TypeStep, PTL DEF Spec

-----------------------------------------------------------------------------
(* Workers and their batches *)

\* Workers only ever come to claims of the running pass.
LEMMA WorkerStepInv ==
    TypeOK /\ WorkerInv /\ SweepInv /\ [Next]_vars => WorkerInv'
<1> SUFFICES ASSUME TypeOK, WorkerInv, SweepInv, [Next]_vars PROVE WorkerInv'
  OBVIOUS
<1>T. /\ batch \in [Workers -> SUBSET UIDs]
      /\ left \in [Workers -> SUBSET UIDs]
      /\ worker \in [Workers -> WorkerPhases]
      /\ hand \in [Workers -> UIDs \cup {NoClaim}]
      /\ queue \subseteq mine
      /\ NoClaim \notin UIDs
  BY DEF TypeOK, SweepInv, UIDs, NoClaim
<1> USE <1>T DEF WorkerInv, running, rows, production, work, metadata, reaping
<1>1. CASE StartPass
  BY <1>1 DEF StartPass
<1>2. ASSUME NEW m \in UIDs, Discover(m)
      PROVE  WorkerInv'
  BY <1>2 DEF Discover
<1>3. ASSUME NEW m \in UIDs, DeleteRow(m)
      PROVE  WorkerInv'
  BY <1>3 DEF DeleteRow
<1>4. CASE CloseMetadataDone
  BY <1>4 DEF CloseMetadataDone
<1>5. CASE ClaimPendingBodies
  <2> DEFINE claimed == Newest(Claimable, ClaimLimit)
  <2>1. claimed \subseteq Claimable
    BY DEF Newest
  <2>2. /\ bodyState' = [m \in UIDs |-> IF m \in claimed THEN "fetching"
                                                        ELSE bodyState[m]]
        /\ claims' = claims \cup claimed
        /\ queue' = claimed
        /\ mine' = mine \cup claimed
        /\ producer' = "send"
        /\ UNCHANGED <<upstream, reaping, attempts, finalSweep, producerErr,
                       metadata, cancelled, work, outcome, faults>>
    BY <1>5 DEF ClaimPendingBodies
  <2> HIDE DEF claimed
  <2> QED
    BY <2>1, <2>2
<1>6. CASE SweepFindsNothing
  BY <1>6 DEF SweepFindsNothing
<1>7. CASE WaitForMetadata
  BY <1>7 DEF WaitForMetadata
<1>8. ASSUME NEW w \in Workers, SendBatch(w)
      PROVE  WorkerInv'
  <2>1. PICK b \in FirstBatches(queue) :
          /\ queue' = queue \ b
          /\ producer' = IF queue \ b = {} THEN "claim" ELSE "send"
          /\ \/ /\ worker[w] = "idle"
                /\ worker' = [worker EXCEPT ![w] = "attempt"]
                /\ batch' = [batch EXCEPT ![w] = b]
             \/ worker[w] = "drain" /\ UNCHANGED <<worker, batch>>
    BY <1>8 DEF SendBatch
  <2>2. b \subseteq mine
    BY DEF FirstBatches
  <2>3. UNCHANGED <<upstream, reaping, rows, claims, finalSweep, producerErr,
                    mine, metadata, cancelled, left, hand, tries, workerErr,
                    outcome, faults>>
    BY <1>8 DEF SendBatch
  <2> QED
    BY <2>1, <2>2, <2>3
<1>9. CASE ProducerFails
  BY <1>9 DEF ProducerFails, CallFails, Fault
<1>10. ASSUME NEW w \in Workers, OpenMailbox(w)
      PROVE  WorkerInv'
  BY <1>10 DEF OpenMailbox
<1>11. ASSUME NEW w \in Workers, OpenFails(w)
      PROVE  WorkerInv'
  BY <1>11 DEF OpenFails, CallFails, Fault
<1>12. ASSUME NEW w \in Workers, Attempt(w)
      PROVE  WorkerInv'
  BY <1>12 DEF Attempt
<1>13. ASSUME NEW w \in Workers, AttemptFails(w)
      PROVE  WorkerInv'
  BY <1>13 DEF AttemptFails, CallFails, Fault, GiveUp, LeaveBatch
<1>14. ASSUME NEW w \in Workers, NEW m \in UIDs, ReceiveBody(w, m)
      PROVE  WorkerInv'
  BY <1>14 DEF ReceiveBody, TakeClaim
<1>15. ASSUME NEW w \in Workers, NEW m \in UIDs, ReceiveTooLarge(w, m)
      PROVE  WorkerInv'
  BY <1>15 DEF ReceiveTooLarge
<1>16. ASSUME NEW w \in Workers, NEW m \in UIDs, ReleaseNext(w, m)
      PROVE  WorkerInv'
  BY <1>16 DEF ReleaseNext, TakeClaim, Newest
<1>17. ASSUME NEW w \in Workers, AttachBody(w)
      PROVE  WorkerInv'
  BY <1>17 DEF AttachBody
<1>18. ASSUME NEW w \in Workers, AttachFails(w)
      PROVE  WorkerInv'
  BY <1>18 DEF AttachFails, CallFails, Fault
<1>19. ASSUME NEW w \in Workers, BodyNotStored(w)
      PROVE  WorkerInv'
  BY <1>19 DEF BodyNotStored, Fault, MarkBodyFailed
<1>20. ASSUME NEW w \in Workers, FetchEnds(w)
      PROVE  WorkerInv'
  BY <1>20 DEF FetchEnds, LeaveBatch
<1>21. ASSUME NEW w \in Workers, FetchFails(w)
      PROVE  WorkerInv'
  BY <1>21 DEF FetchFails, CallFails, Fault
<1>22. ASSUME NEW w \in Workers, SettleClaim(w)
      PROVE  WorkerInv'
  BY <1>22 DEF SettleClaim, MarkBodyFailed
<1>23. ASSUME NEW w \in Workers, SettleFails(w)
      PROVE  WorkerInv'
  BY <1>23 DEF SettleFails, CallFails, Fault, GiveUp, LeaveBatch
<1>24. ASSUME NEW w \in Workers, ReleaseEnds(w)
      PROVE  WorkerInv'
  BY <1>24 DEF ReleaseEnds, GiveUp, LeaveBatch
<1>25. ASSUME NEW w \in Workers, ChannelClosed(w)
      PROVE  WorkerInv'
  BY <1>25 DEF ChannelClosed
<1>26. CASE EndPass
  BY <1>26 DEF EndPass, ForgetPass
<1>27. CASE Deadline
  BY <1>27 DEF Deadline
<1>28. CASE Cancel
  BY <1>28 DEF Cancel, Fault
<1>29. CASE Crash
  BY <1>29 DEF Crash, ForgetPass, Fault
<1>30. CASE ReapStaleClaims
  BY <1>30 DEF ReapStaleClaims, Reapable, In
<1>31. ASSUME NEW m \in Vanishing, Vanish(m)
      PROVE  WorkerInv'
  BY <1>31 DEF Vanish
<1>32. CASE UNCHANGED vars
  BY <1>32 DEF vars
<1>33. QED
  BY <1>1, <1>2, <1>3, <1>4, <1>5, <1>6, <1>7, <1>8, <1>9, <1>10, <1>11,
     <1>12, <1>13, <1>14, <1>15, <1>16, <1>17, <1>18, <1>19, <1>20, <1>21,
     <1>22, <1>23, <1>24, <1>25, <1>26, <1>27, <1>28, <1>29, <1>30, <1>31,
     <1>32 DEF Next, MetadataStep, ProducerStep, WorkerStep

\* A message that is too large is alone in its batch.
LEMMA BatchStepInv ==
    TypeOK /\ WorkerInv /\ BatchInv /\ [Next]_vars => BatchInv'
<1> SUFFICES ASSUME TypeOK, WorkerInv, BatchInv, [Next]_vars PROVE BatchInv'
  OBVIOUS
<1>T. /\ batch \in [Workers -> SUBSET UIDs]
      /\ worker \in [Workers -> WorkerPhases]
      /\ \A w \in Workers : left[w] \subseteq batch[w]
  BY DEF TypeOK, WorkerInv
<1> USE <1>T DEF BatchInv, rows, production, work, metadata, reaping
<1>1. CASE StartPass
  BY <1>1 DEF StartPass
<1>2. ASSUME NEW m \in UIDs, Discover(m)
      PROVE  BatchInv'
  BY <1>2 DEF Discover
<1>3. ASSUME NEW m \in UIDs, DeleteRow(m)
      PROVE  BatchInv'
  BY <1>3 DEF DeleteRow
<1>4. CASE CloseMetadataDone
  BY <1>4 DEF CloseMetadataDone
<1>5. CASE ClaimPendingBodies
  <2> DEFINE claimed == Newest(Claimable, ClaimLimit)
  <2>1. claimed \subseteq Claimable
    BY DEF Newest
  <2>2. /\ bodyState' = [m \in UIDs |-> IF m \in claimed THEN "fetching"
                                                        ELSE bodyState[m]]
        /\ claims' = claims \cup claimed
        /\ queue' = claimed
        /\ mine' = mine \cup claimed
        /\ producer' = "send"
        /\ UNCHANGED <<upstream, reaping, attempts, finalSweep, producerErr,
                       metadata, cancelled, work, outcome, faults>>
    BY <1>5 DEF ClaimPendingBodies
  <2> HIDE DEF claimed
  <2> QED
    BY <2>1, <2>2
<1>6. CASE SweepFindsNothing
  BY <1>6 DEF SweepFindsNothing
<1>7. CASE WaitForMetadata
  BY <1>7 DEF WaitForMetadata
<1>8. ASSUME NEW w \in Workers, SendBatch(w)
      PROVE  BatchInv'
  BY <1>8 DEF SendBatch, FirstBatches
<1>9. CASE ProducerFails
  BY <1>9 DEF ProducerFails, CallFails, Fault
<1>10. ASSUME NEW w \in Workers, OpenMailbox(w)
      PROVE  BatchInv'
  BY <1>10 DEF OpenMailbox
<1>11. ASSUME NEW w \in Workers, OpenFails(w)
      PROVE  BatchInv'
  BY <1>11 DEF OpenFails, CallFails, Fault
<1>12. ASSUME NEW w \in Workers, Attempt(w)
      PROVE  BatchInv'
  BY <1>12 DEF Attempt
<1>13. ASSUME NEW w \in Workers, AttemptFails(w)
      PROVE  BatchInv'
  BY <1>13 DEF AttemptFails, CallFails, Fault, GiveUp, LeaveBatch
<1>14. ASSUME NEW w \in Workers, NEW m \in UIDs, ReceiveBody(w, m)
      PROVE  BatchInv'
  BY <1>14 DEF ReceiveBody, TakeClaim
<1>15. ASSUME NEW w \in Workers, NEW m \in UIDs, ReceiveTooLarge(w, m)
      PROVE  BatchInv'
  BY <1>15 DEF ReceiveTooLarge
<1>16. ASSUME NEW w \in Workers, NEW m \in UIDs, ReleaseNext(w, m)
      PROVE  BatchInv'
  BY <1>16 DEF ReleaseNext, TakeClaim, Newest
<1>17. ASSUME NEW w \in Workers, AttachBody(w)
      PROVE  BatchInv'
  BY <1>17 DEF AttachBody
<1>18. ASSUME NEW w \in Workers, AttachFails(w)
      PROVE  BatchInv'
  BY <1>18 DEF AttachFails, CallFails, Fault
<1>19. ASSUME NEW w \in Workers, BodyNotStored(w)
      PROVE  BatchInv'
  BY <1>19 DEF BodyNotStored, Fault, MarkBodyFailed
<1>20. ASSUME NEW w \in Workers, FetchEnds(w)
      PROVE  BatchInv'
  BY <1>20 DEF FetchEnds, LeaveBatch
<1>21. ASSUME NEW w \in Workers, FetchFails(w)
      PROVE  BatchInv'
  BY <1>21 DEF FetchFails, CallFails, Fault
<1>22. ASSUME NEW w \in Workers, SettleClaim(w)
      PROVE  BatchInv'
  BY <1>22 DEF SettleClaim, MarkBodyFailed
<1>23. ASSUME NEW w \in Workers, SettleFails(w)
      PROVE  BatchInv'
  BY <1>23 DEF SettleFails, CallFails, Fault, GiveUp, LeaveBatch
<1>24. ASSUME NEW w \in Workers, ReleaseEnds(w)
      PROVE  BatchInv'
  BY <1>24 DEF ReleaseEnds, GiveUp, LeaveBatch
<1>25. ASSUME NEW w \in Workers, ChannelClosed(w)
      PROVE  BatchInv'
  BY <1>25 DEF ChannelClosed
<1>26. CASE EndPass
  BY <1>26 DEF EndPass, ForgetPass
<1>27. CASE Deadline
  BY <1>27 DEF Deadline
<1>28. CASE Cancel
  BY <1>28 DEF Cancel, Fault
<1>29. CASE Crash
  BY <1>29 DEF Crash, ForgetPass, Fault
<1>30. CASE ReapStaleClaims
  BY <1>30 DEF ReapStaleClaims, Reapable, In
<1>31. ASSUME NEW m \in Vanishing, Vanish(m)
      PROVE  BatchInv'
  BY <1>31 DEF Vanish
<1>32. CASE UNCHANGED vars
  BY <1>32 DEF vars
<1>33. QED
  BY <1>1, <1>2, <1>3, <1>4, <1>5, <1>6, <1>7, <1>8, <1>9, <1>10, <1>11,
     <1>12, <1>13, <1>14, <1>15, <1>16, <1>17, <1>18, <1>19, <1>20, <1>21,
     <1>22, <1>23, <1>24, <1>25, <1>26, <1>27, <1>28, <1>29, <1>30, <1>31,
     <1>32 DEF Next, MetadataStep, ProducerStep, WorkerStep

\* The producer misses nothing the metadata pass finds.
LEMMA SweepStepInv ==
    TypeOK /\ WorkerInv /\ SweepInv /\ [Next]_vars => SweepInv'
<1> SUFFICES ASSUME TypeOK, WorkerInv, SweepInv, [Next]_vars PROVE SweepInv'
  OBVIOUS
<1>T. /\ bodyState \in [UIDs -> BodyStates]
      /\ attempts \in [UIDs -> Nat]
      /\ found \subseteq UIDs /\ mine \subseteq UIDs
      /\ producerErr \in BOOLEAN /\ metadataDone \in BOOLEAN
      /\ finalSweep \in BOOLEAN
      /\ \A w \in Workers : hand[w] # NoClaim => hand[w] \in mine
  BY DEF TypeOK, WorkerInv
<1> USE <1>T DEF SweepInv, NothingMissed, In, running, rows, production, work,
                metadata
<1>1. CASE StartPass
  BY <1>1 DEF StartPass
<1>2. ASSUME NEW m \in UIDs, Discover(m)
      PROVE  SweepInv'
  BY <1>2 DEF Discover
<1>3. ASSUME NEW m \in UIDs, DeleteRow(m)
      PROVE  SweepInv'
  BY <1>3 DEF DeleteRow
<1>4. CASE CloseMetadataDone
  BY <1>4 DEF CloseMetadataDone
<1>5. CASE ClaimPendingBodies
  <2> DEFINE claimed == Newest(Claimable, ClaimLimit)
  <2>1. claimed \subseteq Claimable
    BY DEF Newest
  <2>2. /\ bodyState' = [m \in UIDs |-> IF m \in claimed THEN "fetching"
                                                        ELSE bodyState[m]]
        /\ claims' = claims \cup claimed
        /\ queue' = claimed
        /\ mine' = mine \cup claimed
        /\ producer' = "send"
        /\ UNCHANGED <<upstream, reaping, attempts, finalSweep, producerErr,
                       metadata, cancelled, work, outcome, faults>>
    BY <1>5 DEF ClaimPendingBodies
  <2> HIDE DEF claimed
  <2>3. \A m \in claimed : m \in UIDs /\ bodyState[m] = "pending"
    BY <2>1 DEF Claimable
  <2>4. \A m \in UIDs : bodyState'[m] = IF m \in claimed THEN "fetching"
                                                        ELSE bodyState[m]
    BY <2>2
  <2>5. /\ queue' \subseteq mine'
        /\ \A m \in mine' : bodyState'[m] # "absent"
        /\ \A m \in UIDs : bodyState'[m] = "absent" => attempts'[m] = 0
    BY <2>2, <2>3, <2>4
  <2>6. \A m \in found' : \/ m \in mine'
                          \/ bodyState'[m] = "gone"
                          \/ bodyState'[m] = "pending" /\ attempts'[m] < MaxAttempts
    BY <2>2, <2>3, <2>4
  <2>7. producer = "claim" /\ outcome = "none"
    BY <1>5 DEF ClaimPendingBodies
  <2> QED
    BY <2>2, <2>5, <2>6, <2>7
<1>6. CASE SweepFindsNothing
  BY <1>6 DEF SweepFindsNothing, Claimable
<1>7. CASE WaitForMetadata
  BY <1>7 DEF WaitForMetadata
<1>8. ASSUME NEW w \in Workers, SendBatch(w)
      PROVE  SweepInv'
  BY <1>8 DEF SendBatch, FirstBatches
<1>9. CASE ProducerFails
  BY <1>9 DEF ProducerFails, CallFails, Fault
<1>10. ASSUME NEW w \in Workers, OpenMailbox(w)
      PROVE  SweepInv'
  BY <1>10 DEF OpenMailbox
<1>11. ASSUME NEW w \in Workers, OpenFails(w)
      PROVE  SweepInv'
  BY <1>11 DEF OpenFails, CallFails, Fault
<1>12. ASSUME NEW w \in Workers, Attempt(w)
      PROVE  SweepInv'
  BY <1>12 DEF Attempt
<1>13. ASSUME NEW w \in Workers, AttemptFails(w)
      PROVE  SweepInv'
  BY <1>13 DEF AttemptFails, CallFails, Fault, GiveUp, LeaveBatch
<1>14. ASSUME NEW w \in Workers, NEW m \in UIDs, ReceiveBody(w, m)
      PROVE  SweepInv'
  BY <1>14 DEF ReceiveBody, TakeClaim
<1>15. ASSUME NEW w \in Workers, NEW m \in UIDs, ReceiveTooLarge(w, m)
      PROVE  SweepInv'
  BY <1>15 DEF ReceiveTooLarge
<1>16. ASSUME NEW w \in Workers, NEW m \in UIDs, ReleaseNext(w, m)
      PROVE  SweepInv'
  BY <1>16 DEF ReleaseNext, TakeClaim, Newest
<1>17. ASSUME NEW w \in Workers, AttachBody(w)
      PROVE  SweepInv'
  BY <1>17 DEF AttachBody
<1>18. ASSUME NEW w \in Workers, AttachFails(w)
      PROVE  SweepInv'
  BY <1>18 DEF AttachFails, CallFails, Fault
<1>19. ASSUME NEW w \in Workers, BodyNotStored(w)
      PROVE  SweepInv'
  BY <1>19 DEF BodyNotStored, Fault, MarkBodyFailed
<1>20. ASSUME NEW w \in Workers, FetchEnds(w)
      PROVE  SweepInv'
  BY <1>20 DEF FetchEnds, LeaveBatch
<1>21. ASSUME NEW w \in Workers, FetchFails(w)
      PROVE  SweepInv'
  BY <1>21 DEF FetchFails, CallFails, Fault
<1>22. ASSUME NEW w \in Workers, SettleClaim(w)
      PROVE  SweepInv'
  BY <1>22 DEF SettleClaim, MarkBodyFailed
<1>23. ASSUME NEW w \in Workers, SettleFails(w)
      PROVE  SweepInv'
  BY <1>23 DEF SettleFails, CallFails, Fault, GiveUp, LeaveBatch
<1>24. ASSUME NEW w \in Workers, ReleaseEnds(w)
      PROVE  SweepInv'
  BY <1>24 DEF ReleaseEnds, GiveUp, LeaveBatch
<1>25. ASSUME NEW w \in Workers, ChannelClosed(w)
      PROVE  SweepInv'
  BY <1>25 DEF ChannelClosed
<1>26. CASE EndPass
  BY <1>26 DEF EndPass, ForgetPass
<1>27. CASE Deadline
  BY <1>27 DEF Deadline
<1>28. CASE Cancel
  BY <1>28 DEF Cancel, Fault
<1>29. CASE Crash
  BY <1>29 DEF Crash, ForgetPass, Fault
<1>30. CASE ReapStaleClaims
  BY <1>30 DEF ReapStaleClaims, Reapable, In
<1>31. ASSUME NEW m \in Vanishing, Vanish(m)
      PROVE  SweepInv'
  BY <1>31 DEF Vanish
<1>32. CASE UNCHANGED vars
  BY <1>32 DEF vars
<1>33. QED
  BY <1>1, <1>2, <1>3, <1>4, <1>5, <1>6, <1>7, <1>8, <1>9, <1>10, <1>11,
     <1>12, <1>13, <1>14, <1>15, <1>16, <1>17, <1>18, <1>19, <1>20, <1>21,
     <1>22, <1>23, <1>24, <1>25, <1>26, <1>27, <1>28, <1>29, <1>30, <1>31,
     <1>32 DEF Next, MetadataStep, ProducerStep, WorkerStep

-----------------------------------------------------------------------------
(* Claims *)

\* Nothing changes for the claims when work is only handed on or dropped.
LEMMA HoldKept ==
    ASSUME HoldInv, UNCHANGED <<bodyState, claims, reaped>>,
           hand' = hand \/ \E w \in Workers : hand' = [hand EXCEPT ![w] = NoClaim],
           AtWork' \subseteq AtWork, hand \in [Workers -> UIDs \cup {NoClaim}]
    PROVE  HoldInv'
<1>1. \A w \in Workers : hand'[w] \in {hand[w], NoClaim}
  OBVIOUS
<1> QED
  BY <1>1 DEF HoldInv

\* Work is dropped.
LEMMA WorkDropped ==
    ASSUME queue' \subseteq queue, \A w \in Workers : batch'[w] \subseteq batch[w]
    PROVE  AtWork' \subseteq AtWork
BY DEF AtWork

\* A claim is in the table or in one worker's hand, and its row is still
\* marked, unless it was reaped under the pass.
LEMMA HoldStepInv ==
    TypeOK /\ WorkerInv /\ SweepInv /\ HoldInv /\ [Next]_vars => HoldInv'
<1> SUFFICES ASSUME TypeOK, WorkerInv, SweepInv, HoldInv, [Next]_vars
             PROVE  HoldInv'
  OBVIOUS
<1>T. /\ bodyState \in [UIDs -> BodyStates]
      /\ claims \subseteq UIDs /\ mine \subseteq UIDs
      /\ hand \in [Workers -> UIDs \cup {NoClaim}]
      /\ batch \in [Workers -> SUBSET UIDs]
      /\ NoClaim \notin UIDs
      /\ \A w \in Workers : hand[w] # NoClaim => hand[w] \in mine
      /\ \A w \in Workers : left[w] \subseteq batch[w] /\ batch[w] \subseteq mine
      /\ \A w \in Workers : ~running => hand[w] = NoClaim
      /\ \A w \in Workers : worker[w] \in {"done", "lost"} => hand[w] = NoClaim
  <2>1. NoClaim \notin UIDs
    BY DEF UIDs, NoClaim
  <2> QED
    BY <2>1 DEF TypeOK, WorkerInv
<1> USE <1>T DEF HoldInv, AtWork, running, rows, production, work, metadata, reaping
<1>1. CASE StartPass
  BY <1>1 DEF StartPass
<1>2. ASSUME NEW m \in UIDs, Discover(m)
      PROVE  HoldInv'
  BY <1>2 DEF Discover
<1>3. ASSUME NEW m \in UIDs, DeleteRow(m)
      PROVE  HoldInv'
  BY <1>3 DEF DeleteRow
<1>4. CASE CloseMetadataDone
  BY <1>4 DEF CloseMetadataDone
<1>5. CASE ClaimPendingBodies
  <2> DEFINE claimed == Newest(Claimable, ClaimLimit)
  <2>1. claimed \subseteq Claimable
    BY DEF Newest
  <2>2. /\ bodyState' = [m \in UIDs |-> IF m \in claimed THEN "fetching"
                                                        ELSE bodyState[m]]
        /\ claims' = claims \cup claimed
        /\ queue' = claimed
        /\ mine' = mine \cup claimed
        /\ producer' = "send"
        /\ UNCHANGED <<upstream, reaping, attempts, finalSweep, producerErr,
                       metadata, cancelled, work, outcome, faults>>
    BY <1>5 DEF ClaimPendingBodies
  <2> HIDE DEF claimed
  <2>3. \A m \in claimed : m \in UIDs /\ bodyState[m] = "pending"
    BY <2>1 DEF Claimable, In
  <2>4. \A m \in UIDs : bodyState'[m] = IF m \in claimed THEN "fetching"
                                                        ELSE bodyState[m]
    BY <2>2
  <2>5. producer = "claim" /\ hand' = hand
    BY <1>5, <2>2 DEF ClaimPendingBodies
  <2>6. \A w \in Workers : hand[w] \notin {NoClaim} \cup reaped =>
           hand[w] \in UIDs /\ hand[w] \notin claimed
    BY <2>3
  <2>7. UNCHANGED <<batch, reaped>>
    BY <2>2
  <2>8. \A m \in (claims' \cap AtWork') \ reaped : bodyState'[m] \in {"fetching", "gone"}
    BY <2>2, <2>3, <2>4, <2>7
  <2>9. \A w \in Workers : hand'[w] \notin {NoClaim} \cup reaped' =>
           /\ hand'[w] \notin claims'
           /\ bodyState'[hand'[w]] \in {"fetching", "gone"}
           /\ \A v \in Workers : hand'[v] = hand'[w] => v = w
    BY <2>2, <2>4, <2>5, <2>6, <2>7
  <2> QED
    BY <2>7, <2>8, <2>9
<1>6. CASE SweepFindsNothing
  BY <1>6 DEF SweepFindsNothing
<1>7. CASE WaitForMetadata
  BY <1>7 DEF WaitForMetadata
<1>8. ASSUME NEW w \in Workers, SendBatch(w)
      PROVE  HoldInv'
  <2>1. AtWork' \subseteq AtWork
    <3>1. PICK b \in FirstBatches(queue) :
            /\ queue' = queue \ b
            /\ batch' = batch \/ batch' = [batch EXCEPT ![w] = b]
      BY <1>8 DEF SendBatch
    <3>2. b \subseteq queue
      BY DEF FirstBatches
    <3>3. \A v \in Workers : batch'[v] \subseteq batch[v] \cup b
      BY <3>1
    <3> QED
      BY <3>1, <3>2, <3>3
  <2>2. UNCHANGED <<bodyState, claims, reaped, hand>>
    BY <1>8 DEF SendBatch
  <2> QED
    BY <2>1, <2>2, HoldKept
<1>9. CASE ProducerFails
  BY <1>9 DEF ProducerFails, CallFails, Fault
<1>10. ASSUME NEW w \in Workers, OpenMailbox(w)
      PROVE  HoldInv'
  BY <1>10 DEF OpenMailbox
<1>11. ASSUME NEW w \in Workers, OpenFails(w)
      PROVE  HoldInv'
  BY <1>11 DEF OpenFails, CallFails, Fault
<1>12. ASSUME NEW w \in Workers, Attempt(w)
      PROVE  HoldInv'
  BY <1>12 DEF Attempt
<1>13. ASSUME NEW w \in Workers, AttemptFails(w)
      PROVE  HoldInv'
  <2>1. queue' = queue /\ \A v \in Workers : batch'[v] \subseteq batch[v]
    BY <1>13 DEF AttemptFails, GiveUp, LeaveBatch
  <2>2. /\ UNCHANGED <<bodyState, claims, reaped>>
        /\ hand' = hand \/ hand' = [hand EXCEPT ![w] = NoClaim]
    BY <1>13 DEF AttemptFails
  <2> QED
    BY <2>1, <2>2, WorkDropped, HoldKept
<1>14. ASSUME NEW w \in Workers, NEW m \in UIDs, ReceiveBody(w, m)
      PROVE  HoldInv'
  <2>1. m \in left[w] /\ TakeClaim(w, m) /\ hand[w] = NoClaim
    BY <1>14 DEF ReceiveBody
  <2>2. UNCHANGED <<bodyState, queue, batch, reaped>>
    BY <1>14 DEF ReceiveBody
  <2>3. /\ claims' = claims \ {m}
        /\ \A v \in Workers \ {w} : hand'[v] = hand[v]
        /\ hand'[w] = IF m \in claims THEN m ELSE NoClaim
    BY <2>1 DEF TakeClaim
  <2>4. m \in claims \ reaped => bodyState[m] \in {"fetching", "gone"}
    BY <2>1
  <2>5. m \in claims \ reaped => \A v \in Workers : hand[v] # m
    OBVIOUS
  <2>6. \A v \in Workers : hand'[v] \notin {NoClaim} \cup reaped =>
           /\ hand'[v] \notin claims'
           /\ bodyState[hand'[v]] \in {"fetching", "gone"}
    BY <2>3, <2>4
  <2>7. \A v, x \in Workers : hand'[v] \notin {NoClaim} \cup reaped
                               /\ hand'[x] = hand'[v] => x = v
    BY <2>3, <2>5
  <2>8. \A x \in (claims' \cap AtWork') \ reaped : bodyState[x] \in {"fetching", "gone"}
    BY <2>2, <2>3
  <2> QED
    BY <2>2, <2>6, <2>7, <2>8
<1>15. ASSUME NEW w \in Workers, NEW m \in UIDs, ReceiveTooLarge(w, m)
      PROVE  HoldInv'
  BY <1>15 DEF ReceiveTooLarge
<1>16. ASSUME NEW w \in Workers, NEW m \in UIDs, ReleaseNext(w, m)
      PROVE  HoldInv'
  <2>1. m \in left[w] /\ TakeClaim(w, m) /\ hand[w] = NoClaim
    BY <1>16 DEF ReleaseNext, Newest
  <2>2. UNCHANGED <<bodyState, queue, batch, reaped>>
    BY <1>16 DEF ReleaseNext, Newest
  <2>3. /\ claims' = claims \ {m}
        /\ \A v \in Workers \ {w} : hand'[v] = hand[v]
        /\ hand'[w] = IF m \in claims THEN m ELSE NoClaim
    BY <2>1 DEF TakeClaim
  <2>4. m \in claims \ reaped => bodyState[m] \in {"fetching", "gone"}
    BY <2>1
  <2>5. m \in claims \ reaped => \A v \in Workers : hand[v] # m
    OBVIOUS
  <2>6. \A v \in Workers : hand'[v] \notin {NoClaim} \cup reaped =>
           /\ hand'[v] \notin claims'
           /\ bodyState[hand'[v]] \in {"fetching", "gone"}
    BY <2>3, <2>4
  <2>7. \A v, x \in Workers : hand'[v] \notin {NoClaim} \cup reaped
                               /\ hand'[x] = hand'[v] => x = v
    BY <2>3, <2>5
  <2>8. \A x \in (claims' \cap AtWork') \ reaped : bodyState[x] \in {"fetching", "gone"}
    BY <2>2, <2>3
  <2> QED
    BY <2>2, <2>6, <2>7, <2>8
<1>17. ASSUME NEW w \in Workers, AttachBody(w)
      PROVE  HoldInv'
  BY <1>17 DEF AttachBody
<1>18. ASSUME NEW w \in Workers, AttachFails(w)
      PROVE  HoldInv'
  BY <1>18 DEF AttachFails, CallFails, Fault
<1>19. ASSUME NEW w \in Workers, BodyNotStored(w)
      PROVE  HoldInv'
  BY <1>19 DEF BodyNotStored, Fault, MarkBodyFailed
<1>20. ASSUME NEW w \in Workers, FetchEnds(w)
      PROVE  HoldInv'
  <2>1. queue' = queue /\ \A v \in Workers : batch'[v] \subseteq batch[v]
    BY <1>20 DEF FetchEnds, LeaveBatch
  <2>2. /\ UNCHANGED <<bodyState, claims, reaped>>
        /\ hand' = hand \/ hand' = [hand EXCEPT ![w] = NoClaim]
    BY <1>20 DEF FetchEnds
  <2> QED
    BY <2>1, <2>2, WorkDropped, HoldKept
<1>21. ASSUME NEW w \in Workers, FetchFails(w)
      PROVE  HoldInv'
  BY <1>21 DEF FetchFails, CallFails, Fault
<1>22. ASSUME NEW w \in Workers, SettleClaim(w)
      PROVE  HoldInv'
  BY <1>22 DEF SettleClaim, MarkBodyFailed
<1>23. ASSUME NEW w \in Workers, SettleFails(w)
      PROVE  HoldInv'
  <2>1. queue' = queue /\ \A v \in Workers : batch'[v] \subseteq batch[v]
    BY <1>23 DEF SettleFails, GiveUp, LeaveBatch
  <2>2. /\ UNCHANGED <<bodyState, claims, reaped>>
        /\ hand' = hand \/ hand' = [hand EXCEPT ![w] = NoClaim]
    BY <1>23 DEF SettleFails
  <2> QED
    BY <2>1, <2>2, WorkDropped, HoldKept
<1>24. ASSUME NEW w \in Workers, ReleaseEnds(w)
      PROVE  HoldInv'
  <2>1. queue' = queue /\ \A v \in Workers : batch'[v] \subseteq batch[v]
    BY <1>24 DEF ReleaseEnds, GiveUp, LeaveBatch
  <2>2. /\ UNCHANGED <<bodyState, claims, reaped>>
        /\ hand' = hand \/ hand' = [hand EXCEPT ![w] = NoClaim]
    BY <1>24 DEF ReleaseEnds
  <2> QED
    BY <2>1, <2>2, WorkDropped, HoldKept
<1>25. ASSUME NEW w \in Workers, ChannelClosed(w)
      PROVE  HoldInv'
  BY <1>25 DEF ChannelClosed
<1>26. CASE EndPass
  BY <1>26 DEF EndPass, ForgetPass
<1>27. CASE Deadline
  BY <1>27 DEF Deadline
<1>28. CASE Cancel
  BY <1>28 DEF Cancel, Fault
<1>29. CASE Crash
  BY <1>29 DEF Crash, ForgetPass, Fault
<1>30. CASE ReapStaleClaims
  <2>1. PICK S \in SUBSET Reapable :
          /\ bodyState' = [m \in UIDs |-> IF m \in S THEN "pending"
                                                     ELSE bodyState[m]]
          /\ reaped' = reaped \cup (S \cap AtWork)
    BY <1>30 DEF ReapStaleClaims
  <2>2. UNCHANGED <<claims, queue, batch, hand>>
    BY <1>30 DEF ReapStaleClaims
  <2>3. \A w \in Workers : hand[w] # NoClaim => hand[w] \in AtWork
    BY DEF WorkerInv
  <2>4. \A m \in AtWork \cap UIDs : m \notin reaped' => bodyState'[m] = bodyState[m]
    BY <2>1
  <2>5. AtWork' = AtWork
    BY <2>2
  <2> HIDE DEF AtWork
  <2> QED
    BY <2>1, <2>2, <2>3, <2>4, <2>5
<1>31. ASSUME NEW m \in Vanishing, Vanish(m)
      PROVE  HoldInv'
  BY <1>31 DEF Vanish
<1>32. CASE UNCHANGED vars
  BY <1>32 DEF vars
<1>33. QED
  BY <1>1, <1>2, <1>3, <1>4, <1>5, <1>6, <1>7, <1>8, <1>9, <1>10, <1>11,
     <1>12, <1>13, <1>14, <1>15, <1>16, <1>17, <1>18, <1>19, <1>20, <1>21,
     <1>22, <1>23, <1>24, <1>25, <1>26, <1>27, <1>28, <1>29, <1>30, <1>31,
     <1>32 DEF Next, MetadataStep, ProducerStep, WorkerStep

-----------------------------------------------------------------------------
(* What becomes of a row *)

\* What ParkedBesideLarge says of a step.
ParkStep ==
    \A m \in UIDs \ Large :
        bodyState[m] # bodyState'[m] /\ bodyState'[m] = "skipped_too_large" =>
            \E w \in Workers :
                m \in batch[w] /\ batch[w] \cap (Large \ Solo) # {}

\* A step parks a message that is too large, or one that shares a batch with it.
LEMMA ParkStepHolds ==
    TypeOK /\ WorkerInv /\ BatchInv /\ [Next]_vars => ParkStep
<1> SUFFICES ASSUME TypeOK, WorkerInv, BatchInv, [Next]_vars PROVE ParkStep
  OBVIOUS
<1>T. /\ bodyState \in [UIDs -> BodyStates]
      /\ hand \in [Workers -> UIDs \cup {NoClaim}]
      /\ \A w \in Workers : worker[w] = "tooLarge" /\ hand[w] # NoClaim =>
            /\ hand[w] \in batch[w]
            /\ hand[w] \in Large \/ batch[w] \cap (Large \ Solo) # {}
  BY DEF TypeOK, WorkerInv, BatchInv
<1> USE <1>T DEF ParkStep, In, rows, production, work, metadata, reaping
<1>1. CASE StartPass
  BY <1>1 DEF StartPass
<1>2. ASSUME NEW m \in UIDs, Discover(m)
      PROVE  ParkStep
  BY <1>2 DEF Discover
<1>3. ASSUME NEW m \in UIDs, DeleteRow(m)
      PROVE  ParkStep
  BY <1>3 DEF DeleteRow
<1>4. CASE CloseMetadataDone
  BY <1>4 DEF CloseMetadataDone
<1>5. CASE ClaimPendingBodies
  <2> DEFINE claimed == Newest(Claimable, ClaimLimit)
  <2>1. claimed \subseteq Claimable
    BY DEF Newest
  <2>2. /\ bodyState' = [m \in UIDs |-> IF m \in claimed THEN "fetching"
                                                        ELSE bodyState[m]]
        /\ claims' = claims \cup claimed
        /\ queue' = claimed
        /\ mine' = mine \cup claimed
        /\ producer' = "send"
        /\ UNCHANGED <<upstream, reaping, attempts, finalSweep, producerErr,
                       metadata, cancelled, work, outcome, faults>>
    BY <1>5 DEF ClaimPendingBodies
  <2> HIDE DEF claimed
  <2> QED
    BY <2>1, <2>2
<1>6. CASE SweepFindsNothing
  BY <1>6 DEF SweepFindsNothing
<1>7. CASE WaitForMetadata
  BY <1>7 DEF WaitForMetadata
<1>8. ASSUME NEW w \in Workers, SendBatch(w)
      PROVE  ParkStep
  BY <1>8 DEF SendBatch, FirstBatches
<1>9. CASE ProducerFails
  BY <1>9 DEF ProducerFails, CallFails, Fault
<1>10. ASSUME NEW w \in Workers, OpenMailbox(w)
      PROVE  ParkStep
  BY <1>10 DEF OpenMailbox
<1>11. ASSUME NEW w \in Workers, OpenFails(w)
      PROVE  ParkStep
  BY <1>11 DEF OpenFails, CallFails, Fault
<1>12. ASSUME NEW w \in Workers, Attempt(w)
      PROVE  ParkStep
  BY <1>12 DEF Attempt
<1>13. ASSUME NEW w \in Workers, AttemptFails(w)
      PROVE  ParkStep
  BY <1>13 DEF AttemptFails, CallFails, Fault, GiveUp, LeaveBatch
<1>14. ASSUME NEW w \in Workers, NEW m \in UIDs, ReceiveBody(w, m)
      PROVE  ParkStep
  BY <1>14 DEF ReceiveBody, TakeClaim
<1>15. ASSUME NEW w \in Workers, NEW m \in UIDs, ReceiveTooLarge(w, m)
      PROVE  ParkStep
  BY <1>15 DEF ReceiveTooLarge
<1>16. ASSUME NEW w \in Workers, NEW m \in UIDs, ReleaseNext(w, m)
      PROVE  ParkStep
  BY <1>16 DEF ReleaseNext, TakeClaim, Newest
<1>17. ASSUME NEW w \in Workers, AttachBody(w)
      PROVE  ParkStep
  BY <1>17 DEF AttachBody
<1>18. ASSUME NEW w \in Workers, AttachFails(w)
      PROVE  ParkStep
  BY <1>18 DEF AttachFails, CallFails, Fault
<1>19. ASSUME NEW w \in Workers, BodyNotStored(w)
      PROVE  ParkStep
  BY <1>19 DEF BodyNotStored, Fault, MarkBodyFailed
<1>20. ASSUME NEW w \in Workers, FetchEnds(w)
      PROVE  ParkStep
  BY <1>20 DEF FetchEnds, LeaveBatch
<1>21. ASSUME NEW w \in Workers, FetchFails(w)
      PROVE  ParkStep
  BY <1>21 DEF FetchFails, CallFails, Fault
<1>22. ASSUME NEW w \in Workers, SettleClaim(w)
      PROVE  ParkStep
  BY <1>22 DEF SettleClaim, MarkBodyFailed
<1>23. ASSUME NEW w \in Workers, SettleFails(w)
      PROVE  ParkStep
  BY <1>23 DEF SettleFails, CallFails, Fault, GiveUp, LeaveBatch
<1>24. ASSUME NEW w \in Workers, ReleaseEnds(w)
      PROVE  ParkStep
  BY <1>24 DEF ReleaseEnds, GiveUp, LeaveBatch
<1>25. ASSUME NEW w \in Workers, ChannelClosed(w)
      PROVE  ParkStep
  BY <1>25 DEF ChannelClosed
<1>26. CASE EndPass
  BY <1>26 DEF EndPass, ForgetPass
<1>27. CASE Deadline
  BY <1>27 DEF Deadline
<1>28. CASE Cancel
  BY <1>28 DEF Cancel, Fault
<1>29. CASE Crash
  BY <1>29 DEF Crash, ForgetPass, Fault
<1>30. CASE ReapStaleClaims
  BY <1>30 DEF ReapStaleClaims, Reapable, In
<1>31. ASSUME NEW m \in Vanishing, Vanish(m)
      PROVE  ParkStep
  BY <1>31 DEF Vanish
<1>32. CASE UNCHANGED vars
  BY <1>32 DEF vars
<1>33. QED
  BY <1>1, <1>2, <1>3, <1>4, <1>5, <1>6, <1>7, <1>8, <1>9, <1>10, <1>11,
     <1>12, <1>13, <1>14, <1>15, <1>16, <1>17, <1>18, <1>19, <1>20, <1>21,
     <1>22, <1>23, <1>24, <1>25, <1>26, <1>27, <1>28, <1>29, <1>30, <1>31,
     <1>32 DEF Next, MetadataStep, ProducerStep, WorkerStep

\* What SettledIsFinal says of a step.
FinalStep ==
    \A m \in UIDs \ reaped :
        bodyState[m] \in {"stored", "failed", "skipped_too_large"} =>
            bodyState'[m] \in {bodyState[m], "gone"}

\* A step takes no row out of its last state.
LEMMA FinalStepHolds == TypeOK /\ HoldInv /\ [Next]_vars => FinalStep
<1> SUFFICES ASSUME TypeOK, HoldInv, [Next]_vars PROVE FinalStep
  OBVIOUS
<1>T. /\ bodyState \in [UIDs -> BodyStates]
      /\ hand \in [Workers -> UIDs \cup {NoClaim}]
      /\ \A w \in Workers : hand[w] \notin {NoClaim} \cup reaped =>
            bodyState[hand[w]] \in {"fetching", "gone"}
  BY DEF TypeOK, HoldInv
<1> USE <1>T DEF FinalStep, rows, production, work, metadata, reaping
<1>1. CASE StartPass
  BY <1>1 DEF StartPass
<1>2. ASSUME NEW m \in UIDs, Discover(m)
      PROVE  FinalStep
  BY <1>2 DEF Discover
<1>3. ASSUME NEW m \in UIDs, DeleteRow(m)
      PROVE  FinalStep
  BY <1>3 DEF DeleteRow
<1>4. CASE CloseMetadataDone
  BY <1>4 DEF CloseMetadataDone
<1>5. CASE ClaimPendingBodies
  <2> DEFINE claimed == Newest(Claimable, ClaimLimit)
  <2>1. claimed \subseteq Claimable
    BY DEF Newest
  <2>2. /\ bodyState' = [m \in UIDs |-> IF m \in claimed THEN "fetching"
                                                        ELSE bodyState[m]]
        /\ claims' = claims \cup claimed
        /\ queue' = claimed
        /\ mine' = mine \cup claimed
        /\ producer' = "send"
        /\ UNCHANGED <<upstream, reaping, attempts, finalSweep, producerErr,
                       metadata, cancelled, work, outcome, faults>>
    BY <1>5 DEF ClaimPendingBodies
  <2> HIDE DEF claimed
  <2> QED
    BY <2>1, <2>2 DEF Claimable, In
<1>6. CASE SweepFindsNothing
  BY <1>6 DEF SweepFindsNothing
<1>7. CASE WaitForMetadata
  BY <1>7 DEF WaitForMetadata
<1>8. ASSUME NEW w \in Workers, SendBatch(w)
      PROVE  FinalStep
  BY <1>8 DEF SendBatch, FirstBatches
<1>9. CASE ProducerFails
  BY <1>9 DEF ProducerFails, CallFails, Fault
<1>10. ASSUME NEW w \in Workers, OpenMailbox(w)
      PROVE  FinalStep
  BY <1>10 DEF OpenMailbox
<1>11. ASSUME NEW w \in Workers, OpenFails(w)
      PROVE  FinalStep
  BY <1>11 DEF OpenFails, CallFails, Fault
<1>12. ASSUME NEW w \in Workers, Attempt(w)
      PROVE  FinalStep
  BY <1>12 DEF Attempt
<1>13. ASSUME NEW w \in Workers, AttemptFails(w)
      PROVE  FinalStep
  BY <1>13 DEF AttemptFails, CallFails, Fault, GiveUp, LeaveBatch
<1>14. ASSUME NEW w \in Workers, NEW m \in UIDs, ReceiveBody(w, m)
      PROVE  FinalStep
  BY <1>14 DEF ReceiveBody, TakeClaim
<1>15. ASSUME NEW w \in Workers, NEW m \in UIDs, ReceiveTooLarge(w, m)
      PROVE  FinalStep
  BY <1>15 DEF ReceiveTooLarge
<1>16. ASSUME NEW w \in Workers, NEW m \in UIDs, ReleaseNext(w, m)
      PROVE  FinalStep
  BY <1>16 DEF ReleaseNext, TakeClaim, Newest
<1>17. ASSUME NEW w \in Workers, AttachBody(w)
      PROVE  FinalStep
  BY <1>17 DEF AttachBody
<1>18. ASSUME NEW w \in Workers, AttachFails(w)
      PROVE  FinalStep
  BY <1>18 DEF AttachFails, CallFails, Fault
<1>19. ASSUME NEW w \in Workers, BodyNotStored(w)
      PROVE  FinalStep
  BY <1>19 DEF BodyNotStored, Fault, MarkBodyFailed
<1>20. ASSUME NEW w \in Workers, FetchEnds(w)
      PROVE  FinalStep
  BY <1>20 DEF FetchEnds, LeaveBatch
<1>21. ASSUME NEW w \in Workers, FetchFails(w)
      PROVE  FinalStep
  BY <1>21 DEF FetchFails, CallFails, Fault
<1>22. ASSUME NEW w \in Workers, SettleClaim(w)
      PROVE  FinalStep
  BY <1>22 DEF SettleClaim, MarkBodyFailed
<1>23. ASSUME NEW w \in Workers, SettleFails(w)
      PROVE  FinalStep
  BY <1>23 DEF SettleFails, CallFails, Fault, GiveUp, LeaveBatch
<1>24. ASSUME NEW w \in Workers, ReleaseEnds(w)
      PROVE  FinalStep
  BY <1>24 DEF ReleaseEnds, GiveUp, LeaveBatch
<1>25. ASSUME NEW w \in Workers, ChannelClosed(w)
      PROVE  FinalStep
  BY <1>25 DEF ChannelClosed
<1>26. CASE EndPass
  BY <1>26 DEF EndPass, ForgetPass
<1>27. CASE Deadline
  BY <1>27 DEF Deadline
<1>28. CASE Cancel
  BY <1>28 DEF Cancel, Fault
<1>29. CASE Crash
  BY <1>29 DEF Crash, ForgetPass, Fault
<1>30. CASE ReapStaleClaims
  BY <1>30 DEF ReapStaleClaims, Reapable, In
<1>31. ASSUME NEW m \in Vanishing, Vanish(m)
      PROVE  FinalStep
  BY <1>31 DEF Vanish
<1>32. CASE UNCHANGED vars
  BY <1>32 DEF vars
<1>33. QED
  BY <1>1, <1>2, <1>3, <1>4, <1>5, <1>6, <1>7, <1>8, <1>9, <1>10, <1>11,
     <1>12, <1>13, <1>14, <1>15, <1>16, <1>17, <1>18, <1>19, <1>20, <1>21,
     <1>22, <1>23, <1>24, <1>25, <1>26, <1>27, <1>28, <1>29, <1>30, <1>31,
     <1>32 DEF Next, MetadataStep, ProducerStep, WorkerStep

-----------------------------------------------------------------------------
(* The body pass implements the queue *)

\* The queue's state, as the body pass keeps it.
QState == [m \in UIDs |-> Phase(bodyState[m])]

\* What becomes of the row in a worker's hand ends its hold in the queue.
LEMMA ReleaseStep ==
    ASSUME NEW w \in Workers, TypeOK, hand[w] # NoClaim,
           NEW s \in {"pending", "stored", "failed", "skipped_too_large"},
           bodyState' = [bodyState EXCEPT ![hand[w]] = IF @ = "gone" THEN @ ELSE s],
           hand' = [hand EXCEPT ![w] = NoClaim], reaped' = reaped
    PROVE  Queue!Next
<1>1. hand[w] \in UIDs
  BY DEF TypeOK
<1>2. CASE s = "pending"
  <2>1. QState' = [QState EXCEPT ![hand[w]] = IF @ = "gone" THEN @ ELSE "waiting"]
    BY <1>1, <1>2 DEF QState, Phase, TypeOK, BodyStates
  <2>2. Queue!GiveBack(w)
    BY <1>1, <2>1 DEF Queue!GiveBack, Queue!Release, QState
  <2> QED
    BY <2>2 DEF Queue!Next
<1>3. CASE s # "pending"
  <2>1. QState' = [QState EXCEPT ![hand[w]] = IF @ = "gone" THEN @ ELSE "done"]
    BY <1>1, <1>3 DEF QState, Phase, TypeOK, BodyStates
  <2>2. Queue!Finish(w)
    BY <1>1, <2>1 DEF Queue!Finish, Queue!Release, QState
  <2> QED
    BY <2>2 DEF Queue!Next
<1> QED
  BY <1>2, <1>3

\* A worker that lets go without marking the row.
LEMMA AbandonStep ==
    ASSUME NEW w \in Workers, TypeOK, hand[w] # NoClaim,
           bodyState' = bodyState, hand' = [hand EXCEPT ![w] = NoClaim],
           reaped' = reaped
    PROVE  Queue!Next
<1>1. hand[w] \in UIDs
  BY DEF TypeOK
<1>2. Queue!Abandon(w)
  BY <1>1 DEF Queue!Abandon
<1> QED
  BY <1>2 DEF Queue!Next

\* A failed attempt gives the row back or ends it.
LEMMA MarkStep ==
    ASSUME NEW w \in Workers, TypeOK, hand[w] # NoClaim, MarkBodyFailed(hand[w]),
           hand' = [hand EXCEPT ![w] = NoClaim], reaped' = reaped
    PROVE  Queue!Next
<1>1. hand[w] \in UIDs
  BY DEF TypeOK
<1>2. CASE bodyState[hand[w]] = "gone"
  BY <1>2, AbandonStep DEF MarkBodyFailed, rows
<1>3. CASE bodyState[hand[w]] # "gone"
  <2>1. PICK s \in {"pending", "failed"} :
            bodyState' = [bodyState EXCEPT ![hand[w]] = s]
    BY <1>3 DEF MarkBodyFailed
  <2>2. bodyState' = [bodyState EXCEPT ![hand[w]] = IF @ = "gone" THEN @ ELSE s]
    BY <1>1, <1>3, <2>1 DEF TypeOK
  <2> QED
    BY <2>2, ReleaseStep
<1> QED
  BY <1>2, <1>3

\* A worker that comes to a message takes it, or finds no claim.
LEMMA PickStep ==
    ASSUME NEW w \in Workers, NEW m \in UIDs, TypeOK, WorkerInv, HoldInv,
           worker[w] \in {"fetch", "failed", "tooLarge"}, hand[w] = NoClaim,
           m \in left[w], TakeClaim(w, m), bodyState' = bodyState,
           reaped' = reaped
    PROVE  Queue!Next \/ UNCHANGED <<bodyState, hand, reaped>>
<1>1. CASE m \in claims
  <2>1. m \in AtWork
    BY DEF WorkerInv, AtWork
  <2>2. m \in reaped \/ bodyState[m] \in {"fetching", "gone"}
    BY <1>1, <2>1 DEF HoldInv
  <2>3. m # NoClaim
    BY DEF UIDs, NoClaim
  <2>4. m \in reaped \/ \A v \in Workers : hand[v] # m
    BY <1>1, <2>3 DEF HoldInv
  <2>5. hand' = [hand EXCEPT ![w] = m]
    BY <1>1 DEF TakeClaim
  <2>6. Queue!Pick(w, m)
    BY <2>2, <2>4, <2>5 DEF Queue!Pick, Queue!Held, Phase
  <2> QED
    BY <2>6 DEF Queue!Next
<1>2. CASE m \notin claims
  BY <1>2 DEF TakeClaim, TypeOK
<1> QED
  BY <1>1, <1>2

\* Every step is a step of the queue or leaves it as it is.
LEMMA QueueStep ==
    ASSUME TypeOK, WorkerInv, HoldInv, [Next]_vars
    PROVE  Queue!Next \/ UNCHANGED <<bodyState, hand, reaped>>
<1> USE DEF rows, production, work, metadata, reaping
<1>1. CASE StartPass
  BY <1>1 DEF StartPass
<1>2. ASSUME NEW m \in UIDs, Discover(m)
      PROVE  Queue!Next
  <2>1. QState' = [QState EXCEPT ![m] = "waiting"] /\ QState[m] = "absent"
    BY <1>2 DEF Discover, QState, Phase, TypeOK
  <2>2. Queue!Offer(m)
    BY <1>2, <2>1 DEF Discover, Queue!Offer, QState
  <2> QED
    BY <2>2 DEF Queue!Next
<1>3. ASSUME NEW m \in UIDs, DeleteRow(m)
      PROVE  Queue!Next
  <2>1. QState[m] \in {"waiting", "leased", "done"}
    BY <1>3 DEF DeleteRow, QState, Phase, TypeOK, BodyStates
  <2>2. QState' = [v \in UIDs |-> IF v \in {m} THEN "gone" ELSE QState[v]]
    BY <1>3 DEF DeleteRow, QState, Phase, TypeOK, BodyStates
  <2>3. {m} \in SUBSET Queue!Present
    BY <2>1 DEF Queue!Present, QState
  <2>4. Queue!Withdraw({m})
    BY <1>3, <2>2 DEF DeleteRow, Queue!Withdraw, QState
  <2> QED
    BY <2>3, <2>4 DEF Queue!Next
<1>4. CASE CloseMetadataDone
  BY <1>4 DEF CloseMetadataDone
<1>5. CASE ClaimPendingBodies
  <2> DEFINE claimed == Newest(Claimable, ClaimLimit)
  <2>1. claimed \subseteq In("pending")
    BY DEF Newest, Claimable
  <2>2. /\ bodyState' = [m \in UIDs |-> IF m \in claimed THEN "fetching"
                                                        ELSE bodyState[m]]
        /\ UNCHANGED <<hand, reaped>>
    BY <1>5 DEF ClaimPendingBodies
  <2> HIDE DEF claimed
  <2>3. claimed \in SUBSET Queue!Waiting
    BY <2>1 DEF Queue!Waiting, In, Phase
  <2>4. QState' = [m \in UIDs |-> IF m \in claimed THEN "leased" ELSE QState[m]]
    BY <2>2 DEF QState, Phase
  <2>5. Queue!Lease(claimed)
    BY <2>2, <2>4 DEF Queue!Lease, QState
  <2> QED
    BY <2>3, <2>5 DEF Queue!Next
<1>6. CASE SweepFindsNothing
  BY <1>6 DEF SweepFindsNothing
<1>7. CASE WaitForMetadata
  BY <1>7 DEF WaitForMetadata
<1>8. ASSUME NEW w \in Workers, SendBatch(w)
      PROVE  UNCHANGED <<bodyState, hand, reaped>>
  BY <1>8 DEF SendBatch
<1>9. CASE ProducerFails
  BY <1>9 DEF ProducerFails
<1>10. ASSUME NEW w \in Workers,
              OpenMailbox(w) \/ OpenFails(w) \/ Attempt(w) \/ AttemptFails(w)
       PROVE  UNCHANGED <<bodyState, hand, reaped>>
  BY <1>10 DEF OpenMailbox, OpenFails, Attempt, AttemptFails
<1>11. ASSUME NEW w \in Workers, NEW m \in UIDs, ReceiveTooLarge(w, m)
       PROVE  UNCHANGED <<bodyState, hand, reaped>>
  BY <1>11 DEF ReceiveTooLarge
<1>12. ASSUME NEW w \in Workers, NEW m \in UIDs, ReceiveBody(w, m) \/ ReleaseNext(w, m)
       PROVE  Queue!Next \/ UNCHANGED <<bodyState, hand, reaped>>
  BY <1>12, PickStep DEF ReceiveBody, ReleaseNext, Newest
<1>13. ASSUME NEW w \in Workers, AttachBody(w)
       PROVE  Queue!Next
  <2>1. bodyState' = [bodyState EXCEPT ![hand[w]] = IF @ = "gone" THEN @ ELSE "stored"]
    BY <1>13 DEF AttachBody, TypeOK
  <2> QED
    BY <1>13, <2>1, ReleaseStep DEF AttachBody
<1>14. ASSUME NEW w \in Workers, AttachFails(w)
       PROVE  Queue!Next
  <2>1. CASE bodyState' = bodyState
    BY <1>14, <2>1, AbandonStep DEF AttachFails
  <2>2. CASE bodyState' # bodyState
    <3>1. bodyState' = [bodyState EXCEPT ![hand[w]] = IF @ = "gone" THEN @ ELSE "stored"]
      BY <1>14, <2>2 DEF AttachFails, TypeOK
    <3> QED
      BY <1>14, <3>1, ReleaseStep DEF AttachFails
  <2> QED
    BY <2>1, <2>2
<1>15. ASSUME NEW w \in Workers, BodyNotStored(w)
       PROVE  Queue!Next
  BY <1>15, MarkStep DEF BodyNotStored
<1>16. ASSUME NEW w \in Workers, FetchEnds(w) \/ FetchFails(w)
       PROVE  UNCHANGED <<bodyState, hand, reaped>>
  BY <1>16 DEF FetchEnds, FetchFails
<1>17. ASSUME NEW w \in Workers, SettleClaim(w)
       PROVE  Queue!Next
  <2>1. CASE worker[w] = "failed"
    BY <1>17, <2>1, MarkStep DEF SettleClaim
  <2>2. CASE worker[w] = "tooLarge"
    BY <1>17, <2>2, ReleaseStep DEF SettleClaim
  <2> QED
    BY <1>17, <2>1, <2>2 DEF SettleClaim
<1>18. ASSUME NEW w \in Workers, SettleFails(w)
       PROVE  Queue!Next
  BY <1>18, AbandonStep DEF SettleFails
<1>19. ASSUME NEW w \in Workers, ReleaseEnds(w) \/ ChannelClosed(w)
       PROVE  UNCHANGED <<bodyState, hand, reaped>>
  BY <1>19 DEF ReleaseEnds, ChannelClosed
<1>20. CASE EndPass \/ Crash
  <2>1. /\ hand' = [w \in Workers |-> NoClaim]
        /\ bodyState' = bodyState
        /\ reaped' = {}
    BY <1>20 DEF EndPass, Crash, ForgetPass
  <2>2. Queue!AbandonAll
    BY <2>1 DEF Queue!AbandonAll
  <2> QED
    BY <2>2 DEF Queue!Next
<1>21. CASE Deadline \/ Cancel
  BY <1>21 DEF Deadline, Cancel
<1>22. CASE ReapStaleClaims
  <2>1. PICK S \in SUBSET Reapable :
            /\ bodyState' = [m \in UIDs |-> IF m \in S THEN "pending" ELSE bodyState[m]]
            /\ reaped' = reaped \cup (S \cap AtWork)
    BY <1>22 DEF ReapStaleClaims
  <2>2. S \cap Queue!Held \subseteq S \cap AtWork
    <3> SUFFICES ASSUME NEW w \in Workers, hand[w] \in S PROVE hand[w] \in AtWork
      BY DEF Queue!Held
    <3>1. hand[w] # NoClaim
      BY DEF Reapable, In, UIDs, NoClaim
    <3> QED
      BY <3>1 DEF WorkerInv, AtWork
  <2>3. S \in SUBSET Queue!Leased
    BY DEF Queue!Leased, Reapable, In, Phase
  <2>4. QState' = [m \in UIDs |-> IF m \in S THEN "waiting" ELSE QState[m]]
    BY <2>1 DEF QState, Phase
  <2>5. Queue!Recover(S, S \cap AtWork)
    BY <1>22, <2>1, <2>2, <2>4 DEF Queue!Recover, QState, ReapStaleClaims, work
  <2> QED
    BY <2>3, <2>5 DEF Queue!Next
<1>23. ASSUME NEW m \in Vanishing, Vanish(m)
       PROVE  UNCHANGED <<bodyState, hand, reaped>>
  BY <1>23 DEF Vanish
<1>24. CASE UNCHANGED vars
  BY <1>24 DEF vars
<1> QED
  BY <1>1, <1>2, <1>3, <1>4, <1>5, <1>6, <1>7, <1>8, <1>9, <1>10, <1>11,
     <1>12, <1>13, <1>14, <1>15, <1>16, <1>17, <1>18, <1>19, <1>20, <1>21,
     <1>22, <1>23, <1>24 DEF Next, MetadataStep, ProducerStep, WorkerStep

-----------------------------------------------------------------------------
(* The theorems *)

\* The part of the invariant that holds however claims are reaped.
IInv == TypeOK /\ WorkerInv /\ BatchInv /\ SweepInv

\* The initial states satisfy the invariant.
LEMMA InitInv == Init => IInv /\ HoldInv
<1> SUFFICES ASSUME Init PROVE IInv /\ HoldInv
  OBVIOUS
<1>1. TypeOK
  BY TypeInit
<1>2. WorkerInv
  BY DEF Init, WorkerInv, running
<1>3. BatchInv
  BY DEF Init, BatchInv
<1>4. SweepInv
  BY DEF Init, SweepInv, NothingMissed, running
<1>5. HoldInv
  BY DEF Init, HoldInv
<1> QED
  BY <1>1, <1>2, <1>3, <1>4, <1>5 DEF IInv

\* The invariant is inductive.
LEMMA Inductive == Spec => []IInv
<1>1. IInv /\ [Next]_vars => IInv'
  BY TypeStep, WorkerStepInv, BatchStepInv, SweepStepInv DEF IInv
<1> QED
  BY InitInv, <1>1, PTL DEF Spec

\* A pass that returns without error has claimed every row the metadata pass
\* added, however the two interleave: the producer looks once more after it
\* has learnt that the metadata pass is over.
THEOREM NoMessageMissed == Spec => []NothingMissed
<1>1. IInv => NothingMissed
  BY DEF IInv, SweepInv
<1> QED
  BY Inductive, <1>1, PTL

\* Parking every claim left in a batch after ErrMessageTooLarge parks a message
\* that is not too large only beside one that is and that the planner did not
\* send alone.
THEOREM SmallNeverParked == Spec => ParkedBesideLarge
<1>1. IInv /\ [Next]_vars => [ParkStep]_vars
  BY ParkStepHolds DEF IInv
<1>2. ParkedBesideLarge <=> [][ParkStep]_vars
  BY DEF ParkedBesideLarge, ParkStep
<1> QED
  BY Inductive, <1>1, <1>2, PTL DEF Spec

\* A claim that was not reaped under its pass is in one worker's hand at most
\* and its row is the one that was claimed: what AttachBody, MarkBodyFailed and
\* MarkBodyTooLarge overwrite is never somebody else's.
THEOREM ClaimsAreExclusive == Spec => []OneHolder
<1>1. IInv /\ HoldInv /\ [Next]_vars => HoldInv'
  BY HoldStepInv DEF IInv
<1>2. HoldInv => OneHolder
  BY DEF HoldInv, OneHolder
<1> QED
  BY InitInv, Inductive, <1>1, <1>2, PTL DEF Spec

\* No body that is stored, and no message that is parked, is ever put back in
\* the queue by a late failure, unless its own claim was reaped under the pass.
THEOREM SettledStaysSettled == Spec => SettledIsFinal
<1>1. IInv /\ HoldInv /\ [Next]_vars => HoldInv'
  BY HoldStepInv DEF IInv
<1>2. IInv /\ HoldInv /\ [Next]_vars => [FinalStep]_vars
  BY FinalStepHolds DEF IInv
<1>3. SettledIsFinal <=> [][FinalStep]_vars
  BY DEF SettledIsFinal, FinalStep
<1> QED
  BY InitInv, Inductive, <1>1, <1>2, <1>3, PTL DEF Spec

\* The body pass implements WorkQueue: whatever fails, is retried or cancelled,
\* to the rows it looks like leases that one worker at a time works on, and the
\* reaper like a lease that expires, which costs that one message the promise.
THEOREM BodyPassImplementsQueue == Spec => ImplementsQueue
<1>1. IInv /\ HoldInv /\ [Next]_vars => HoldInv'
  BY HoldStepInv DEF IInv
<1>2. Init => Queue!Init
  <2> SUFFICES ASSUME Init PROVE Queue!Init
    OBVIOUS
  <2>1. \A m \in UIDs : Phase(bodyState[m]) \in {"absent", "waiting"}
    BY DEF Init, Phase
  <2> QED
    BY <2>1 DEF Init, Queue!Init
<1>3. IInv /\ HoldInv /\ [Next]_vars => [Queue!Next]_(Queue!vars)
  BY QueueStep DEF IInv, Queue!vars
<1> QED
  BY InitInv, Inductive, <1>1, <1>2, <1>3, PTL DEF Spec, ImplementsQueue, Queue!Spec

-----------------------------------------------------------------------------
(* The coming and going of rows *)

\* A step that makes and removes no row is none to the feed.
LEMMA RowsKept ==
    ASSUME UNCHANGED upstream,
           \A m \in UIDs : RowPhase(bodyState'[m]) = RowPhase(bodyState[m])
    PROVE  UNCHANGED Feed!vars
BY DEF Feed!vars, FeedPhase

\* Nor is one that changes the state of one row and leaves it there.
LEMMA RowMarked ==
    ASSUME NEW m \in UIDs, NEW s \in BodyStates \ {"absent", "gone"}, TypeOK,
           UNCHANGED upstream, bodyState[m] \notin {"absent", "gone"},
           bodyState' = [bodyState EXCEPT ![m] = s]
    PROVE  UNCHANGED Feed!vars
<1>1. \A v \in UIDs : RowPhase(bodyState'[v]) = RowPhase(bodyState[v])
  BY DEF TypeOK, RowPhase
<1> QED
  BY <1>1, RowsKept

\* What a worker has in its hand has been listed: it was claimed by this pass.
LEMMA HandListed ==
    ASSUME IInv, NEW w \in Workers, hand[w] # NoClaim
    PROVE  hand[w] \in UIDs /\ bodyState[hand[w]] # "absent"
<1>1. hand[w] \in UIDs
  BY DEF IInv, TypeOK
<1>2. hand[w] \in mine
  BY DEF IInv, WorkerInv
<1> QED
  BY <1>1, <1>2 DEF IInv, SweepInv

\* A failed attempt leaves the row, or its absence, as it is.
LEMMA MarkKeepsRow ==
    ASSUME IInv, NEW w \in Workers, hand[w] # NoClaim, MarkBodyFailed(hand[w]),
           UNCHANGED upstream
    PROVE  UNCHANGED Feed!vars
<1>1. hand[w] \in UIDs /\ bodyState[hand[w]] # "absent"
  BY HandListed
<1>2. CASE bodyState[hand[w]] = "gone"
  <2>1. bodyState' = bodyState
    BY <1>2 DEF MarkBodyFailed, rows
  <2> QED
    BY <2>1, RowsKept
<1>3. CASE bodyState[hand[w]] # "gone"
  <2>1. PICK s \in {"pending", "failed"} :
            bodyState' = [bodyState EXCEPT ![hand[w]] = s]
    BY <1>3 DEF MarkBodyFailed
  <2> QED
    BY <1>1, <1>3, <2>1, RowMarked DEF IInv, BodyStates
<1> QED
  BY <1>2, <1>3

\* Only the metadata pass makes and removes rows.
LEMMA FeedStep ==
    ASSUME IInv, [Next]_vars
    PROVE  [Feed!Next]_(Feed!vars)
<1> USE DEF rows, production, work, metadata, reaping
<1>t. TypeOK
  BY DEF IInv
<1>1. ASSUME NEW m \in UIDs, Discover(m)
      PROVE  Feed!Next
  <2>1. FeedPhase[m] = "absent" /\ UNCHANGED upstream
    BY <1>1 DEF Discover, FeedPhase, RowPhase
  <2>2. FeedPhase' = [v \in UIDs |-> IF v \in {m} THEN "listed" ELSE FeedPhase[v]]
    BY <1>1, <1>t DEF Discover, FeedPhase, RowPhase, TypeOK
  <2>3. {m} \in SUBSET Feed!Absent
    BY <2>1 DEF Feed!Absent
  <2>4. Feed!List({m})
    BY <2>1, <2>2 DEF Feed!List, Feed!Becomes
  <2> QED
    BY <2>3, <2>4 DEF Feed!Next
<1>2. ASSUME NEW m \in UIDs, DeleteRow(m)
      PROVE  Feed!Next
  <2>1. FeedPhase[m] = "listed" /\ m \notin upstream /\ UNCHANGED upstream
    BY <1>2 DEF DeleteRow, FeedPhase, RowPhase
  <2>2. FeedPhase' = [v \in UIDs |-> IF v \in {m} THEN "gone" ELSE FeedPhase[v]]
    BY <1>2, <1>t DEF DeleteRow, FeedPhase, RowPhase, TypeOK
  <2>3. {m} \in SUBSET ((Feed!Listed \cup Feed!Absent) \ upstream)
    BY <2>1 DEF Feed!Listed
  <2>4. Feed!Remove({m})
    BY <2>1, <2>2 DEF Feed!Remove, Feed!Becomes
  <2> QED
    BY <2>3, <2>4 DEF Feed!Next
<1>3. ASSUME NEW m \in Vanishing, Vanish(m)
      PROVE  Feed!Next
  <2>1. m \in UIDs /\ m \in upstream /\ upstream' = upstream \ {m}
    BY <1>3, <1>t DEF Vanish, TypeOK
  <2>2. bodyState' = bodyState
    BY <1>3 DEF Vanish
  <2> DEFINE none == {}
  <2>3. FeedPhase' = [v \in UIDs |-> IF v \in none THEN "gone" ELSE FeedPhase[v]]
    BY <2>2 DEF FeedPhase
  <2>4. Feed!Expunge(m)
    <3>1. none \in SUBSET (Feed!Absent \cap {m}) /\ Feed!Becomes(none, "gone")
      BY <2>3 DEF Feed!Becomes
    <3> HIDE DEF none
    <3> QED
      BY <2>1, <3>1 DEF Feed!Expunge
  <2> QED
    BY <2>1, <2>4 DEF Feed!Next
<1>4. CASE ClaimPendingBodies
  <2> DEFINE claimed == Newest(Claimable, ClaimLimit)
  <2>1. claimed \subseteq In("pending")
    BY DEF Newest, Claimable
  <2>2. /\ bodyState' = [m \in UIDs |-> IF m \in claimed THEN "fetching"
                                                        ELSE bodyState[m]]
        /\ upstream' = upstream
    BY <1>4 DEF ClaimPendingBodies
  <2> HIDE DEF claimed
  <2>3. \A m \in UIDs : RowPhase(bodyState'[m]) = RowPhase(bodyState[m])
    BY <2>1, <2>2 DEF In, RowPhase
  <2> QED
    BY <2>2, <2>3, RowsKept
<1>5. CASE ReapStaleClaims
  <2>1. PICK S \in SUBSET Reapable :
            bodyState' = [m \in UIDs |-> IF m \in S THEN "pending"
                                                    ELSE bodyState[m]]
    BY <1>5 DEF ReapStaleClaims
  <2>2. S \subseteq In("fetching")
    BY DEF Reapable
  <2>3. \A m \in UIDs : RowPhase(bodyState'[m]) = RowPhase(bodyState[m])
    BY <2>1, <2>2 DEF In, RowPhase
  <2>4. UNCHANGED upstream
    BY <1>5 DEF ReapStaleClaims
  <2> QED
    BY <2>3, <2>4, RowsKept
<1>6. ASSUME NEW w \in Workers, AttachBody(w) \/ AttachFails(w)
      PROVE  UNCHANGED Feed!vars
  <2>1. hand[w] \in UIDs /\ bodyState[hand[w]] # "absent" /\ UNCHANGED upstream
    BY <1>6, HandListed DEF AttachBody, AttachFails
  <2>2. CASE bodyState' = bodyState
    BY <2>1, <2>2, RowsKept
  <2>3. CASE bodyState' # bodyState
    <3>1. /\ bodyState[hand[w]] # "gone"
          /\ bodyState' = [bodyState EXCEPT ![hand[w]] = "stored"]
      BY <1>6, <2>3 DEF AttachBody, AttachFails
    <3> QED
      BY <1>t, <2>1, <3>1, RowMarked DEF BodyStates
  <2> QED
    BY <2>2, <2>3
<1>7. ASSUME NEW w \in Workers, BodyNotStored(w)
      PROVE  UNCHANGED Feed!vars
  BY <1>7, MarkKeepsRow DEF BodyNotStored
<1>8. ASSUME NEW w \in Workers, SettleClaim(w)
      PROVE  UNCHANGED Feed!vars
  <2>1. hand[w] # NoClaim /\ UNCHANGED upstream
    BY <1>8 DEF SettleClaim
  <2>2. hand[w] \in UIDs /\ bodyState[hand[w]] # "absent"
    BY <2>1, HandListed
  <2>3. CASE MarkBodyFailed(hand[w])
    BY <2>1, <2>3, MarkKeepsRow
  <2>4. CASE bodyState' = [bodyState EXCEPT ![hand[w]] =
                              IF @ = "gone" THEN @ ELSE "skipped_too_large"]
    <3>1. \A v \in UIDs : RowPhase(bodyState'[v]) = RowPhase(bodyState[v])
      BY <1>t, <2>2, <2>4 DEF TypeOK, RowPhase
    <3> QED
      BY <2>1, <3>1, RowsKept
  <2> QED
    BY <1>8, <2>3, <2>4 DEF SettleClaim
<1>9. ASSUME NEW w \in Workers,
             \/ OpenMailbox(w) \/ OpenFails(w) \/ Attempt(w) \/ AttemptFails(w)
             \/ \E m \in UIDs : ReceiveBody(w, m) \/ ReceiveTooLarge(w, m)
                                   \/ ReleaseNext(w, m)
             \/ FetchEnds(w) \/ FetchFails(w) \/ SettleFails(w) \/ ReleaseEnds(w)
             \/ ChannelClosed(w) \/ SendBatch(w)
      PROVE  UNCHANGED Feed!vars
  <2>1. UNCHANGED <<upstream, bodyState>>
    BY <1>9 DEF OpenMailbox, OpenFails, Attempt, AttemptFails, ReceiveBody,
                ReceiveTooLarge, ReleaseNext, FetchEnds, FetchFails,
                SettleFails, ReleaseEnds, ChannelClosed, SendBatch
  <2> QED
    BY <2>1, RowsKept
<1>10. CASE \/ StartPass \/ CloseMetadataDone \/ SweepFindsNothing
            \/ WaitForMetadata \/ ProducerFails \/ EndPass \/ Deadline \/ Cancel
            \/ Crash \/ UNCHANGED vars
  <2>1. UNCHANGED <<upstream, bodyState>>
    BY <1>10 DEF StartPass, CloseMetadataDone, SweepFindsNothing,
                 WaitForMetadata, ProducerFails, EndPass, Deadline, Cancel,
                 Crash, vars
  <2> QED
    BY <2>1, RowsKept
<1> QED
  BY <1>1, <1>2, <1>3, <1>4, <1>5, <1>6, <1>7, <1>8, <1>9, <1>10
     DEF Next, MetadataStep, ProducerStep, WorkerStep

\* The body pass stays within RowFeed, also when live claims are reaped: no
\* body that comes late brings back a row that the metadata pass has removed.
THEOREM DeletedStaysDeleted == Spec => WithinFeed
<1>1. Init => Feed!Init
  <2> SUFFICES ASSUME Init PROVE Feed!Init
    OBVIOUS
  <2>1. \A m \in UIDs : RowPhase(bodyState[m]) \in {"absent", "listed"}
    BY DEF Init, RowPhase
  <2> QED
    BY <2>1 DEF Init, Feed!Init, FeedPhase
<1>2. IInv /\ [Next]_vars => [Feed!Next]_(Feed!vars)
  BY FeedStep
<1> QED
  BY Inductive, <1>1, <1>2, PTL DEF Spec, WithinFeed, Feed!Spec

=============================================================================
