------------------------ MODULE MutationQueueProofs ------------------------
(***************************************************************************)
(* Proofs about MutationQueue, for any sets of messages, flags, sessions   *)
(* and replayers and any bounds: the type invariant, and that a message    *)
(* changed only when its earlier changes are settled ends on the server    *)
(* with the newest flags.  Claims are released by age, so several          *)
(* replayers may have one change; the argument is not that a claim is      *)
(* exclusive but that whatever a replayer has of such a message is its     *)
(* newest change, and pushing that twice does no harm.                     *)
(***************************************************************************)
EXTENDS MutationQueue, FiniteSetTheorems, TLAPS

USE ConstantsAssumption

-----------------------------------------------------------------------------
(* Changes and types *)

\* A change is its message and its flags.
LEMMA ChangeParts ==
    ASSUME NEW c \in Changes
    PROVE  c[1] \in Messages /\ c[2] \in FlagSets
  BY DEF Changes

\* The rows of the queue can be counted.
LEMMA CountedRows ==
    Cardinality({d \in Changes : status[d] # "none"}) + 1 \in Nat
<1>1. IsFiniteSet(Changes)
  BY FS_Product DEF Changes
<1>2. IsFiniteSet({d \in Changes : status[d] # "none"})
  BY <1>1, FS_Subset
<1> QED
  BY <1>2, FS_CardinalityType

\* The type invariant is inductive by itself.
LEMMA TypeStep == TypeOK /\ [Next]_vars => TypeOK'
<1> SUFFICES ASSUME TypeOK, [Next]_vars PROVE TypeOK'
  OBVIOUS
<1> USE DEF TypeOK, Statuses, ReplayerPhases, server, mirror, queue, replay, history
<1>1. ASSUME NEW s \in Sessions, EnqueueMutation(s)
      PROVE  TypeOK'
  <2>1. storing[s] \in Changes
    BY <1>1 DEF EnqueueMutation
  <2>2. storing[s][1] \in Messages /\ storing[s][2] \in FlagSets
    BY <2>1, ChangeParts
  <2>3. Cardinality({d \in Changes : status[d] # "none"}) + 1 \in Nat
    BY CountedRows
  <2>4. created' \in [Changes -> Nat]
    BY <1>1, <2>3 DEF EnqueueMutation
  <2>5. overlapped' \in SUBSET Messages /\ torn' \in SUBSET Messages
    BY <1>1, <2>2 DEF EnqueueMutation
  <2>6. last' \in [Messages -> FlagSets \cup {NoFlags}]
    BY <1>1, <2>2 DEF EnqueueMutation
  <2>7. /\ status' \in [Changes -> Statuses] /\ attempts' \in [Changes -> Nat]
        /\ due' \in [Changes -> BOOLEAN]
        /\ storing' \in [Sessions -> Changes \cup {None}]
    BY <1>1 DEF EnqueueMutation
  <2> QED
    BY <1>1, <2>4, <2>5, <2>6, <2>7 DEF EnqueueMutation
<1>2. ASSUME NEW s \in Sessions, EnqueueFails(s)
      PROVE  TypeOK'
  <2>1. storing[s] \in Changes
    BY <1>2 DEF EnqueueFails
  <2>2. storing[s][1] \in Messages
    BY <2>1, ChangeParts
  <2> QED
    BY <1>2, <2>2 DEF EnqueueFails, Fault
<1>3. ASSUME NEW s \in Sessions, NEW c \in Changes, SetFlags(s, c)
      PROVE  TypeOK'
  <2>1. c[1] \in Messages /\ c[2] \in FlagSets
    BY ChangeParts
  <2> QED
    BY <1>3, <2>1 DEF SetFlags
<1>4. ASSUME NEW r \in Replayers, StartReplay(r)
      PROVE  TypeOK'
  BY <1>4 DEF StartReplay
<1>5. ASSUME NEW r \in Replayers, ClaimDueMutations(r)
      PROVE  TypeOK'
  <2>1. Oldest(Due) \in SUBSET Changes
    BY DEF Oldest, Due
  <2> QED
    BY <1>5, <2>1 DEF ClaimDueMutations
<1>6. ASSUME NEW r \in Replayers, NEW c \in Changes, ApplyMutation(r, c)
      PROVE  TypeOK'
  <2>1. c[1] \in Messages /\ c[2] \in FlagSets
    BY ChangeParts
  <2>2. /\ upstream' \in [Messages -> FlagSets] /\ unseen' \in SUBSET Messages
        /\ pushed' \in [Messages -> FlagSets \cup {NoFlags}]
    BY <1>6, <2>1 DEF ApplyMutation, Push
  <2> QED
    BY <1>6, <2>2 DEF ApplyMutation, Fault
<1>7. ASSUME NEW r \in Replayers, NEW c \in Changes, ApplyFails(r, c)
      PROVE  TypeOK'
  <2>1. c[1] \in Messages /\ c[2] \in FlagSets
    BY ChangeParts
  <2>2. /\ upstream' \in [Messages -> FlagSets] /\ unseen' \in SUBSET Messages
        /\ pushed' \in [Messages -> FlagSets \cup {NoFlags}]
    BY <1>7, <2>1 DEF ApplyFails, Push
  <2> QED
    BY <1>7, <2>2 DEF ApplyFails, Fault
<1>8. ASSUME NEW r \in Replayers, MutationSucceeded(r)
      PROVE  TypeOK'
  <2>1. hand[r] \in Changes
    BY <1>8 DEF MutationSucceeded
  <2> QED
    BY <1>8, <2>1 DEF MutationSucceeded, NextMutation
<1>9. ASSUME NEW r \in Replayers, MutationFailed(r)
      PROVE  TypeOK'
  <2>1. hand[r] \in Changes
    BY <1>9 DEF MutationFailed
  <2>2. CASE NextMutation(r)
    BY <1>9, <2>1, <2>2 DEF MutationFailed, NextMutation
  <2>3. CASE StopReplay(r)
    BY <1>9, <2>1, <2>3 DEF MutationFailed, StopReplay
  <2> QED
    BY <1>9, <2>2, <2>3 DEF MutationFailed
<1>10. ASSUME NEW r \in Replayers, ReplayInterrupted(r)
      PROVE  TypeOK'
  BY <1>10 DEF ReplayInterrupted, StopReplay, Fault
<1>11. ASSUME NEW c \in Changes, BackoffEnds(c)
      PROVE  TypeOK'
  BY <1>11 DEF BackoffEnds
<1>12. ASSUME NEW c \in Changes, ReleaseStaleMutations(c)
      PROVE  TypeOK'
  BY <1>12 DEF ReleaseStaleMutations, Fault
<1>13. ASSUME NEW m \in Messages, ReceiveFlags(m)
      PROVE  TypeOK'
  BY <1>13 DEF ReceiveFlags
<1>14. ASSUME NEW m \in Messages, UpdateFlags(m)
      PROVE  TypeOK'
  BY <1>14 DEF UpdateFlags
<1>15. ASSUME NEW m \in Messages, PassInterrupted(m)
      PROVE  TypeOK'
  BY <1>15 DEF PassInterrupted, Fault
<1>16. ASSUME NEW m \in Messages, NEW f \in FlagSets, ChangeUpstream(m, f)
      PROVE  TypeOK'
  BY <1>16 DEF ChangeUpstream, Fault
<1>17. CASE Deactivate
  <2>1. faults' \in 0..MaxFaults
    BY <1>17 DEF Deactivate, Fault
  <2>2. active' \in BOOLEAN
    BY <1>17 DEF Deactivate
  <2> QED
    BY <1>17, <2>1, <2>2 DEF Deactivate
<1>18. CASE Activate
  BY <1>18 DEF Activate
<1>19. CASE UNCHANGED vars
  BY <1>19 DEF vars
<1>20. QED
  BY <1>1, <1>2, <1>3, <1>4, <1>5, <1>6, <1>7, <1>8, <1>9, <1>10, <1>11,
     <1>12, <1>13, <1>14, <1>15, <1>16, <1>17, <1>18, <1>19 DEF Next,
     SessionStep, ReplayStep, SyncStep

\* The initial states have the right types.
LEMMA TypeInit == Init => TypeOK
  BY DEF Init, TypeOK, Statuses, ReplayerPhases

\* Every variable keeps its type, and a replayer has a change in hand exactly
\* between pushing it and recording what became of it.
THEOREM TypeCorrect == Spec => []TypeOK
  BY TypeInit, TypeStep, PTL DEF Spec

-----------------------------------------------------------------------------
(* The inductive invariant *)

Has(r, c) == c \in batch[r] \/ hand[r] = c

Alone == Messages \ overlapped

\* What a replayer has of a message that never had two changes at once is the
\* newest; once pushed, nothing else was pushed after it.
HoldInv ==
    \A c \in Changes, r \in Replayers : c[1] \in Alone /\ Has(r, c) =>
        /\ c[2] = last[c[1]]
        /\ hand[r] = c /\ replayer[r] = "applied" /\ c[1] \notin Unpushed =>
              pushed[c[1]] = c[2]

\* What is not settled of such a message is its newest change.
NewestInv ==
    \A c \in Changes :
        c[1] \in Alone /\ status[c] \in {"pending", "in_flight", "failed"} =>
            c[2] = last[c[1]]

IInv == TypeOK /\ HoldInv /\ NewestInv /\ SoleChangeWins

\* NewestInv is kept: only a STORE changes what is newest.
LEMMA NewestStep == IInv /\ [Next]_vars => NewestInv'
<1> SUFFICES ASSUME IInv, [Next]_vars PROVE NewestInv'
  OBVIOUS
<1>T. TypeOK /\ HoldInv /\ NewestInv
  BY DEF IInv
<1>1. ASSUME NEW s \in Sessions, EnqueueMutation(s)
      PROVE  NewestInv'
  <2> DEFINE e == storing[s]
  <2>1. e \in Changes
    BY <1>1, <1>T DEF EnqueueMutation, TypeOK
  <2>2. SUFFICES ASSUME NEW c \in Changes, c[1] \in Alone',
                        status'[c] \in {"pending", "in_flight", "failed"}
                 PROVE  c[2] = last'[c[1]]
    BY DEF NewestInv
  <2>3. e[1] \in Messages /\ e[2] \in FlagSets /\ c[1] \in Messages
    BY <2>1, ChangeParts
  <2>4. /\ last' = [last EXCEPT ![e[1]] = e[2]]
        /\ status' = [status EXCEPT ![e] = "pending"]
        /\ overlapped' = IF Busy(e[1]) THEN overlapped \cup {e[1]}
                                        ELSE overlapped
    BY <1>1 DEF EnqueueMutation
  <2>5. CASE c = e
    BY <1>T, <2>3, <2>4, <2>5 DEF TypeOK
  <2>6. CASE c # e
    <3>1. status'[c] = status[c] /\ c[1] \in Alone
      BY <1>T, <2>1, <2>2, <2>4, <2>6 DEF TypeOK, Alone
    <3>2. c[1] # e[1]
      <4> SUFFICES ASSUME c[1] = e[1] PROVE FALSE
        OBVIOUS
      <4>1. c \in Unsettled(e[1])
        BY <2>2, <3>1 DEF Unsettled
      <4>2. Busy(e[1])
        BY <4>1 DEF Busy
      <4> QED
        BY <4>2, <2>2, <2>4 DEF Alone
    <3> QED
      BY <1>T, <2>2, <2>3, <2>4, <3>1, <3>2 DEF NewestInv, TypeOK
  <2> QED
    BY <2>5, <2>6
<1>2. ASSUME NEW s \in Sessions, EnqueueFails(s)
      PROVE  NewestInv'
  <2>1. UNCHANGED <<status, last, overlapped>>
    BY <1>2 DEF EnqueueFails, server, mirror, queue, replay, history
  <2> QED
    BY <1>T, <2>1 DEF NewestInv, Alone
<1>3. ASSUME NEW s \in Sessions, NEW c \in Changes, SetFlags(s, c)
      PROVE  NewestInv'
  <2>1. UNCHANGED <<status, last, overlapped>>
    BY <1>3 DEF SetFlags, server, mirror, queue, replay, history
  <2> QED
    BY <1>T, <2>1 DEF NewestInv, Alone
<1>4. ASSUME NEW r \in Replayers, StartReplay(r)
      PROVE  NewestInv'
  <2>1. UNCHANGED <<status, last, overlapped>>
    BY <1>4 DEF StartReplay, server, mirror, queue, replay, history
  <2> QED
    BY <1>T, <2>1 DEF NewestInv, Alone
<1>5. ASSUME NEW r \in Replayers, ClaimDueMutations(r)
      PROVE  NewestInv'
  <2>1. \A c \in Changes : status'[c] \in {"in_flight", status[c]}
                              /\ (status'[c] # status[c] =>
                                    status[c] \in {"pending", "failed"})
    BY <1>5 DEF ClaimDueMutations, Oldest, Due
  <2>2. UNCHANGED <<last, overlapped>>
    BY <1>5 DEF ClaimDueMutations, history
  <2> QED
    BY <1>T, <2>1, <2>2 DEF NewestInv, Alone
<1>6. ASSUME NEW r \in Replayers, NEW c \in Changes, ApplyMutation(r, c)
      PROVE  NewestInv'
  <2>1. UNCHANGED <<status, last, overlapped>>
    BY <1>6 DEF ApplyMutation, queue, history
  <2> QED
    BY <1>T, <2>1 DEF NewestInv, Alone
<1>7. ASSUME NEW r \in Replayers, NEW c \in Changes, ApplyFails(r, c)
      PROVE  NewestInv'
  <2>1. UNCHANGED <<status, last, overlapped>>
    BY <1>7 DEF ApplyFails, queue, history
  <2> QED
    BY <1>T, <2>1 DEF NewestInv, Alone
<1>8. ASSUME NEW r \in Replayers, MutationSucceeded(r)
      PROVE  NewestInv'
  <2>1. \A c \in Changes : status'[c] \in {"succeeded", status[c]}
    BY <1>8, <1>T DEF MutationSucceeded, TypeOK
  <2>2. UNCHANGED <<last, overlapped>>
    BY <1>8 DEF MutationSucceeded, history
  <2> QED
    BY <1>T, <2>1, <2>2 DEF NewestInv, Alone
<1>9. ASSUME NEW r \in Replayers, MutationFailed(r)
      PROVE  NewestInv'
  <2> DEFINE e == hand[r]
  <2>1. e \in Changes
    BY <1>9, <1>T DEF MutationFailed, TypeOK
  <2>2. e[1] \in Alone => e[2] = last[e[1]]
    BY <1>T, <2>1 DEF HoldInv, Has
  <2>3. \A c \in Changes : c # e => status'[c] = status[c]
    BY <1>9, <1>T, <2>1 DEF MutationFailed, TypeOK
  <2>4. UNCHANGED <<last, overlapped>>
    BY <1>9 DEF MutationFailed, history
  <2> QED
    BY <1>T, <2>1, <2>2, <2>3, <2>4 DEF NewestInv, Alone
<1>10. ASSUME NEW r \in Replayers, ReplayInterrupted(r)
      PROVE  NewestInv'
  <2>1. UNCHANGED <<status, last, overlapped>>
    BY <1>10 DEF ReplayInterrupted, queue, history
  <2> QED
    BY <1>T, <2>1 DEF NewestInv, Alone
<1>11. ASSUME NEW c \in Changes, BackoffEnds(c)
      PROVE  NewestInv'
  <2>1. UNCHANGED <<status, last, overlapped>>
    BY <1>11 DEF BackoffEnds, server, mirror, queue, replay, history
  <2> QED
    BY <1>T, <2>1 DEF NewestInv, Alone
<1>12. ASSUME NEW c \in Changes, ReleaseStaleMutations(c)
      PROVE  NewestInv'
  <2>1. status[c] = "in_flight"
    BY <1>12 DEF ReleaseStaleMutations
  <2>2. \A d \in Changes : d # c => status'[d] = status[d]
    BY <1>12, <1>T DEF ReleaseStaleMutations, TypeOK
  <2>3. UNCHANGED <<last, overlapped>>
    BY <1>12 DEF ReleaseStaleMutations, history
  <2> QED
    BY <1>T, <2>1, <2>2, <2>3 DEF NewestInv, Alone
<1>13. ASSUME NEW m \in Messages, ReceiveFlags(m)
      PROVE  NewestInv'
  <2>1. UNCHANGED <<status, last, overlapped>>
    BY <1>13 DEF ReceiveFlags, server, mirror, queue, replay, history
  <2> QED
    BY <1>T, <2>1 DEF NewestInv, Alone
<1>14. ASSUME NEW m \in Messages, UpdateFlags(m)
      PROVE  NewestInv'
  <2>1. UNCHANGED <<status, last, overlapped>>
    BY <1>14 DEF UpdateFlags, server, mirror, queue, replay, history
  <2> QED
    BY <1>T, <2>1 DEF NewestInv, Alone
<1>15. ASSUME NEW m \in Messages, PassInterrupted(m)
      PROVE  NewestInv'
  <2>1. UNCHANGED <<status, last, overlapped>>
    BY <1>15 DEF PassInterrupted, server, mirror, queue, replay, history
  <2> QED
    BY <1>T, <2>1 DEF NewestInv, Alone
<1>16. ASSUME NEW m \in Messages, NEW f \in FlagSets, ChangeUpstream(m, f)
      PROVE  NewestInv'
  <2>1. UNCHANGED <<status, last, overlapped>>
    BY <1>16 DEF ChangeUpstream, server, mirror, queue, replay, history
  <2> QED
    BY <1>T, <2>1 DEF NewestInv, Alone
<1>17. CASE Deactivate
  <2>1. UNCHANGED <<status, last, overlapped>>
    BY <1>17 DEF Deactivate, server, mirror, queue, replay, history
  <2> QED
    BY <1>T, <2>1 DEF NewestInv, Alone
<1>18. CASE Activate
  <2>1. UNCHANGED <<status, last, overlapped>>
    BY <1>18 DEF Activate, server, mirror, queue, replay, history
  <2> QED
    BY <1>T, <2>1 DEF NewestInv, Alone
<1>19. CASE UNCHANGED vars
  <2>1. UNCHANGED <<status, last, overlapped>>
    BY <1>19 DEF vars, queue, history
  <2> QED
    BY <1>T, <2>1 DEF NewestInv, Alone
<1>20. QED
  BY <1>1, <1>2, <1>3, <1>4, <1>5, <1>6, <1>7, <1>8, <1>9, <1>10, <1>11,
     <1>12, <1>13, <1>14, <1>15, <1>16, <1>17, <1>18, <1>19 DEF Next,
     SessionStep, ReplayStep, SyncStep

\* HoldInv is kept: a claim takes what is not settled, a STORE that leaves the
\* message alone finds nothing of it with a replayer.
LEMMA HoldStep == IInv /\ [Next]_vars => HoldInv'
<1> SUFFICES ASSUME IInv, [Next]_vars PROVE HoldInv'
  OBVIOUS
<1>T. TypeOK /\ HoldInv /\ NewestInv
  BY DEF IInv
<1>S. /\ batch \in [Replayers -> SUBSET Changes]
      /\ hand \in [Replayers -> Changes \cup {None}]
      /\ replayer \in [Replayers -> ReplayerPhases]
      /\ pushed \in [Messages -> FlagSets \cup {NoFlags}]
      /\ last \in [Messages -> FlagSets \cup {NoFlags}]
      /\ \A r \in Replayers : replayer[r] \in {"applied", "refused"} <=> hand[r] # None
  BY <1>T DEF TypeOK
<1>D. ASSUME NEW r \in Replayers, UNCHANGED <<last, overlapped, pushed>>,
             \A q \in Replayers :
                /\ batch'[q] \subseteq batch[q]
                /\ hand'[q] = IF q = r THEN None ELSE hand[q]
                /\ q # r => replayer'[q] = replayer[q]
      PROVE  HoldInv'
  <2>1. \A c \in Changes, q \in Replayers : Has(q, c)' => Has(q, c)
    BY <1>D DEF Has
  <2>2. \A c \in Changes, q \in Replayers :
            hand'[q] = c => hand[q] = c /\ replayer'[q] = replayer[q]
    BY <1>D
  <2> QED
    BY <1>T, <1>D, <2>1, <2>2 DEF HoldInv, Alone
<1>1. ASSUME NEW s \in Sessions, EnqueueMutation(s)
      PROVE  HoldInv'
  <2> DEFINE e == storing[s]
  <2>1. e \in Changes
    BY <1>1, <1>T DEF EnqueueMutation, TypeOK
  <2>2. /\ UNCHANGED <<batch, hand, replayer, pushed>>
        /\ last' = [last EXCEPT ![e[1]] = e[2]]
        /\ overlapped' = IF Busy(e[1]) THEN overlapped \cup {e[1]}
                                        ELSE overlapped
    BY <1>1 DEF EnqueueMutation, replay
  <2>3. \A c \in Changes, r \in Replayers : Has(r, c)' <=> Has(r, c)
    BY <2>2 DEF Has
  <2>4. ASSUME NEW c \in Changes, NEW r \in Replayers, c[1] \in Alone', Has(r, c)
        PROVE  c[1] \in Alone /\ last'[c[1]] = last[c[1]]
    <3>1. c[1] \in Messages /\ e[1] \in Messages /\ c[1] \in Alone
      BY <2>1, <2>2, <2>4, ChangeParts DEF Alone
    <3>2. Claimed(c)
      BY <2>4 DEF Has, Claimed
    <3>3. Busy(c[1])
      BY <3>2 DEF Busy
    <3>4. c[1] # e[1]
      BY <2>2, <2>4, <3>3 DEF Alone
    <3> QED
      BY <1>S, <2>2, <3>1, <3>4
  <2> QED
    BY <1>T, <2>2, <2>3, <2>4 DEF HoldInv
<1>2. ASSUME NEW s \in Sessions, EnqueueFails(s)
      PROVE  HoldInv'
  <2>1. UNCHANGED <<batch, hand, replayer, last, overlapped, pushed>>
    BY <1>2 DEF EnqueueFails, server, mirror, queue, replay, history
  <2> QED
    BY <1>T, <2>1 DEF HoldInv, Has, Alone
<1>3. ASSUME NEW s \in Sessions, NEW c \in Changes, SetFlags(s, c)
      PROVE  HoldInv'
  <2>1. UNCHANGED <<batch, hand, replayer, last, overlapped, pushed>>
    BY <1>3 DEF SetFlags, server, mirror, queue, replay, history
  <2> QED
    BY <1>T, <2>1 DEF HoldInv, Has, Alone
<1>4. ASSUME NEW r \in Replayers, StartReplay(r)
      PROVE  HoldInv'
  <2>1. UNCHANGED <<batch, hand, last, overlapped, pushed>>
    BY <1>4 DEF StartReplay, server, mirror, queue, replay, history
  <2>2. \A q \in Replayers : replayer'[q] = "applied" => replayer[q] = "applied"
    BY <1>4, <1>S DEF StartReplay
  <2> QED
    BY <1>T, <2>1, <2>2 DEF HoldInv, Has, Alone
<1>5. ASSUME NEW r \in Replayers, ClaimDueMutations(r)
      PROVE  HoldInv'
  <2> DEFINE C == Oldest(Due)
  <2>1. C \subseteq Changes /\ \A c \in C : status[c] \in {"pending", "failed"}
    BY DEF Oldest, Due
  <2>2. /\ batch' = [batch EXCEPT ![r] = C]
        /\ UNCHANGED <<hand, last, overlapped, pushed>>
        /\ hand[r] = None
    BY <1>5, <1>S DEF ClaimDueMutations, history
  <2>3. \A q \in Replayers : q # r => batch'[q] = batch[q] /\ replayer'[q] = replayer[q]
    BY <1>5, <1>S DEF ClaimDueMutations
  <2>4. batch'[r] = C
    BY <2>2, <1>S
  <2>5. SUFFICES ASSUME NEW c \in Changes, NEW q \in Replayers, c[1] \in Alone,
                        Has(q, c)'
                 PROVE  /\ c[2] = last[c[1]]
                        /\ hand[q] = c /\ replayer'[q] = "applied"
                           /\ c[1] \notin Unpushed => pushed[c[1]] = c[2]
    BY <2>2 DEF HoldInv, Alone
  <2>6. CASE q = r
    <3>1. c \in C /\ hand[q] # c
      BY <2>2, <2>4, <2>5, <2>6 DEF Has
    <3> QED
      BY <1>T, <2>1, <2>5, <3>1 DEF NewestInv
  <2>7. CASE q # r
    <3>1. Has(q, c) /\ replayer'[q] = replayer[q]
      BY <2>2, <2>3, <2>5, <2>7 DEF Has
    <3> QED
      BY <1>T, <2>5, <3>1 DEF HoldInv
  <2> QED
    BY <2>6, <2>7
<1>6. ASSUME NEW r \in Replayers, NEW c \in Changes, ApplyMutation(r, c)
      PROVE  HoldInv'
  <2>1. /\ c \in batch[r] /\ c[1] \in Messages
        /\ UNCHANGED <<last, overlapped>>
        /\ batch' = [batch EXCEPT ![r] = @ \ {c}]
        /\ hand' = [hand EXCEPT ![r] = c]
        /\ replayer' = [replayer EXCEPT ![r] = "applied"]
    BY <1>6, ChangeParts DEF ApplyMutation
  <2>2. \A d \in Changes, q \in Replayers : Has(q, d)' => Has(q, d)
    BY <1>S, <2>1 DEF Has
  <2>3. \A m \in Messages :
            pushed'[m] = pushed[m] \/ (m = c[1] /\ pushed'[m] = c[2])
    BY <1>6, <1>S, <2>1 DEF ApplyMutation, Push
  <2>4. c[1] \notin Unpushed => pushed'[c[1]] = c[2]
    BY <1>6, <1>S, <2>1 DEF ApplyMutation, Push
  <2>5. c[1] \in Alone => c[2] = last[c[1]]
    BY <1>T, <2>1 DEF HoldInv, Has
  <2>6. SUFFICES ASSUME NEW d \in Changes, NEW q \in Replayers, d[1] \in Alone,
                        Has(q, d)'
                 PROVE  /\ d[2] = last[d[1]]
                        /\ hand'[q] = d /\ replayer'[q] = "applied"
                           /\ d[1] \notin Unpushed => pushed'[d[1]] = d[2]
    BY <2>1 DEF HoldInv, Alone
  <2>7. Has(q, d) /\ d[2] = last[d[1]]
    BY <1>T, <2>2, <2>6 DEF HoldInv
  <2>8. ASSUME hand'[q] = d, replayer'[q] = "applied", d[1] \notin Unpushed
        PROVE  pushed'[d[1]] = d[2]
    <3>1. CASE q = r
      BY <1>S, <2>1, <2>4, <2>8, <3>1
    <3>2. CASE q # r
      <4>1. hand[q] = d /\ replayer[q] = "applied"
        BY <1>S, <2>1, <2>8, <3>2
      <4>2. pushed[d[1]] = d[2]
        BY <1>T, <2>6, <2>7, <2>8, <4>1 DEF HoldInv
      <4>3. d[1] \in Messages
        BY ChangeParts
      <4> QED
        BY <2>3, <2>5, <2>6, <2>7, <4>2, <4>3
    <3> QED
      BY <3>1, <3>2
  <2> QED
    BY <2>7, <2>8
<1>7. ASSUME NEW r \in Replayers, NEW c \in Changes, ApplyFails(r, c)
      PROVE  HoldInv'
  <2>1. /\ c \in batch[r] /\ c[1] \in Messages
        /\ UNCHANGED <<last, overlapped>>
        /\ batch' = [batch EXCEPT ![r] = @ \ {c}]
        /\ hand' = [hand EXCEPT ![r] = c]
        /\ replayer' = [replayer EXCEPT ![r] = "refused"]
    BY <1>7, ChangeParts DEF ApplyFails
  <2>2. \A d \in Changes, q \in Replayers : Has(q, d)' => Has(q, d)
    BY <1>S, <2>1 DEF Has
  <2>3. \A m \in Messages :
            pushed'[m] = pushed[m] \/ (m = c[1] /\ pushed'[m] = c[2])
    BY <1>7, <1>S, <2>1 DEF ApplyFails, Push
  <2>5. c[1] \in Alone => c[2] = last[c[1]]
    BY <1>T, <2>1 DEF HoldInv, Has
  <2>6. SUFFICES ASSUME NEW d \in Changes, NEW q \in Replayers, d[1] \in Alone,
                        Has(q, d)'
                 PROVE  /\ d[2] = last[d[1]]
                        /\ hand'[q] = d /\ replayer'[q] = "applied"
                           /\ d[1] \notin Unpushed => pushed'[d[1]] = d[2]
    BY <2>1 DEF HoldInv, Alone
  <2>7. Has(q, d) /\ d[2] = last[d[1]]
    BY <1>T, <2>2, <2>6 DEF HoldInv
  <2>8. ASSUME hand'[q] = d, replayer'[q] = "applied", d[1] \notin Unpushed
        PROVE  pushed'[d[1]] = d[2]
    <3>1. CASE q = r
      BY <1>S, <2>1, <2>8, <3>1
    <3>2. CASE q # r
      <4>1. hand[q] = d /\ replayer[q] = "applied"
        BY <1>S, <2>1, <2>8, <3>2
      <4>2. pushed[d[1]] = d[2]
        BY <1>T, <2>6, <2>7, <2>8, <4>1 DEF HoldInv
      <4>3. d[1] \in Messages
        BY ChangeParts
      <4> QED
        BY <2>3, <2>5, <2>6, <2>7, <4>2, <4>3
    <3> QED
      BY <3>1, <3>2
  <2> QED
    BY <2>7, <2>8
<1>8. ASSUME NEW r \in Replayers, MutationSucceeded(r)
      PROVE  HoldInv'
  <2>1. UNCHANGED <<last, overlapped, pushed>>
    BY <1>8 DEF MutationSucceeded, history
  <2>2. \A q \in Replayers :
            /\ batch'[q] \subseteq batch[q]
            /\ hand'[q] = IF q = r THEN None ELSE hand[q]
            /\ q # r => replayer'[q] = replayer[q]
    BY <1>8, <1>S DEF MutationSucceeded, NextMutation
  <2> QED
    BY <1>D, <2>1, <2>2
<1>9. ASSUME NEW r \in Replayers, MutationFailed(r)
      PROVE  HoldInv'
  <2>1. UNCHANGED <<last, overlapped, pushed>>
    BY <1>9 DEF MutationFailed, history
  <2>2. \A q \in Replayers :
            /\ batch'[q] \subseteq batch[q]
            /\ hand'[q] = IF q = r THEN None ELSE hand[q]
            /\ q # r => replayer'[q] = replayer[q]
    BY <1>9, <1>S DEF MutationFailed, NextMutation, StopReplay
  <2> QED
    BY <1>D, <2>1, <2>2
<1>10. ASSUME NEW r \in Replayers, ReplayInterrupted(r)
      PROVE  HoldInv'
  <2>1. UNCHANGED <<last, overlapped, pushed>>
    BY <1>10 DEF ReplayInterrupted, history
  <2>2. \A q \in Replayers :
            /\ batch'[q] \subseteq batch[q]
            /\ hand'[q] = IF q = r THEN None ELSE hand[q]
            /\ q # r => replayer'[q] = replayer[q]
    BY <1>10, <1>S DEF ReplayInterrupted, StopReplay
  <2> QED
    BY <1>D, <2>1, <2>2
<1>11. ASSUME NEW c \in Changes, BackoffEnds(c)
      PROVE  HoldInv'
  <2>1. UNCHANGED <<batch, hand, replayer, last, overlapped, pushed>>
    BY <1>11 DEF BackoffEnds, server, mirror, queue, replay, history
  <2> QED
    BY <1>T, <2>1 DEF HoldInv, Has, Alone
<1>12. ASSUME NEW c \in Changes, ReleaseStaleMutations(c)
      PROVE  HoldInv'
  <2>1. UNCHANGED <<batch, hand, replayer, last, overlapped, pushed>>
    BY <1>12 DEF ReleaseStaleMutations, server, mirror, queue, replay, history
  <2> QED
    BY <1>T, <2>1 DEF HoldInv, Has, Alone
<1>13. ASSUME NEW m \in Messages, ReceiveFlags(m)
      PROVE  HoldInv'
  <2>1. UNCHANGED <<batch, hand, replayer, last, overlapped, pushed>>
    BY <1>13 DEF ReceiveFlags, server, mirror, queue, replay, history
  <2> QED
    BY <1>T, <2>1 DEF HoldInv, Has, Alone
<1>14. ASSUME NEW m \in Messages, UpdateFlags(m)
      PROVE  HoldInv'
  <2>1. UNCHANGED <<batch, hand, replayer, last, overlapped, pushed>>
    BY <1>14 DEF UpdateFlags, server, mirror, queue, replay, history
  <2> QED
    BY <1>T, <2>1 DEF HoldInv, Has, Alone
<1>15. ASSUME NEW m \in Messages, PassInterrupted(m)
      PROVE  HoldInv'
  <2>1. UNCHANGED <<batch, hand, replayer, last, overlapped, pushed>>
    BY <1>15 DEF PassInterrupted, server, mirror, queue, replay, history
  <2> QED
    BY <1>T, <2>1 DEF HoldInv, Has, Alone
<1>16. ASSUME NEW m \in Messages, NEW f \in FlagSets, ChangeUpstream(m, f)
      PROVE  HoldInv'
  <2>1. UNCHANGED <<batch, hand, replayer, last, overlapped, pushed>>
    BY <1>16 DEF ChangeUpstream, server, mirror, queue, replay, history
  <2> QED
    BY <1>T, <2>1 DEF HoldInv, Has, Alone
<1>17. CASE Deactivate
  <2>1. UNCHANGED <<batch, hand, replayer, last, overlapped, pushed>>
    BY <1>17 DEF Deactivate, server, mirror, queue, replay, history
  <2> QED
    BY <1>T, <2>1 DEF HoldInv, Has, Alone
<1>18. CASE Activate
  <2>1. UNCHANGED <<batch, hand, replayer, last, overlapped, pushed>>
    BY <1>18 DEF Activate, server, mirror, queue, replay, history
  <2> QED
    BY <1>T, <2>1 DEF HoldInv, Has, Alone
<1>19. CASE UNCHANGED vars
  <2>1. UNCHANGED <<batch, hand, replayer, last, overlapped, pushed>>
    BY <1>19 DEF vars, replay, history
  <2> QED
    BY <1>T, <2>1 DEF HoldInv, Has, Alone
<1>20. QED
  BY <1>1, <1>2, <1>3, <1>4, <1>5, <1>6, <1>7, <1>8, <1>9, <1>10, <1>11,
     <1>12, <1>13, <1>14, <1>15, <1>16, <1>17, <1>18, <1>19 DEF Next,
     SessionStep, ReplayStep, SyncStep

\* SoleChangeWins is kept.
LEMMA SoleStep == IInv /\ [Next]_vars => SoleChangeWins'
<1> SUFFICES ASSUME IInv, [Next]_vars PROVE SoleChangeWins'
  OBVIOUS
<1>T. TypeOK /\ HoldInv /\ NewestInv /\ SoleChangeWins
  BY DEF IInv
<1>S. /\ status \in [Changes -> Statuses]
      /\ pushed \in [Messages -> FlagSets \cup {NoFlags}]
      /\ last \in [Messages -> FlagSets \cup {NoFlags}]
      /\ hand \in [Replayers -> Changes \cup {None}]
      /\ batch \in [Replayers -> SUBSET Changes]
  BY <1>T DEF TypeOK
<1>1. ASSUME NEW s \in Sessions, EnqueueMutation(s)
      PROVE  SoleChangeWins'
  <2> DEFINE e == storing[s]
  <2>1. e \in Changes
    BY <1>1, <1>T DEF EnqueueMutation, TypeOK
  <2>2. e[1] \in Messages
    BY <2>1, ChangeParts
  <2>3. /\ pushed' = pushed
        /\ status' = [status EXCEPT ![e] = "pending"]
        /\ last' = [last EXCEPT ![e[1]] = e[2]]
        /\ overlapped \subseteq overlapped'
    BY <1>1 DEF EnqueueMutation
  <2>4. status'[e] = "pending"
    BY <1>S, <2>1, <2>3
  <2>5. \A m \in Messages : m # e[1] => last'[m] = last[m] /\ Unsettled(m)' = Unsettled(m)
    BY <1>S, <2>1, <2>3 DEF Unsettled
  <2>6. SUFFICES ASSUME NEW m \in Messages \ overlapped' PROVE NewestPushed(m)'
    BY DEF SoleChangeWins
  <2>7. CASE m = e[1]
    <3>1. \E c \in Changes : c[1] = m /\ status'[c] = "pending"
      BY <2>1, <2>4, <2>7
    <3> QED
      BY <3>1 DEF NewestPushed, Unsettled
  <2>8. CASE m # e[1]
    BY <1>T, <2>3, <2>5, <2>6, <2>8 DEF SoleChangeWins, NewestPushed
  <2> QED
    BY <2>7, <2>8
<1>2. ASSUME NEW s \in Sessions, EnqueueFails(s)
      PROVE  SoleChangeWins'
  <2>1. UNCHANGED <<status, last, overlapped, pushed>>
    BY <1>2 DEF EnqueueFails, server, mirror, queue, replay, history
  <2> QED
    BY <1>T, <2>1 DEF SoleChangeWins, NewestPushed, Unsettled
<1>3. ASSUME NEW s \in Sessions, NEW c \in Changes, SetFlags(s, c)
      PROVE  SoleChangeWins'
  <2>1. UNCHANGED <<status, last, overlapped, pushed>>
    BY <1>3 DEF SetFlags, server, mirror, queue, replay, history
  <2> QED
    BY <1>T, <2>1 DEF SoleChangeWins, NewestPushed, Unsettled
<1>4. ASSUME NEW r \in Replayers, StartReplay(r)
      PROVE  SoleChangeWins'
  <2>1. UNCHANGED <<status, last, overlapped, pushed>>
    BY <1>4 DEF StartReplay, server, mirror, queue, replay, history
  <2> QED
    BY <1>T, <2>1 DEF SoleChangeWins, NewestPushed, Unsettled
<1>5. ASSUME NEW r \in Replayers, ClaimDueMutations(r)
      PROVE  SoleChangeWins'
  <2>1. UNCHANGED <<last, overlapped, pushed>>
    BY <1>5 DEF ClaimDueMutations, history
  <2>2. \A d \in Changes :
            status'[d] \in {"pending", "in_flight", "failed"} <=>
                status[d] \in {"pending", "in_flight", "failed"}
    BY <1>5, <1>S DEF ClaimDueMutations, Oldest, Due
  <2>3. \A m \in Messages : Unsettled(m)' = Unsettled(m)
    BY <2>2 DEF Unsettled
  <2> QED
    BY <1>T, <2>1, <2>3 DEF SoleChangeWins, NewestPushed
<1>6. ASSUME NEW r \in Replayers, NEW c \in Changes, ApplyMutation(r, c)
      PROVE  SoleChangeWins'
  <2>1. UNCHANGED <<status, last, overlapped>>
    BY <1>6 DEF ApplyMutation, queue
  <2>2. c[1] \in Messages /\ \A m \in Messages : m # c[1] => pushed'[m] = pushed[m]
    BY <1>6, <1>S, ChangeParts DEF ApplyMutation, Push
  <2>3. SUFFICES ASSUME NEW m \in Messages \ overlapped PROVE NewestPushed(m)'
    BY <2>1 DEF SoleChangeWins
  <2>4. CASE m = c[1]
    <3>1. c[2] = last[m]
      BY <1>6, <1>T, <2>3, <2>4 DEF ApplyMutation, HoldInv, Has, Alone
    <3>2. pushed'[m] = pushed[m] \/ pushed'[m] = c[2]
      BY <1>6, <1>S, <2>2, <2>4 DEF ApplyMutation, Push
    <3> QED
      BY <1>T, <2>1, <2>3, <3>1, <3>2 DEF SoleChangeWins, NewestPushed, Unsettled
  <2>5. CASE m # c[1]
    BY <1>T, <2>1, <2>2, <2>3, <2>5 DEF SoleChangeWins, NewestPushed, Unsettled
  <2> QED
    BY <2>4, <2>5
<1>7. ASSUME NEW r \in Replayers, NEW c \in Changes, ApplyFails(r, c)
      PROVE  SoleChangeWins'
  <2>1. UNCHANGED <<status, last, overlapped>>
    BY <1>7 DEF ApplyFails, queue
  <2>2. c[1] \in Messages /\ \A m \in Messages : m # c[1] => pushed'[m] = pushed[m]
    BY <1>7, <1>S, ChangeParts DEF ApplyFails, Push
  <2>3. SUFFICES ASSUME NEW m \in Messages \ overlapped PROVE NewestPushed(m)'
    BY <2>1 DEF SoleChangeWins
  <2>4. CASE m = c[1]
    <3>1. c[2] = last[m]
      BY <1>7, <1>T, <2>3, <2>4 DEF ApplyFails, HoldInv, Has, Alone
    <3>2. pushed'[m] = pushed[m] \/ pushed'[m] = c[2]
      BY <1>7, <1>S, <2>2, <2>4 DEF ApplyFails, Push
    <3> QED
      BY <1>T, <2>1, <2>3, <3>1, <3>2 DEF SoleChangeWins, NewestPushed, Unsettled
  <2>5. CASE m # c[1]
    BY <1>T, <2>1, <2>2, <2>3, <2>5 DEF SoleChangeWins, NewestPushed, Unsettled
  <2> QED
    BY <2>4, <2>5
<1>8. ASSUME NEW r \in Replayers, MutationSucceeded(r)
      PROVE  SoleChangeWins'
  <2> DEFINE e == hand[r]
  <2>1. e \in Changes /\ e[1] \in Messages
    BY <1>8, <1>T, ChangeParts DEF MutationSucceeded, TypeOK
  <2>2. UNCHANGED <<last, overlapped, pushed>>
    BY <1>8 DEF MutationSucceeded, history
  <2>3. \A c \in Changes : c # e => status'[c] = status[c]
    BY <1>8, <1>S, <2>1 DEF MutationSucceeded
  <2>4. SUFFICES ASSUME NEW m \in Messages \ overlapped PROVE NewestPushed(m)'
    BY <2>2 DEF SoleChangeWins
  <2>5. CASE m # e[1]
    <3>1. Unsettled(m)' = Unsettled(m)
      BY <2>3, <2>5 DEF Unsettled
    <3> QED
      BY <1>T, <2>2, <2>4, <3>1 DEF SoleChangeWins, NewestPushed
  <2>6. CASE m = e[1]
    <3>1. e[1] \in Alone /\ Has(r, e)
      BY <2>4, <2>6 DEF Alone, Has
    <3>2. replayer[r] = "applied"
      BY <1>8 DEF MutationSucceeded
    <3>3. /\ e[2] = last[e[1]]
          /\ e[1] \notin Unpushed => pushed[e[1]] = e[2]
      BY <1>T, <2>1, <3>1, <3>2 DEF HoldInv
    <3> QED
      BY <2>2, <2>6, <3>3 DEF NewestPushed
  <2> QED
    BY <2>5, <2>6
<1>9. ASSUME NEW r \in Replayers, MutationFailed(r)
      PROVE  SoleChangeWins'
  <2> DEFINE e == hand[r]
  <2>1. e \in Changes /\ e[1] \in Messages
    BY <1>9, <1>T, ChangeParts DEF MutationFailed, TypeOK
  <2>2. UNCHANGED <<last, overlapped, pushed>>
    BY <1>9 DEF MutationFailed, history
  <2>3. \A c \in Changes : c # e => status'[c] = status[c]
    BY <1>9, <1>S, <2>1 DEF MutationFailed
  <2>4. SUFFICES ASSUME NEW m \in Messages \ overlapped PROVE NewestPushed(m)'
    BY <2>2 DEF SoleChangeWins
  <2>5. CASE m # e[1]
    <3>1. Unsettled(m)' = Unsettled(m)
      BY <2>3, <2>5 DEF Unsettled
    <3> QED
      BY <1>T, <2>2, <2>4, <3>1 DEF SoleChangeWins, NewestPushed
  <2>6. CASE m = e[1]
    <3>1. status'[e] \in {"pending", "failed"}
      BY <1>9, <1>S, <2>1 DEF MutationFailed
    <3>2. e \in Unsettled(m)'
      BY <2>1, <2>6, <3>1 DEF Unsettled
    <3> QED
      BY <3>2 DEF NewestPushed
  <2> QED
    BY <2>5, <2>6
<1>10. ASSUME NEW r \in Replayers, ReplayInterrupted(r)
      PROVE  SoleChangeWins'
  <2>1. UNCHANGED <<status, last, overlapped, pushed>>
    BY <1>10 DEF ReplayInterrupted, server, mirror, queue, replay, history
  <2> QED
    BY <1>T, <2>1 DEF SoleChangeWins, NewestPushed, Unsettled
<1>11. ASSUME NEW c \in Changes, BackoffEnds(c)
      PROVE  SoleChangeWins'
  <2>1. UNCHANGED <<status, last, overlapped, pushed>>
    BY <1>11 DEF BackoffEnds, server, mirror, queue, replay, history
  <2> QED
    BY <1>T, <2>1 DEF SoleChangeWins, NewestPushed, Unsettled
<1>12. ASSUME NEW c \in Changes, ReleaseStaleMutations(c)
      PROVE  SoleChangeWins'
  <2>1. UNCHANGED <<last, overlapped, pushed>>
    BY <1>12 DEF ReleaseStaleMutations, history
  <2>2. \A d \in Changes :
            status'[d] \in {"pending", "in_flight", "failed"} <=>
                status[d] \in {"pending", "in_flight", "failed"}
    BY <1>12, <1>S DEF ReleaseStaleMutations
  <2>3. \A m \in Messages : Unsettled(m)' = Unsettled(m)
    BY <2>2 DEF Unsettled
  <2> QED
    BY <1>T, <2>1, <2>3 DEF SoleChangeWins, NewestPushed
<1>13. ASSUME NEW m \in Messages, ReceiveFlags(m)
      PROVE  SoleChangeWins'
  <2>1. UNCHANGED <<status, last, overlapped, pushed>>
    BY <1>13 DEF ReceiveFlags, server, mirror, queue, replay, history
  <2> QED
    BY <1>T, <2>1 DEF SoleChangeWins, NewestPushed, Unsettled
<1>14. ASSUME NEW m \in Messages, UpdateFlags(m)
      PROVE  SoleChangeWins'
  <2>1. UNCHANGED <<status, last, overlapped, pushed>>
    BY <1>14 DEF UpdateFlags, server, mirror, queue, replay, history
  <2> QED
    BY <1>T, <2>1 DEF SoleChangeWins, NewestPushed, Unsettled
<1>15. ASSUME NEW m \in Messages, PassInterrupted(m)
      PROVE  SoleChangeWins'
  <2>1. UNCHANGED <<status, last, overlapped, pushed>>
    BY <1>15 DEF PassInterrupted, server, mirror, queue, replay, history
  <2> QED
    BY <1>T, <2>1 DEF SoleChangeWins, NewestPushed, Unsettled
<1>16. ASSUME NEW m \in Messages, NEW f \in FlagSets, ChangeUpstream(m, f)
      PROVE  SoleChangeWins'
  <2>1. UNCHANGED <<status, last, overlapped, pushed>>
    BY <1>16 DEF ChangeUpstream, server, mirror, queue, replay, history
  <2> QED
    BY <1>T, <2>1 DEF SoleChangeWins, NewestPushed, Unsettled
<1>17. CASE Deactivate
  <2>1. UNCHANGED <<status, last, overlapped, pushed>>
    BY <1>17 DEF Deactivate, server, mirror, queue, replay, history
  <2> QED
    BY <1>T, <2>1 DEF SoleChangeWins, NewestPushed, Unsettled
<1>18. CASE Activate
  <2>1. UNCHANGED <<status, last, overlapped, pushed>>
    BY <1>18 DEF Activate, server, mirror, queue, replay, history
  <2> QED
    BY <1>T, <2>1 DEF SoleChangeWins, NewestPushed, Unsettled
<1>19. CASE UNCHANGED vars
  <2>1. UNCHANGED <<status, last, overlapped, pushed>>
    BY <1>19 DEF vars, queue, history
  <2> QED
    BY <1>T, <2>1 DEF SoleChangeWins, NewestPushed, Unsettled
<1>20. QED
  BY <1>1, <1>2, <1>3, <1>4, <1>5, <1>6, <1>7, <1>8, <1>9, <1>10, <1>11,
     <1>12, <1>13, <1>14, <1>15, <1>16, <1>17, <1>18, <1>19 DEF Next,
     SessionStep, ReplayStep, SyncStep

\* The invariant holds at the start.
LEMMA InitInv == Init => IInv
<1> SUFFICES ASSUME Init PROVE IInv
  OBVIOUS
<1>1. TypeOK
  BY TypeInit
<1>2. \A c \in Changes, r \in Replayers : ~Has(r, c)
  BY DEF Init, Has
<1>3. HoldInv /\ NewestInv
  BY <1>2 DEF Init, HoldInv, NewestInv
<1>4. SoleChangeWins
  BY DEF Init, SoleChangeWins, NewestPushed
<1> QED
  BY <1>1, <1>3, <1>4 DEF IInv

\* A message whose changes do not overlap ends on the server with the flags of
\* its newest change once they are settled, whatever was retried, released under
\* a replayer that still had it, or pushed twice, for any number of replicas.
THEOREM SoleChangesWin == Spec => []SoleChangeWins
<1>1. IInv /\ [Next]_vars => IInv'
  BY TypeStep, HoldStep, NewestStep, SoleStep DEF IInv
<1>2. IInv => SoleChangeWins
  BY DEF IInv
<1> QED
  BY InitInv, <1>1, <1>2, PTL DEF Spec

=============================================================================
