------------------------- MODULE MetadataPassProofs -------------------------
(***************************************************************************)
(* Proofs about MetadataPass, for every value of its constants: the type   *)
(* invariant, the four properties of checkpoints, rows and flags that      *)
(* follow from the inductive invariant IInv, and that the pass implements  *)
(* RowFeed.                                                                *)
(***************************************************************************)
EXTENDS MetadataPass, FiniteSetTheorems, TLAPS

USE ConstantsAssumption

\* Sets of UIDs are finite and have a cardinality: what CountMailboxMessages
\* and the NumMessages of SELECT rest on.
LEMMA UIDSetsFinite ==
    ASSUME NEW S \in SUBSET UIDs
    PROVE  IsFiniteSet(S) /\ Cardinality(S) \in Nat
<1>1. IsFiniteSet(UIDs)
  BY FS_Interval DEF UIDs
<1>2. IsFiniteSet(S)
  BY <1>1, FS_Subset
<1>3. QED
  BY <1>2, FS_CardinalityType

\* Maps made from maps are maps.
LEMMA OverlayType ==
    ASSUME NEW f, NEW g, IsStampMap(f), IsStampMap(g)
    PROVE  IsStampMap(Overlay(f, g))
BY DEF IsStampMap, Overlay

\* Removing UIDs from a map leaves a map.
LEMMA DropType ==
    ASSUME NEW f, NEW S, IsStampMap(f)
    PROVE  IsStampMap(Drop(f, S))
BY DEF IsStampMap, Drop

\* The empty map is a map.
LEMMA EmptyMapType == IsStampMap(EmptyMap)
BY DEF IsStampMap, EmptyMap

\* The server's steps keep the types.
LEMMA ServerStepType == TypeOK /\ ServerStep => TypeOK'
<1> SUFFICES ASSUME TypeOK, ServerStep PROVE TypeOK'
  OBVIOUS
<1> USE DEF TypeOK
<1>1. CASE Deliver
  <2>1. IsStampMap([u \in {uidNext} |-> [epoch |-> uidValidity,
                                         modSeq |-> highestModSeq + 1]])
    BY <1>1 DEF Deliver, IsStampMap, UIDs, Stamp
  <2>2. IsStampMap(msgs')
    BY <1>1, <2>1, OverlayType DEF Deliver
  <2>3. QED
    BY <1>1, <2>2 DEF Deliver, local, pass, IsStampMap
<1>2. ASSUME NEW u \in DOMAIN msgs, ChangeFlags(u) PROVE TypeOK'
  <2>1. IsStampMap(msgs')
    BY <1>2 DEF ChangeFlags, IsStampMap, Stamp
  <2>2. QED
    BY <1>2, <2>1 DEF ChangeFlags, local, pass, IsStampMap
<1>3. ASSUME NEW u \in DOMAIN msgs, Expunge(u) PROVE TypeOK'
  <2>1. IsStampMap(msgs')
    BY <1>3, DropType DEF Expunge
  <2>2. highestModSeq' \in Nat \ {0}
    BY <1>3 DEF Expunge
  <2>3. QED
    BY <1>3, <2>1, <2>2 DEF Expunge, local, pass, IsStampMap
<1>4. CASE Renumber
  <2>1. PICK n \in 0..MaxUID, h \in {1, highestModSeq} :
            /\ msgs' = [u \in 1..n |-> [epoch |-> uidValidity + 1,
                                        modSeq |-> h]]
            /\ uidNext' = n + 1
            /\ highestModSeq' = h
    BY <1>4 DEF Renumber
  <2>2. IsStampMap(msgs')
    <3>1. 1..n \subseteq UIDs
      BY DEF UIDs
    <3>2. [epoch |-> uidValidity + 1, modSeq |-> h] \in Stamp
      BY DEF Stamp
    <3>3. QED
      BY <2>1, <3>1, <3>2 DEF IsStampMap
  <2>3. uidNext' \in 1..(MaxUID + 1) /\ highestModSeq' \in Nat \ {0}
    BY <2>1
  <2>4. /\ uidValidity' = uidValidity + 1
        /\ UNCHANGED <<local, pc, pass, faults>>
    BY <1>4 DEF Renumber
  <2>5. QED
    BY <2>2, <2>3, <2>4 DEF local, pass, IsStampMap
<1>5. QED
  BY <1>1, <1>2, <1>3, <1>4 DEF ServerStep

\* The values a pass ends with have the right types.
LEMMA ClearPassType ==
    ASSUME ClearPass
    PROVE  /\ box' \in Checkpoint /\ selected' \in Selection
           /\ known' \in SUBSET UIDs /\ todo' \in SUBSET UIDs
           /\ IsStampMap(updates') /\ IsStampMap(batch')
           /\ highestSeen' \in Nat /\ present' \in SUBSET UIDs
BY EmptyMapType DEF ClearPass, NewCheckpoint, NoSelection, Checkpoint, Selection

\* The steps of a pass keep the types.
LEMMA PassStepType == TypeOK /\ PassStep => TypeOK'
<1> SUFFICES ASSUME TypeOK, PassStep PROVE TypeOK'
  OBVIOUS
<1> USE DEF TypeOK, Phases
<1>1. CASE UpsertMailbox
  BY <1>1 DEF UpsertMailbox, server, local, IsStampMap
<1>2. CASE SelectMailbox
  <2>1. Cardinality(DOMAIN msgs) \in Nat
    BY UIDSetsFinite DEF IsStampMap
  <2>2. selected' \in Selection
    BY <1>2, <2>1 DEF SelectMailbox, Selection
  <2>3. QED
    BY <1>2, <2>2 DEF SelectMailbox, server, local, IsStampMap
<1>3. CASE ResetForUIDValidityChange
  <2>1. Cardinality(DOMAIN row) \in Nat
    BY UIDSetsFinite DEF IsStampMap
  <2>2. cp' \in Checkpoint
    BY <1>3 DEF ResetForUIDValidityChange, Checkpoint, Selection
  <2>3. IsStampMap(row')
    BY <1>3, EmptyMapType DEF ResetForUIDValidityChange
  <2>4. QED
    BY <1>3, <2>1, <2>2, <2>3 DEF ResetForUIDValidityChange, server, IsStampMap
<1>4. CASE SkipUnchanged
  BY <1>4, ClearPassType DEF SkipUnchanged, server, local, IsStampMap
<1>5. CASE Enumerate
  BY <1>5 DEF Enumerate, server, local, pass, IsStampMap
<1>6. CASE FetchChangedSince
  <2>1. IsStampMap(updates')
    BY <1>6 DEF FetchChangedSince, IsStampMap
  <2>2. QED
    BY <1>6, <2>1 DEF FetchChangedSince, server, local, IsStampMap
<1>7. ASSUME NEW u \in DOMAIN updates, UpdateFlags(u) PROVE TypeOK'
  <2>1. IsStampMap(updates')
    BY <1>7, DropType DEF UpdateFlags
  <2>2. updates[u].modSeq \in Nat
    BY <1>7 DEF IsStampMap, Stamp
  <2>3. IsStampMap(row')
    BY <1>7, <2>2 DEF UpdateFlags, IsStampMap, Stamp
  <2>4. QED
    BY <1>7, <2>1, <2>3 DEF UpdateFlags, server, IsStampMap
<1>8. CASE UpdatesApplied
  BY <1>8 DEF UpdatesApplied, server, local, pass, IsStampMap
<1>9. CASE SearchAllUIDs
  BY <1>9 DEF SearchAllUIDs, server, local, IsStampMap, Checkpoint
<1>10. CASE FetchChunk
  <2> DEFINE got == NextChunk \cap DOMAIN msgs
  <2>1. got \subseteq UIDs
    BY DEF IsStampMap
  <2>2. IsStampMap(updates')
    BY <1>10, <2>1 DEF FetchChunk, IsStampMap
  <2>3. IsStampMap(batch')
    BY <1>10, <2>1 DEF FetchChunk, IsStampMap
  <2>4. highestSeen' \in Nat
    BY <1>10, <2>1 DEF FetchChunk, UIDs
  <2>5. QED
    BY <1>10, <2>2, <2>3, <2>4 DEF FetchChunk, server, local, IsStampMap
<1>11. CASE UpsertMetadataBatch
  <2>1. IsStampMap(row')
    BY <1>11, OverlayType DEF UpsertMetadataBatch
  <2>2. IsStampMap(batch')
    BY <1>11, EmptyMapType DEF UpsertMetadataBatch
  <2>3. QED
    BY <1>11, <2>1, <2>2 DEF UpsertMetadataBatch, server, IsStampMap
<1>12. CASE SaveMidPassCheckpoint
  <2>1. cp' \in Checkpoint
    BY <1>12 DEF SaveMidPassCheckpoint, Checkpoint, Selection, Greatest
  <2>2. QED
    BY <1>12, <2>1 DEF SaveMidPassCheckpoint, server, pass, IsStampMap
<1>13. CASE SearchForDeletions
  BY <1>13 DEF SearchForDeletions, server, local, IsStampMap
<1>14. CASE DeleteMissingUIDs
  <2>1. IsStampMap(row')
    BY <1>14, DropType DEF DeleteMissingUIDs
  <2>2. QED
    BY <1>14, <2>1 DEF DeleteMissingUIDs, server, pass, IsStampMap
<1>15. CASE SaveFullCheckpoint
  <2>1. cp' \in Checkpoint
    BY <1>15 DEF SaveFullCheckpoint, Checkpoint, Selection, Greatest
  <2>2. QED
    BY <1>15, <2>1, ClearPassType DEF SaveFullCheckpoint, server, IsStampMap
<1>16. QED
  BY <1>1, <1>2, <1>3, <1>4, <1>5, <1>6, <1>7, <1>8, <1>9, <1>10, <1>11, <1>12,
     <1>13, <1>14, <1>15 DEF PassStep

\* So do its failures.
LEMMA FaultType == TypeOK /\ (ReconcileFails \/ Interrupt) => TypeOK'
BY ClearPassType DEF TypeOK, Phases, ReconcileFails, Interrupt, server, local,
                     pass, IsStampMap

\* The initial states have the right types.
LEMMA InitType == Init => TypeOK
<1> SUFFICES ASSUME Init PROVE TypeOK
  OBVIOUS
<1>1. PICK n \in 0..MaxUID : /\ msgs = [u \in 1..n |-> [epoch |-> 1, modSeq |-> 1]]
                             /\ uidNext = n + 1
  BY DEF Init
<1>2. IsStampMap(msgs)
  <2>1. 1..n \subseteq UIDs
    BY DEF UIDs
  <2>2. [epoch |-> 1, modSeq |-> 1] \in Stamp
    BY DEF Stamp
  <2>3. QED
    BY <1>1, <2>1, <2>2 DEF IsStampMap
<1>3. NewCheckpoint \in Checkpoint /\ NoSelection \in Selection
  BY DEF NewCheckpoint, Checkpoint, NoSelection, Selection
<1>4. QED
  BY <1>1, <1>2, <1>3, EmptyMapType DEF Init, TypeOK, Phases

\* Every behaviour of the pass, whatever the server's clients do and wherever
\* it is interrupted, keeps its variables in their types.
THEOREM TypeCorrect == Spec => []TypeOK
<1>1. TypeOK /\ [Next]_vars => TypeOK'
  <2> SUFFICES ASSUME TypeOK, [Next]_vars PROVE TypeOK'
    OBVIOUS
  <2>1. CASE UNCHANGED vars
    BY <2>1 DEF vars, server, local, pass, TypeOK, IsStampMap
  <2>2. QED
    BY <2>1, ServerStepType, PassStepType, FaultType DEF Next
<1>2. QED
  BY InitType, <1>1, PTL DEF Spec

-----------------------------------------------------------------------------
(* The inductive invariant *)

\* The server numbers messages below UIDNEXT, under its current UIDVALIDITY,
\* and no change is ahead of HIGHESTMODSEQ.
ServerInv ==
    \A u \in DOMAIN msgs : /\ u < uidNext
                           /\ msgs[u].epoch = uidValidity
                           /\ msgs[u].modSeq <= highestModSeq

\* The checkpoint never runs ahead of the server it describes.
CheckpointInv ==
    /\ cp.uidValidity <= uidValidity
    /\ cp.uidValidity = 0 => cp.highestModSeq = 0
    /\ CurrentEpoch => cp.highestModSeq <= highestModSeq
    /\ CurrentEpoch /\ cp.highestModSeq > 0 => cp.uidNext <= uidNext
    /\ ~CondStore => cp.highestModSeq = 0

InSelected == pc \notin {"idle", "select"}

\* What SELECT returned lies between the checkpoint and the server.
SelectionInv ==
    /\ pc \in {"select", "reset", "check"} => box = cp
    /\ pc # "idle" => box.highestModSeq = cp.highestModSeq
    /\ InSelected => /\ selected.uidValidity = uidValidity
                     /\ selected.uidNext <= uidNext
                     /\ selected.highestModSeq <= highestModSeq
                     /\ CondStore <=> selected.highestModSeq > 0
    /\ InSelected /\ pc # "reset" => cp.uidValidity \in {0, uidValidity}
    /\ pc = "reset" => cp.uidValidity \notin {0, uidValidity}
    /\ InSelected /\ CurrentEpoch /\ cp.highestModSeq > 0 =>
          /\ cp.uidNext <= selected.uidNext
          /\ cp.highestModSeq <= selected.highestModSeq

\* A row recorded under the current UIDVALIDITY has a UID already handed out.
RowInv ==
    /\ \A u \in DOMAIN row : /\ row[u].epoch <= uidValidity
                             /\ row[u].epoch = uidValidity => u < uidNext
    /\ \A u \in DOMAIN batch : batch[u].epoch = uidValidity /\ u < uidNext
    /\ pc \notin {"applyChunk", "record"} => DOMAIN batch = {}

Fetching == {"chunks", "applyChunk", "record", "midCheckpoint"}

\* Every message SELECT could see is recorded, in hand or still to be fetched.
EnumerationInv ==
    /\ pc \in Fetching => known \subseteq DOMAIN row
    /\ pc \in {"delete", "final"} => todo = {}
    /\ pc \in Fetching \cup {"delete", "final"} =>
          \A u \in DOMAIN msgs : u < selected.uidNext =>
              u \in DOMAIN row \cup todo \cup DOMAIN batch
    /\ pc = "delete" =>
          \A u \in DOMAIN msgs :
              u < selected.uidNext
              \/ (u \in DOMAIN row /\ row[u].epoch = uidValidity)
                 => u \in present

\* A later pass applies every flag change between the stored sequence and the
\* one SELECT returned.
FlagInv ==
    /\ \A u \in DOMAIN batch \cap DOMAIN msgs :
          msgs[u].modSeq <= selected.highestModSeq =>
              batch[u].modSeq = msgs[u].modSeq
    /\ pc # "applyChanged" /\ (CondStore \/ pc # "applyChunk") =>
          DOMAIN updates = {}
    /\ CondStore /\ pc = "applyChanged" =>
          /\ \A u \in DOMAIN updates \cap DOMAIN msgs :
                /\ msgs[u].modSeq > box.highestModSeq
                /\ msgs[u].modSeq <= selected.highestModSeq =>
                      updates[u].modSeq = msgs[u].modSeq
          /\ \A u \in DOMAIN msgs \cap DOMAIN row :
                /\ box.highestModSeq < msgs[u].modSeq
                /\ msgs[u].modSeq <= selected.highestModSeq
                => \/ row[u].modSeq = msgs[u].modSeq
                   \/ u \in DOMAIN updates
    /\ /\ CondStore
       /\ box.highestModSeq > 0
       /\ pc \in Fetching \cup {"search", "delete", "final"}
       => \A u \in DOMAIN msgs \cap DOMAIN row :
             /\ box.highestModSeq < msgs[u].modSeq
             /\ msgs[u].modSeq <= selected.highestModSeq
             => row[u].modSeq = msgs[u].modSeq

IInv == /\ TypeOK
        /\ ServerInv
        /\ CheckpointInv
        /\ SelectionInv
        /\ RowInv
        /\ EnumerationInv
        /\ NoMissedMessage
        /\ FlagInv

\* What a delivery and a renumbering do to the mailbox, in a form the steps
\* below can use.
DeliverEffect ==
    /\ DOMAIN msgs' = DOMAIN msgs \cup {uidNext}
    /\ msgs'[uidNext] = [epoch |-> uidValidity, modSeq |-> highestModSeq + 1]
    /\ \A u \in DOMAIN msgs : u # uidNext => msgs'[u] = msgs[u]
    /\ uidNext' = uidNext + 1
    /\ highestModSeq' = highestModSeq + 1
    /\ UNCHANGED <<uidValidity, local, pc, pass, faults>>

RenumberEffect ==
    /\ pc \in {"idle", "select"}
    /\ uidValidity' = uidValidity + 1
    /\ \A u \in DOMAIN msgs' : /\ u < uidNext'
                               /\ msgs'[u].epoch = uidValidity'
                               /\ msgs'[u].modSeq <= highestModSeq'
    /\ \A u \in UIDs : u < uidNext' => u \in DOMAIN msgs'
    /\ UNCHANGED <<local, pc, pass, faults>>

\* What a step of the server's other clients can change, in one place.
LEMMA ServerEffects ==
    ASSUME TypeOK
    PROVE  (Deliver => DeliverEffect) /\ (Renumber => RenumberEffect)
<1>1. ASSUME Deliver PROVE DeliverEffect
  <2> DEFINE new == [u \in {uidNext} |-> [epoch |-> uidValidity,
                                          modSeq |-> highestModSeq + 1]]
  <2>1. /\ DOMAIN new = {uidNext}
        /\ new[uidNext] = [epoch |-> uidValidity, modSeq |-> highestModSeq + 1]
    OBVIOUS
  <2>2. msgs' = Overlay(msgs, new)
    BY <1>1 DEF Deliver
  <2> HIDE DEF new
  <2>3. QED
    BY <1>1, <2>1, <2>2 DEF Overlay, Deliver, DeliverEffect
<1>2. ASSUME Renumber PROVE RenumberEffect
  <2>1. PICK n \in 0..MaxUID, h \in {1, highestModSeq} :
            /\ msgs' = [u \in 1..n |-> [epoch |-> uidValidity + 1,
                                        modSeq |-> h]]
            /\ uidNext' = n + 1
            /\ highestModSeq' = h
    BY <1>2 DEF Renumber
  <2>2. h \in Nat
    BY DEF TypeOK
  <2>3. /\ DOMAIN msgs' = 1..n
        /\ \A u \in 1..n : /\ msgs'[u].epoch = uidValidity + 1
                           /\ msgs'[u].modSeq = h
    BY <2>1
  <2>4. QED
    BY <1>2, <2>1, <2>2, <2>3 DEF Renumber, RenumberEffect, UIDs
<1>3. QED
  BY <1>1, <1>2


\* Only the server's own steps touch the server.
LEMMA ServerInvStep == IInv /\ Next => ServerInv'
<1> SUFFICES ASSUME IInv, Next PROVE ServerInv'
  OBVIOUS
<1>0. (Deliver => DeliverEffect) /\ (Renumber => RenumberEffect)
  BY ServerEffects DEF IInv
<1> USE DEF IInv, TypeOK, ServerInv, IsStampMap, Stamp
<1>1. CASE Deliver
  BY <1>1, <1>0 DEF DeliverEffect, local, pass, UIDs
<1>2. ASSUME NEW u \in DOMAIN msgs, ChangeFlags(u) PROVE ServerInv'
  BY <1>2 DEF ChangeFlags, server, local, pass
<1>3. ASSUME NEW u \in DOMAIN msgs, Expunge(u) PROVE ServerInv'
  BY <1>3 DEF Expunge, server, local, pass, Drop
<1>4. CASE Renumber
  BY <1>4, <1>0 DEF RenumberEffect, local, pass
<1>5. CASE UpsertMailbox
  BY <1>5 DEF UpsertMailbox, server, local, pass
<1>6. CASE SelectMailbox
  BY <1>6 DEF SelectMailbox, server, local, pass
<1>7. CASE ResetForUIDValidityChange
  BY <1>7 DEF ResetForUIDValidityChange, server, local, pass
<1>8. CASE SkipUnchanged
  BY <1>8 DEF SkipUnchanged, server, local, pass
<1>9. CASE Enumerate
  BY <1>9 DEF Enumerate, server, local, pass
<1>10. CASE FetchChangedSince
  BY <1>10 DEF FetchChangedSince, server, local, pass
<1>11. ASSUME NEW u \in DOMAIN updates, UpdateFlags(u) PROVE ServerInv'
  BY <1>11 DEF UpdateFlags, server, local, pass
<1>12. CASE UpdatesApplied
  BY <1>12 DEF UpdatesApplied, server, local, pass
<1>13. CASE SearchAllUIDs
  BY <1>13 DEF SearchAllUIDs, server, local, pass
<1>14. CASE FetchChunk
  BY <1>14 DEF FetchChunk, server, local, pass
<1>15. CASE UpsertMetadataBatch
  BY <1>15 DEF UpsertMetadataBatch, server, local, pass
<1>16. CASE SaveMidPassCheckpoint
  BY <1>16 DEF SaveMidPassCheckpoint, server, local, pass
<1>17. CASE SearchForDeletions
  BY <1>17 DEF SearchForDeletions, server, local, pass
<1>18. CASE DeleteMissingUIDs
  BY <1>18 DEF DeleteMissingUIDs, server, local, pass
<1>19. CASE SaveFullCheckpoint
  BY <1>19 DEF SaveFullCheckpoint, server, local, pass
<1>20. CASE ReconcileFails
  BY <1>20 DEF ReconcileFails, server, local, pass
<1>21. CASE Interrupt
  BY <1>21 DEF Interrupt, server, local, pass
<1>22. QED
  BY <1>1, <1>2, <1>3, <1>4, <1>5, <1>6, <1>7, <1>8, <1>9, <1>10, <1>11,
     <1>12, <1>13, <1>14, <1>15, <1>16, <1>17, <1>18, <1>19, <1>20, <1>21
     DEF Next, ServerStep, PassStep

\* The checkpoint is only ever moved to what SELECT returned.
LEMMA CheckpointInvStep == IInv /\ Next => CheckpointInv'
<1> SUFFICES ASSUME IInv, Next PROVE CheckpointInv'
  OBVIOUS
<1>0. (Deliver => DeliverEffect) /\ (Renumber => RenumberEffect)
  BY ServerEffects DEF IInv
<1> USE DEF IInv, TypeOK, CheckpointInv, SelectionInv, CurrentEpoch, InSelected,
            Checkpoint, Selection
<1>1. CASE Deliver
  BY <1>1, <1>0 DEF DeliverEffect, local, pass, UIDs
<1>2. ASSUME NEW u \in DOMAIN msgs, ChangeFlags(u) PROVE CheckpointInv'
  BY <1>2 DEF ChangeFlags, server, local, pass
<1>3. ASSUME NEW u \in DOMAIN msgs, Expunge(u) PROVE CheckpointInv'
  BY <1>3 DEF Expunge, server, local, pass
<1>4. CASE Renumber
  BY <1>4, <1>0 DEF RenumberEffect, local, pass
<1>5. CASE UpsertMailbox
  BY <1>5 DEF UpsertMailbox, server, local, pass
<1>6. CASE SelectMailbox
  BY <1>6 DEF SelectMailbox, server, local, pass
<1>7. CASE ResetForUIDValidityChange
  BY <1>7 DEF ResetForUIDValidityChange, server, local, pass
<1>8. CASE SkipUnchanged
  BY <1>8 DEF SkipUnchanged, server, local, pass
<1>9. CASE Enumerate
  BY <1>9 DEF Enumerate, server, local, pass
<1>10. CASE FetchChangedSince
  BY <1>10 DEF FetchChangedSince, server, local, pass
<1>11. ASSUME NEW u \in DOMAIN updates, UpdateFlags(u) PROVE CheckpointInv'
  BY <1>11 DEF UpdateFlags, server, local, pass
<1>12. CASE UpdatesApplied
  BY <1>12 DEF UpdatesApplied, server, local, pass
<1>13. CASE SearchAllUIDs
  BY <1>13 DEF SearchAllUIDs, server, local, pass
<1>14. CASE FetchChunk
  BY <1>14 DEF FetchChunk, server, local, pass
<1>15. CASE UpsertMetadataBatch
  BY <1>15 DEF UpsertMetadataBatch, server, local, pass
<1>16. CASE SaveMidPassCheckpoint
  BY <1>16 DEF SaveMidPassCheckpoint, server, local, pass, Greatest
<1>17. CASE SearchForDeletions
  BY <1>17 DEF SearchForDeletions, server, local, pass
<1>18. CASE DeleteMissingUIDs
  BY <1>18 DEF DeleteMissingUIDs, server, local, pass
<1>19. CASE SaveFullCheckpoint
  BY <1>19 DEF SaveFullCheckpoint, server, local, pass, Greatest
<1>20. CASE ReconcileFails
  BY <1>20 DEF ReconcileFails, server, local, pass
<1>21. CASE Interrupt
  BY <1>21 DEF Interrupt, server, local, pass
<1>22. QED
  BY <1>1, <1>2, <1>3, <1>4, <1>5, <1>6, <1>7, <1>8, <1>9, <1>10, <1>11,
     <1>12, <1>13, <1>14, <1>15, <1>16, <1>17, <1>18, <1>19, <1>20, <1>21
     DEF Next, ServerStep, PassStep

\* The server only moves forward while the mailbox is selected.
LEMMA SelectionInvStep == IInv /\ Next => SelectionInv'
<1> SUFFICES ASSUME IInv, Next PROVE SelectionInv'
  OBVIOUS
<1>0. (Deliver => DeliverEffect) /\ (Renumber => RenumberEffect)
  BY ServerEffects DEF IInv
<1> USE DEF IInv, TypeOK, CheckpointInv, SelectionInv, CurrentEpoch, InSelected,
            Checkpoint, Selection, Phases
<1>1. CASE Deliver
  BY <1>1, <1>0 DEF DeliverEffect, local, pass, UIDs
<1>2. ASSUME NEW u \in DOMAIN msgs, ChangeFlags(u) PROVE SelectionInv'
  BY <1>2 DEF ChangeFlags, server, local, pass
<1>3. ASSUME NEW u \in DOMAIN msgs, Expunge(u) PROVE SelectionInv'
  BY <1>3 DEF Expunge, server, local, pass
<1>4. CASE Renumber
  BY <1>4, <1>0 DEF RenumberEffect, local, pass
<1>5. CASE UpsertMailbox
  BY <1>5 DEF UpsertMailbox, server, local, pass
<1>6. CASE SelectMailbox
  BY <1>6 DEF SelectMailbox, server, local, pass
<1>7. CASE ResetForUIDValidityChange
  BY <1>7 DEF ResetForUIDValidityChange, server, local, pass
<1>8. CASE SkipUnchanged
  BY <1>8 DEF SkipUnchanged, server, local, pass
<1>9. CASE Enumerate
  BY <1>9 DEF Enumerate, server, local, pass
<1>10. CASE FetchChangedSince
  BY <1>10 DEF FetchChangedSince, server, local, pass
<1>11. ASSUME NEW u \in DOMAIN updates, UpdateFlags(u) PROVE SelectionInv'
  BY <1>11 DEF UpdateFlags, server, local, pass
<1>12. CASE UpdatesApplied
  BY <1>12 DEF UpdatesApplied, server, local, pass
<1>13. CASE SearchAllUIDs
  BY <1>13 DEF SearchAllUIDs, server, local, pass
<1>14. CASE FetchChunk
  BY <1>14 DEF FetchChunk, server, local, pass
<1>15. CASE UpsertMetadataBatch
  BY <1>15 DEF UpsertMetadataBatch, server, local, pass
<1>16. CASE SaveMidPassCheckpoint
  BY <1>16 DEF SaveMidPassCheckpoint, server, local, pass, Greatest
<1>17. CASE SearchForDeletions
  BY <1>17 DEF SearchForDeletions, server, local, pass
<1>18. CASE DeleteMissingUIDs
  BY <1>18 DEF DeleteMissingUIDs, server, local, pass
<1>19. CASE SaveFullCheckpoint
  BY <1>19 DEF SaveFullCheckpoint, server, local, pass, Greatest
<1>20. CASE ReconcileFails
  BY <1>20 DEF ReconcileFails, server, local, pass
<1>21. CASE Interrupt
  BY <1>21 DEF Interrupt, server, local, pass
<1>22. QED
  BY <1>1, <1>2, <1>3, <1>4, <1>5, <1>6, <1>7, <1>8, <1>9, <1>10, <1>11,
     <1>12, <1>13, <1>14, <1>15, <1>16, <1>17, <1>18, <1>19, <1>20, <1>21
     DEF Next, ServerStep, PassStep

\* Rows and batches come from the server's current numbering.
LEMMA RowInvStep == IInv /\ Next => RowInv'
<1> SUFFICES ASSUME IInv, Next PROVE RowInv'
  OBVIOUS
<1>0. (Deliver => DeliverEffect) /\ (Renumber => RenumberEffect)
  BY ServerEffects DEF IInv
<1> USE DEF IInv, TypeOK, ServerInv, RowInv, IsStampMap, Stamp, EmptyMap
<1>1. CASE Deliver
  BY <1>1, <1>0 DEF DeliverEffect, local, pass, UIDs
<1>2. ASSUME NEW u \in DOMAIN msgs, ChangeFlags(u) PROVE RowInv'
  BY <1>2 DEF ChangeFlags, server, local, pass
<1>3. ASSUME NEW u \in DOMAIN msgs, Expunge(u) PROVE RowInv'
  BY <1>3 DEF Expunge, server, local, pass, Drop
<1>4. CASE Renumber
  BY <1>4, <1>0 DEF RenumberEffect, local, pass
<1>5. CASE UpsertMailbox
  BY <1>5 DEF UpsertMailbox, server, local, pass
<1>6. CASE SelectMailbox
  BY <1>6 DEF SelectMailbox, server, local, pass
<1>7. CASE ResetForUIDValidityChange
  BY <1>7 DEF ResetForUIDValidityChange, server, local, pass
<1>8. CASE SkipUnchanged
  BY <1>8 DEF SkipUnchanged, server, local, pass, ClearPass
<1>9. CASE Enumerate
  BY <1>9 DEF Enumerate, server, local, pass
<1>10. CASE FetchChangedSince
  BY <1>10 DEF FetchChangedSince, server, local, pass
<1>11. ASSUME NEW u \in DOMAIN updates, UpdateFlags(u) PROVE RowInv'
  BY <1>11 DEF UpdateFlags, server, local, pass
<1>12. CASE UpdatesApplied
  BY <1>12 DEF UpdatesApplied, server, local, pass
<1>13. CASE SearchAllUIDs
  BY <1>13 DEF SearchAllUIDs, server, local, pass
<1>14. CASE FetchChunk
  BY <1>14 DEF FetchChunk, server, local, pass
<1>15. CASE UpsertMetadataBatch
  BY <1>15 DEF UpsertMetadataBatch, server, local, pass, Overlay
<1>16. CASE SaveMidPassCheckpoint
  BY <1>16 DEF SaveMidPassCheckpoint, server, local, pass
<1>17. CASE SearchForDeletions
  BY <1>17 DEF SearchForDeletions, server, local, pass
<1>18. CASE DeleteMissingUIDs
  BY <1>18 DEF DeleteMissingUIDs, server, local, pass, Drop
<1>19. CASE SaveFullCheckpoint
  BY <1>19 DEF SaveFullCheckpoint, server, local, pass, ClearPass
<1>20. CASE ReconcileFails
  BY <1>20 DEF ReconcileFails, server, local, pass
<1>21. CASE Interrupt
  BY <1>21 DEF Interrupt, server, local, pass, ClearPass
<1>22. QED
  BY <1>1, <1>2, <1>3, <1>4, <1>5, <1>6, <1>7, <1>8, <1>9, <1>10, <1>11,
     <1>12, <1>13, <1>14, <1>15, <1>16, <1>17, <1>18, <1>19, <1>20, <1>21
     DEF Next, ServerStep, PassStep

\* The numbers of the state, and that they are numbers.
LEMMA Numbers ==
    ASSUME TypeOK
    PROVE  /\ uidNext \in Nat /\ highestModSeq \in Nat /\ uidValidity \in Nat
           /\ uidValidity # 0
           /\ cp.uidValidity \in Nat /\ cp.uidNext \in Nat
           /\ cp.highestModSeq \in Nat /\ box.highestModSeq \in Nat
           /\ selected.uidValidity \in Nat /\ selected.uidNext \in Nat
           /\ selected.highestModSeq \in Nat
BY DEF TypeOK, Checkpoint, Selection

\* No message SELECT could see falls out of the enumeration.
LEMMA EnumerationInvStep == IInv /\ Next => EnumerationInv'
<1> SUFFICES ASSUME IInv, Next PROVE EnumerationInv'
  OBVIOUS
<1>0. (Deliver => DeliverEffect) /\ (Renumber => RenumberEffect)
  BY ServerEffects DEF IInv
<1> USE DEF IInv, TypeOK, ServerInv, SelectionInv, RowInv, EnumerationInv, Fetching,
            InSelected, Phases, IsStampMap
<1>1. CASE Deliver
  <2>1. /\ DOMAIN msgs' = DOMAIN msgs \cup {uidNext}
        /\ UNCHANGED <<uidValidity, row, pc, known, todo, batch, selected, present>>
    BY <1>1, <1>0 DEF DeliverEffect, local, pass
  <2>2. InSelected => ~(uidNext < selected.uidNext)
    BY DEF Selection
  <2>3. uidNext \in DOMAIN row => row[uidNext].epoch # uidValidity
    OBVIOUS
  <2>4. QED
    BY <2>1, <2>2, <2>3
<1>2. ASSUME NEW u \in DOMAIN msgs, ChangeFlags(u) PROVE EnumerationInv'
  BY <1>2 DEF ChangeFlags, server, local, pass
<1>3. ASSUME NEW u \in DOMAIN msgs, Expunge(u) PROVE EnumerationInv'
  BY <1>3 DEF Expunge, server, local, pass, Drop
<1>4. CASE Renumber
  BY <1>4, <1>0 DEF RenumberEffect, local, pass
<1>5. CASE UpsertMailbox
  BY <1>5 DEF UpsertMailbox, server, local, pass
<1>6. CASE SelectMailbox
  BY <1>6 DEF SelectMailbox, server, local, pass
<1>7. CASE ResetForUIDValidityChange
  BY <1>7 DEF ResetForUIDValidityChange, server, local, pass
<1>8. CASE SkipUnchanged
  BY <1>8 DEF SkipUnchanged, server, local, pass, ClearPass
<1>9. CASE Enumerate
  BY <1>9 DEF Enumerate, server, local, pass
<1>10. CASE FetchChangedSince
  BY <1>10 DEF FetchChangedSince, server, local, pass
<1>11. ASSUME NEW u \in DOMAIN updates, UpdateFlags(u) PROVE EnumerationInv'
  BY <1>11 DEF UpdateFlags, server, local, pass
<1>12. CASE UpdatesApplied
  BY <1>12 DEF UpdatesApplied, server, local, pass
<1>13. CASE SearchAllUIDs
  BY <1>13 DEF SearchAllUIDs, server, local, pass
<1>14. CASE FetchChunk
  BY <1>14 DEF FetchChunk, server, local, pass
<1>15. CASE UpsertMetadataBatch
  BY <1>15 DEF UpsertMetadataBatch, server, local, pass, Overlay, EmptyMap
<1>16. CASE SaveMidPassCheckpoint
  BY <1>16 DEF SaveMidPassCheckpoint, server, local, pass
<1>17. CASE SearchForDeletions
  BY <1>17 DEF SearchForDeletions, server, local, pass
<1>18. CASE DeleteMissingUIDs
  BY <1>18 DEF DeleteMissingUIDs, server, local, pass, Drop
<1>19. CASE SaveFullCheckpoint
  BY <1>19 DEF SaveFullCheckpoint, server, local, pass, ClearPass
<1>20. CASE ReconcileFails
  BY <1>20 DEF ReconcileFails, server, local, pass
<1>21. CASE Interrupt
  BY <1>21 DEF Interrupt, server, local, pass, ClearPass
<1>22. QED
  BY <1>1, <1>2, <1>3, <1>4, <1>5, <1>6, <1>7, <1>8, <1>9, <1>10, <1>11,
     <1>12, <1>13, <1>14, <1>15, <1>16, <1>17, <1>18, <1>19, <1>20, <1>21
     DEF Next, ServerStep, PassStep

\* A stored sequence keeps standing for rows.
LEMMA NoMissedMessageStep == IInv /\ Next => NoMissedMessage'
<1> SUFFICES ASSUME IInv, Next PROVE NoMissedMessage'
  OBVIOUS
<1>0. (Deliver => DeliverEffect) /\ (Renumber => RenumberEffect)
  BY ServerEffects DEF IInv
<1> USE DEF IInv, NoMissedMessage, CurrentEpoch
<1>1. CASE Deliver
  <2>1. /\ DOMAIN msgs' = DOMAIN msgs \cup {uidNext}
        /\ UNCHANGED <<uidValidity, row, cp>>
    BY <1>1, <1>0 DEF DeliverEffect, local
  <2>2. CurrentEpoch /\ cp.highestModSeq > 0 => ~(uidNext < cp.uidNext)
    BY Numbers DEF CheckpointInv
  <2>3. QED
    BY <2>1, <2>2
<1>2. ASSUME NEW u \in DOMAIN msgs, ChangeFlags(u) PROVE NoMissedMessage'
  BY <1>2 DEF ChangeFlags, server, local, pass
<1>3. ASSUME NEW u \in DOMAIN msgs, Expunge(u) PROVE NoMissedMessage'
  BY <1>3 DEF Expunge, server, local, pass, Drop
<1>4. CASE Renumber
  <2>1. uidValidity' = uidValidity + 1 /\ cp' = cp
    BY <1>4, <1>0 DEF RenumberEffect, local
  <2>2. ~CurrentEpoch'
    BY <2>1, Numbers DEF CheckpointInv
  <2>3. QED
    BY <2>2
<1>5. CASE UpsertMailbox
  BY <1>5 DEF UpsertMailbox, server, local, pass
<1>6. CASE SelectMailbox
  BY <1>6 DEF SelectMailbox, server, local, pass
<1>7. CASE ResetForUIDValidityChange
  BY <1>7 DEF ResetForUIDValidityChange, server, local, pass, TypeOK, Checkpoint
<1>8. CASE SkipUnchanged
  BY <1>8 DEF SkipUnchanged, server, local, pass
<1>9. CASE Enumerate
  BY <1>9 DEF Enumerate, server, local, pass
<1>10. CASE FetchChangedSince
  BY <1>10 DEF FetchChangedSince, server, local, pass
<1>11. ASSUME NEW u \in DOMAIN updates, UpdateFlags(u) PROVE NoMissedMessage'
  BY <1>11 DEF UpdateFlags, server, local, pass
<1>12. CASE UpdatesApplied
  BY <1>12 DEF UpdatesApplied, server, local, pass
<1>13. CASE SearchAllUIDs
  BY <1>13 DEF SearchAllUIDs, server, local, pass
<1>14. CASE FetchChunk
  BY <1>14 DEF FetchChunk, server, local, pass
<1>15. CASE UpsertMetadataBatch
  BY <1>15 DEF UpsertMetadataBatch, server, local, pass, Overlay
<1>16. CASE SaveMidPassCheckpoint
  <2>1. cp.highestModSeq > 0 => CurrentEpoch
    BY <1>16, Numbers DEF SaveMidPassCheckpoint, SelectionInv, InSelected, CheckpointInv
  <2>2. /\ cp'.highestModSeq = cp.highestModSeq
        /\ cp'.uidNext = cp.uidNext
        /\ UNCHANGED <<msgs, uidValidity, row>>
    BY <1>16 DEF SaveMidPassCheckpoint, server, TypeOK, Checkpoint
  <2>3. QED
    BY <2>1, <2>2
<1>17. CASE SearchForDeletions
  BY <1>17 DEF SearchForDeletions, server, local, pass
<1>18. CASE DeleteMissingUIDs
  <2> SUFFICES ASSUME CurrentEpoch, cp.highestModSeq > 0,
                      NEW u \in DOMAIN msgs, u < cp.uidNext
               PROVE  u \in DOMAIN row'
    BY <1>18 DEF DeleteMissingUIDs, server
  <2>1. cp.uidNext <= selected.uidNext /\ u \in Int
    BY <1>18 DEF DeleteMissingUIDs, SelectionInv, InSelected, TypeOK, IsStampMap, UIDs
  <2>2. u < selected.uidNext
    BY <2>1, Numbers
  <2>3. u \in present /\ u \in DOMAIN row
    BY <1>18, <2>2 DEF DeleteMissingUIDs, EnumerationInv
  <2>4. QED
    BY <1>18, <2>3 DEF DeleteMissingUIDs, Drop
<1>19. CASE SaveFullCheckpoint
  <2>1. /\ cp'.uidNext = selected.uidNext
        /\ UNCHANGED <<msgs, uidValidity, row>>
    BY <1>19 DEF SaveFullCheckpoint, server
  <2>2. \A u \in DOMAIN msgs : u < selected.uidNext => u \in DOMAIN row
    BY <1>19 DEF SaveFullCheckpoint, EnumerationInv, RowInv
  <2>3. QED
    BY <2>1, <2>2
<1>20. CASE ReconcileFails
  BY <1>20 DEF ReconcileFails, server, local, pass
<1>21. CASE Interrupt
  BY <1>21 DEF Interrupt, server, local, pass
<1>22. QED
  BY <1>1, <1>2, <1>3, <1>4, <1>5, <1>6, <1>7, <1>8, <1>9, <1>10, <1>11,
     <1>12, <1>13, <1>14, <1>15, <1>16, <1>17, <1>18, <1>19, <1>20, <1>21
     DEF Next, ServerStep, PassStep

\* Whether the pass asks for changes is decided by its stored sequence.
LEMMA AskedForChanges ==
    ASSUME IInv
    PROVE  InSelected => (useCondStore <=> CondStore)
BY DEF IInv, SelectionInv, useCondStore

\* A change SELECT could see is applied or in hand; a later one has a higher
\* number.
LEMMA FlagInvStep == IInv /\ Next => FlagInv'
<1> SUFFICES ASSUME IInv, Next PROVE FlagInv'
  OBVIOUS
<1>0. (Deliver => DeliverEffect) /\ (Renumber => RenumberEffect)
  BY ServerEffects DEF IInv
<1> USE DEF IInv
<1>1. CASE Deliver
  <2>1. /\ DOMAIN msgs' = DOMAIN msgs \cup {uidNext}
        /\ msgs'[uidNext].modSeq = highestModSeq + 1
        /\ \A u \in DOMAIN msgs : u # uidNext => msgs'[u] = msgs[u]
        /\ UNCHANGED <<row, pc, updates, batch, selected, box>>
    BY <1>1, <1>0 DEF DeliverEffect, local, pass
  <2>2. /\ InSelected => selected.highestModSeq < highestModSeq + 1
        /\ InSelected /\ pc # "reset" => box.highestModSeq < highestModSeq + 1
    BY Numbers DEF SelectionInv, CheckpointInv, InSelected, CurrentEpoch
  <2>3. \A u \in DOMAIN batch : u < uidNext
    BY DEF RowInv
  <2>4. uidNext \notin DOMAIN batch
    BY <2>3, Numbers
  <2>5. QED
    BY <2>1, <2>2, <2>4, Numbers DEF InSelected, FlagInv, Fetching
<1>2. ASSUME NEW u \in DOMAIN msgs, ChangeFlags(u) PROVE FlagInv'
  <2>1. /\ DOMAIN msgs' = DOMAIN msgs
        /\ msgs'[u].modSeq = highestModSeq + 1
        /\ \A v \in DOMAIN msgs : v # u => msgs'[v] = msgs[v]
        /\ UNCHANGED <<row, pc, updates, batch, selected, box>>
    BY <1>2 DEF ChangeFlags, local, pass, TypeOK, IsStampMap, Stamp
  <2>2. /\ InSelected => selected.highestModSeq < highestModSeq + 1
        /\ InSelected /\ pc # "reset" => box.highestModSeq < highestModSeq + 1
    BY Numbers DEF SelectionInv, CheckpointInv, InSelected, CurrentEpoch
  <2>3. pc \in {"idle", "select"} => DOMAIN batch = {}
    BY DEF RowInv
  <2>4. QED
    BY <2>1, <2>2, <2>3, Numbers DEF InSelected, FlagInv, Fetching
<1>3. ASSUME NEW u \in DOMAIN msgs, Expunge(u) PROVE FlagInv'
  <2>1. /\ \A v \in DOMAIN msgs' : v \in DOMAIN msgs /\ msgs'[v] = msgs[v]
        /\ UNCHANGED <<row, pc, updates, batch, box, selected>>
    BY <1>3 DEF Expunge, Drop, local, pass
  <2>2. QED
    BY <2>1 DEF FlagInv, Fetching
<1>4. CASE Renumber
  <2>1. pc \in {"idle", "select"} /\ UNCHANGED <<pc, batch, updates>>
    BY <1>4, <1>0 DEF RenumberEffect, pass
  <2>2. DOMAIN batch = {}
    BY <2>1 DEF RowInv
  <2>3. QED
    BY <2>1, <2>2 DEF FlagInv, Fetching
<1>5. CASE UpsertMailbox
  <2>1. pc' = "select" /\ DOMAIN batch' = {} /\ DOMAIN updates' = {}
    BY <1>5 DEF UpsertMailbox, RowInv, FlagInv
  <2>2. QED
    BY <2>1 DEF FlagInv, Fetching
<1>6. CASE SelectMailbox
  <2>1. pc' \in {"reset", "check"} /\ DOMAIN batch' = {} /\ DOMAIN updates' = {}
    BY <1>6 DEF SelectMailbox, RowInv, FlagInv
  <2>2. QED
    BY <2>1 DEF FlagInv, Fetching
<1>7. CASE ResetForUIDValidityChange
  <2>1. pc' = "check" /\ DOMAIN batch' = {} /\ DOMAIN updates' = {}
    BY <1>7 DEF ResetForUIDValidityChange, RowInv, FlagInv
  <2>2. QED
    BY <2>1 DEF FlagInv, Fetching
<1>8. CASE SkipUnchanged
  <2>1. pc' = "idle" /\ DOMAIN batch' = {} /\ DOMAIN updates' = {}
    BY <1>8 DEF SkipUnchanged, ClearPass, EmptyMap
  <2>2. QED
    BY <2>1 DEF FlagInv, Fetching
<1>9. CASE Enumerate
  <2>1. pc' = IF CondStore /\ box.highestModSeq > 0 THEN "changed" ELSE "search"
    BY <1>9, AskedForChanges DEF Enumerate, InSelected
  <2>2. /\ DOMAIN batch = {} /\ DOMAIN updates = {}
        /\ UNCHANGED <<msgs, row, batch, box, selected, updates>>
    BY <1>9 DEF Enumerate, RowInv, FlagInv, server, local, pass
  <2>3. QED
    BY <2>1, <2>2 DEF FlagInv, Fetching
<1>10. CASE FetchChangedSince
  <2>1. pc' = "applyChanged" /\ DOMAIN batch' = {}
    BY <1>10 DEF FetchChangedSince, RowInv
  <2>2. /\ DOMAIN updates' = {v \in DOMAIN msgs : msgs[v].modSeq > box.highestModSeq}
        /\ \A u \in DOMAIN updates' : updates'[u] = msgs[u]
        /\ UNCHANGED <<msgs, row, box, selected>>
    BY <1>10 DEF FetchChangedSince, server, local
  <2>3. \A u \in DOMAIN msgs : msgs[u].modSeq \in Nat
    BY DEF TypeOK, IsStampMap, Stamp
  <2>4. QED
    BY <2>1, <2>2, <2>3, Numbers DEF FlagInv, Fetching
<1>11. ASSUME NEW u \in DOMAIN updates, UpdateFlags(u) PROVE FlagInv'
  <2>1. /\ DOMAIN row' = DOMAIN row
        /\ u \in DOMAIN row => row'[u].modSeq = updates[u].modSeq
        /\ \A v \in DOMAIN row : v # u => row'[v] = row[v]
    BY <1>11 DEF UpdateFlags, TypeOK, IsStampMap, Stamp
  <2>2. /\ DOMAIN updates' = DOMAIN updates \ {u}
        /\ \A v \in DOMAIN updates' : updates'[v] = updates[v]
        /\ UNCHANGED <<msgs, pc, box, selected, batch>>
    BY <1>11 DEF UpdateFlags, Drop, server
  <2>3. CASE pc = "applyChanged"
    BY <2>1, <2>2, <2>3 DEF FlagInv, Fetching
  <2>4. CASE pc = "applyChunk"
    <3>1. ~CondStore
      BY <2>4 DEF FlagInv, Fetching
    <3>2. QED
      BY <2>2, <2>4, <3>1 DEF FlagInv, Fetching
  <2>5. QED
    BY <1>11, <2>3, <2>4 DEF UpdateFlags
<1>12. CASE UpdatesApplied
  <2>1. UNCHANGED <<msgs, row, box, selected, batch, updates>>
    BY <1>12 DEF UpdatesApplied, server, local, pass
  <2>2. DOMAIN updates = {}
    BY <1>12 DEF UpdatesApplied
  <2>3. CASE pc = "applyChanged" /\ pc' = "search"
    BY <2>1, <2>2, <2>3 DEF FlagInv, Fetching
  <2>4. CASE pc = "applyChunk" /\ pc' = "record"
    BY <2>1, <2>2, <2>4 DEF FlagInv, Fetching
  <2>5. QED
    BY <1>12, <2>3, <2>4 DEF UpdatesApplied
<1>13. CASE SearchAllUIDs
  <2>1. CondStore => DOMAIN updates = {}
    BY <1>13 DEF SearchAllUIDs, FlagInv
  <2>2. QED
    BY <1>13, <2>1 DEF SearchAllUIDs, FlagInv, Fetching, server, local
<1>14. CASE FetchChunk
  <2>1. /\ DOMAIN batch' \subseteq DOMAIN msgs
        /\ \A u \in DOMAIN batch' : batch'[u] = msgs[u]
        /\ UNCHANGED <<msgs, row, box, selected>>
        /\ pc' = "applyChunk" /\ pc = "chunks"
    BY <1>14 DEF FetchChunk, server, local
  <2>2. CondStore => DOMAIN updates' = {}
    BY <1>14, AskedForChanges DEF FetchChunk, InSelected
  <2>3. QED
    BY <2>1, <2>2 DEF FlagInv, Fetching
<1>15. CASE UpsertMetadataBatch
  <2>1. /\ \A u \in DOMAIN row' : IF u \in DOMAIN batch THEN row'[u] = batch[u]
                                   ELSE u \in DOMAIN row /\ row'[u] = row[u]
        /\ DOMAIN batch' = {}
        /\ UNCHANGED <<msgs, updates, box, selected>>
        /\ pc' = "midCheckpoint" /\ pc = "record"
    BY <1>15 DEF UpsertMetadataBatch, Overlay, EmptyMap, server
  <2>2. QED
    BY <2>1 DEF FlagInv, Fetching
<1>16. CASE SaveMidPassCheckpoint
  BY <1>16 DEF SaveMidPassCheckpoint, server, local, pass, FlagInv, Fetching
<1>17. CASE SearchForDeletions
  BY <1>17 DEF SearchForDeletions, server, local, pass, FlagInv, Fetching
<1>18. CASE DeleteMissingUIDs
  <2>1. /\ \A u \in DOMAIN row' : u \in DOMAIN row /\ row'[u] = row[u]
        /\ UNCHANGED <<msgs, updates, batch, box, selected>>
        /\ pc' = "final" /\ pc = "delete"
    BY <1>18 DEF DeleteMissingUIDs, Drop, server, pass
  <2>2. QED
    BY <2>1 DEF FlagInv, Fetching
<1>19. CASE SaveFullCheckpoint
  <2>1. pc' = "idle" /\ DOMAIN batch' = {} /\ DOMAIN updates' = {}
    BY <1>19 DEF SaveFullCheckpoint, ClearPass, EmptyMap
  <2>2. QED
    BY <2>1 DEF FlagInv, Fetching
<1>20. CASE ReconcileFails
  BY <1>20 DEF ReconcileFails, server, local, pass, FlagInv, Fetching
<1>21. CASE Interrupt
  <2>1. pc' = "idle" /\ DOMAIN batch' = {} /\ DOMAIN updates' = {}
    BY <1>21 DEF Interrupt, ClearPass, EmptyMap
  <2>2. QED
    BY <2>1 DEF FlagInv, Fetching
<1>22. QED
  BY <1>1, <1>2, <1>3, <1>4, <1>5, <1>6, <1>7, <1>8, <1>9, <1>10, <1>11,
     <1>12, <1>13, <1>14, <1>15, <1>16, <1>17, <1>18, <1>19, <1>20, <1>21
     DEF Next, ServerStep, PassStep

\* The initial states satisfy the invariant.
LEMMA InitInv == Init => IInv
<1> SUFFICES ASSUME Init PROVE IInv
  OBVIOUS
<1>1. TypeOK
  BY InitType
<1>2. PICK n \in 0..MaxUID : /\ msgs = [u \in 1..n |-> [epoch |-> 1, modSeq |-> 1]]
                             /\ uidNext = n + 1
  BY DEF Init
<1>3. ServerInv
  BY <1>2 DEF Init, ServerInv
<1>4. /\ cp.uidValidity = 0 /\ cp.highestModSeq = 0 /\ pc = "idle"
      /\ DOMAIN row = {} /\ DOMAIN batch = {} /\ DOMAIN updates = {}
      /\ uidValidity = 1
  BY DEF Init, NewCheckpoint, EmptyMap
<1>5. CheckpointInv /\ SelectionInv /\ NoMissedMessage
  BY <1>4 DEF CheckpointInv, SelectionInv, NoMissedMessage, CurrentEpoch, InSelected
<1>6. RowInv /\ EnumerationInv /\ FlagInv
  BY <1>4 DEF RowInv, EnumerationInv, FlagInv, Fetching
<1>7. QED
  BY <1>1, <1>3, <1>5, <1>6 DEF IInv

\* A step that changes nothing keeps the invariant.
LEMMA Stutter == IInv /\ UNCHANGED vars => IInv'
<1> SUFFICES ASSUME IInv, UNCHANGED vars PROVE IInv'
  OBVIOUS
<1> USE DEF vars, server, local, pass
<1>1. TypeOK'
  BY DEF IInv, TypeOK, IsStampMap
<1>2. ServerInv' /\ CheckpointInv' /\ SelectionInv'
  BY DEF IInv, ServerInv, CheckpointInv, SelectionInv, CurrentEpoch, InSelected
<1>3. RowInv' /\ EnumerationInv' /\ NoMissedMessage'
  BY DEF IInv, RowInv, EnumerationInv, NoMissedMessage, CurrentEpoch, Fetching
<1>4. FlagInv'
  BY DEF IInv, FlagInv, Fetching
<1>5. QED
  BY <1>1, <1>2, <1>3, <1>4 DEF IInv

\* The invariant holds in every reachable state.
LEMMA Inductive == Spec => []IInv
<1>1. IInv /\ Next => IInv'
  <2>1. IInv /\ Next => TypeOK'
    BY ServerStepType, PassStepType, FaultType DEF Next, IInv
  <2>2. QED
    BY <2>1, ServerInvStep, CheckpointInvStep, SelectionInvStep, RowInvStep,
       EnumerationInvStep, NoMissedMessageStep, FlagInvStep DEF IInv
<1>2. IInv /\ [Next]_vars => IInv'
  BY <1>1, Stutter
<1>3. QED
  BY InitInv, <1>2, PTL DEF Spec

\* A mailbox whose modification sequence is stored has a row for every message
\* below the stored UIDNEXT, for any number of messages, chunks, interruptions
\* and renumberings: the shortcut of metadataPass never skips new mail.
THEOREM NewMailNeverSkipped == Spec => []NoMissedMessage
<1>1. IInv => NoMissedMessage
  BY DEF IInv
<1>2. QED
  BY Inductive, <1>1, PTL

\* DeleteMissingUIDs removes no row whose message is still upstream, although
\* the listing it works from is older than the DELETE.
THEOREM DeletionsAreReal == Spec => NeverDropsLive
<1> DEFINE A == cp'.uidValidity = cp.uidValidity =>
                  \A u \in DOMAIN row \ DOMAIN row' :
                      u \in DOMAIN msgs => row[u].epoch # msgs[u].epoch
<1>1. IInv /\ [Next]_vars => [A]_vars
  <2> SUFFICES ASSUME IInv, Next, cp'.uidValidity = cp.uidValidity,
                      NEW u \in DOMAIN row \ DOMAIN row', u \in DOMAIN msgs
               PROVE  row[u].epoch # msgs[u].epoch
    OBVIOUS
  <2>1. CASE ServerStep \/ ReconcileFails \/ Interrupt
    <3>1. UNCHANGED row
      BY <2>1 DEF ServerStep, Deliver, ChangeFlags, Expunge, Renumber,
                  ReconcileFails, Interrupt, local
    <3>2. QED
      BY <3>1
  <2>2. CASE ResetForUIDValidityChange
    <3>1. pc = "reset" /\ cp'.uidValidity = selected.uidValidity
      BY <2>2 DEF ResetForUIDValidityChange, IInv, TypeOK, Checkpoint
    <3>2. selected.uidValidity = uidValidity /\ msgs[u].epoch = uidValidity
      BY <3>1 DEF IInv, SelectionInv, InSelected, ServerInv
    <3>3. cp.uidValidity # uidValidity
      BY <3>1 DEF IInv, SelectionInv
    <3>4. QED
      BY <3>1, <3>2, <3>3
  <2>3. CASE DeleteMissingUIDs
    <3>1. u \notin present /\ pc = "delete"
      BY <2>3 DEF DeleteMissingUIDs, Drop
    <3>2. row[u].epoch # uidValidity
      BY <3>1 DEF IInv, EnumerationInv
    <3>3. QED
      BY <3>2 DEF IInv, ServerInv
  <2>4. CASE UpsertMetadataBatch
    BY <2>4 DEF UpsertMetadataBatch, Overlay
  <2>5. ASSUME NEW v \in DOMAIN updates, UpdateFlags(v)
        PROVE  row[u].epoch # msgs[u].epoch
    BY <2>5 DEF UpdateFlags
  <2>6. CASE \/ UpsertMailbox \/ SelectMailbox \/ SkipUnchanged \/ Enumerate
             \/ FetchChangedSince \/ UpdatesApplied \/ SearchAllUIDs
             \/ FetchChunk \/ SaveMidPassCheckpoint \/ SearchForDeletions
             \/ SaveFullCheckpoint
    <3>1. UNCHANGED row
      BY <2>6 DEF UpsertMailbox, SelectMailbox, SkipUnchanged, Enumerate,
                  FetchChangedSince, UpdatesApplied, SearchAllUIDs, FetchChunk,
                  SaveMidPassCheckpoint, SearchForDeletions,
                  SaveFullCheckpoint, local
    <3>2. QED
      BY <3>1
  <2>7. QED
    BY <2>1, <2>2, <2>3, <2>4, <2>5, <2>6 DEF Next, PassStep
<1>2. QED
  BY Inductive, <1>1, PTL DEF Spec, NeverDropsLive

\* After its first checkpoint a mailbox never holds a row under a UIDVALIDITY
\* other than the stored one: syncMailbox resets before it records.
THEOREM RenumberingNeverMixes == Spec => EpochsStaySeparate
<1> DEFINE A == cp.uidValidity # 0 /\ RowsOfOneEpoch => RowsOfOneEpoch'
<1>1. IInv /\ [Next]_vars => [A]_vars
  <2> SUFFICES ASSUME IInv, Next, cp.uidValidity # 0, RowsOfOneEpoch
               PROVE  RowsOfOneEpoch'
    OBVIOUS
  <2>1. CASE ServerStep \/ ReconcileFails \/ Interrupt
    <3>1. UNCHANGED <<row, cp>>
      BY <2>1 DEF ServerStep, Deliver, ChangeFlags, Expunge, Renumber,
                  ReconcileFails, Interrupt, local
    <3>2. QED
      BY <3>1 DEF RowsOfOneEpoch
  <2>2. CASE ResetForUIDValidityChange
    BY <2>2 DEF ResetForUIDValidityChange, EmptyMap, RowsOfOneEpoch
  <2>3. CASE DeleteMissingUIDs
    BY <2>3 DEF DeleteMissingUIDs, Drop, RowsOfOneEpoch
  <2>4. CASE UpsertMetadataBatch
    <3>1. cp.uidValidity = uidValidity
      BY <2>4 DEF UpsertMetadataBatch, IInv, SelectionInv, InSelected
    <3>2. \A u \in DOMAIN batch : batch[u].epoch = uidValidity
      BY DEF IInv, RowInv
    <3>3. QED
      BY <2>4, <3>1, <3>2 DEF UpsertMetadataBatch, Overlay, RowsOfOneEpoch
  <2>5. ASSUME NEW v \in DOMAIN updates, UpdateFlags(v)
        PROVE  RowsOfOneEpoch'
    <3>1. /\ DOMAIN row' = DOMAIN row /\ cp' = cp
          /\ \A u \in DOMAIN row : row'[u].epoch = row[u].epoch
      BY <2>5 DEF UpdateFlags, IInv, TypeOK, IsStampMap, Stamp
    <3>2. QED
      BY <3>1 DEF RowsOfOneEpoch
  <2>6. CASE SaveMidPassCheckpoint \/ SaveFullCheckpoint
    <3>a. SaveMidPassCheckpoint => cp'.uidValidity = selected.uidValidity
      BY DEF SaveMidPassCheckpoint, IInv, TypeOK, Checkpoint
    <3>b. SaveFullCheckpoint => cp'.uidValidity = selected.uidValidity
      BY DEF SaveFullCheckpoint
    <3>c. pc \in {"midCheckpoint", "final"}
      BY <2>6 DEF SaveMidPassCheckpoint, SaveFullCheckpoint
    <3>1. InSelected /\ pc # "reset" /\ cp'.uidValidity = selected.uidValidity
      BY <2>6, <3>a, <3>b, <3>c DEF InSelected
    <3>2. cp'.uidValidity = cp.uidValidity /\ row' = row
      BY <2>6, <3>1 DEF IInv, SelectionInv, SaveMidPassCheckpoint,
                        SaveFullCheckpoint
    <3>3. QED
      BY <3>2 DEF RowsOfOneEpoch
  <2>7. CASE \/ UpsertMailbox \/ SelectMailbox \/ SkipUnchanged \/ Enumerate
             \/ FetchChangedSince \/ UpdatesApplied \/ SearchAllUIDs
             \/ FetchChunk \/ SearchForDeletions
    <3>1. UNCHANGED <<row, cp>>
      BY <2>7 DEF UpsertMailbox, SelectMailbox, SkipUnchanged, Enumerate,
                  FetchChangedSince, UpdatesApplied, SearchAllUIDs, FetchChunk,
                  SearchForDeletions, local
    <3>2. QED
      BY <3>1 DEF RowsOfOneEpoch
  <2>8. QED
    BY <2>1, <2>2, <2>3, <2>4, <2>5, <2>6, <2>7 DEF Next, PassStep
<1>2. QED
  BY Inductive, <1>1, PTL DEF Spec, EpochsStaySeparate

\* Once a pass has completed, no later pass moves the stored sequence past a
\* flag change it has not applied, wherever it is interrupted and whatever
\* changes between its commands.
THEOREM FlagChangesSurvive == Spec => FlagsSurvive
<1> DEFINE A == CurrentEpoch /\ cp.highestModSeq > 0 /\ FlagsCovered
                  => FlagsCovered'
<1>1. IInv /\ [Next]_vars => [A]_vars
  <2> SUFFICES ASSUME IInv, Next, CurrentEpoch, cp.highestModSeq > 0, FlagsCovered
               PROVE  FlagsCovered'
    OBVIOUS
  <2>a. CondStore /\ cp.highestModSeq \in Nat /\ highestModSeq \in Nat
    BY Numbers DEF IInv, CheckpointInv
  <2>b. cp.highestModSeq <= highestModSeq
    BY DEF IInv, CheckpointInv
  <2>c. \A u \in DOMAIN msgs : msgs[u].modSeq \in Nat
    BY DEF IInv, TypeOK, IsStampMap, Stamp
  <2>d. \A u \in DOMAIN msgs \cap DOMAIN row :
           msgs[u].modSeq <= cp.highestModSeq => row[u].modSeq = msgs[u].modSeq
    BY DEF FlagsCovered
  <2>1. CASE Deliver
    <3>1. DeliverEffect
      BY <2>1, ServerEffects DEF IInv
    <3>2. UNCHANGED <<row, cp>>
      BY <3>1 DEF DeliverEffect, local
    <3>3. msgs'[uidNext].modSeq = highestModSeq + 1
      BY <3>1 DEF DeliverEffect
    <3>4. \A u \in DOMAIN msgs' : u # uidNext => u \in DOMAIN msgs /\ msgs'[u] = msgs[u]
      BY <3>1 DEF DeliverEffect
    <3>5. QED
      BY <2>a, <2>b, <2>d, <3>2, <3>3, <3>4 DEF FlagsCovered
  <2>2. ASSUME NEW v \in DOMAIN msgs, ChangeFlags(v) PROVE FlagsCovered'
    <3>1. /\ DOMAIN msgs' = DOMAIN msgs
          /\ msgs'[v].modSeq = highestModSeq + 1
          /\ \A u \in DOMAIN msgs : u # v => msgs'[u] = msgs[u]
          /\ UNCHANGED <<row, cp>>
      BY <2>2 DEF ChangeFlags, local, IInv, TypeOK, IsStampMap, Stamp
    <3>2. QED
      BY <2>a, <2>b, <2>d, <3>1 DEF FlagsCovered
  <2>3. ASSUME NEW v \in DOMAIN msgs, Expunge(v) PROVE FlagsCovered'
    BY <2>3, <2>d DEF Expunge, Drop, local, FlagsCovered
  <2>4. CASE Renumber
    <3>1. uidValidity' = uidValidity + 1 /\ cp' = cp
      BY <2>4 DEF Renumber, local
    <3>2. ~CurrentEpoch'
      BY <3>1, Numbers DEF CurrentEpoch, IInv
    <3>3. QED
      BY <3>2 DEF FlagsCovered
  <2>5. CASE ResetForUIDValidityChange
    BY <2>5 DEF ResetForUIDValidityChange, IInv, SelectionInv, CurrentEpoch
  <2>6. ASSUME NEW v \in DOMAIN updates, UpdateFlags(v) PROVE FlagsCovered'
    <3>1. pc = "applyChanged"
      BY <2>6, <2>a DEF UpdateFlags, IInv, FlagInv
    <3>2. v \in DOMAIN msgs => ~(msgs[v].modSeq <= cp.highestModSeq)
      BY <2>a, <2>c, <3>1 DEF IInv, FlagInv, SelectionInv
    <3>3. /\ DOMAIN row' = DOMAIN row
          /\ \A u \in DOMAIN row : u # v => row'[u] = row[u]
          /\ UNCHANGED <<msgs, cp>>
      BY <2>6 DEF UpdateFlags, server
    <3>4. QED
      BY <2>d, <3>2, <3>3 DEF FlagsCovered
  <2>7. CASE UpsertMetadataBatch
    <3>1. cp.highestModSeq <= selected.highestModSeq
      BY <2>7 DEF UpsertMetadataBatch, IInv, SelectionInv, InSelected
    <3>2. \A u \in DOMAIN batch \cap DOMAIN msgs :
             msgs[u].modSeq <= cp.highestModSeq => batch[u].modSeq = msgs[u].modSeq
      BY <2>a, <2>c, <3>1, Numbers DEF IInv, FlagInv
    <3>3. \A u \in DOMAIN row' : IF u \in DOMAIN batch THEN row'[u] = batch[u]
                                 ELSE u \in DOMAIN row /\ row'[u] = row[u]
      BY <2>7 DEF UpsertMetadataBatch, Overlay
    <3>4. UNCHANGED <<msgs, cp>>
      BY <2>7 DEF UpsertMetadataBatch, server
    <3>5. QED
      BY <2>d, <3>2, <3>3, <3>4 DEF FlagsCovered
  <2>8. CASE DeleteMissingUIDs
    BY <2>8, <2>d DEF DeleteMissingUIDs, Drop, server, FlagsCovered
  <2>9. CASE SaveMidPassCheckpoint
    <3>1. cp'.highestModSeq = cp.highestModSeq /\ UNCHANGED <<msgs, row>>
      BY <2>9 DEF SaveMidPassCheckpoint, server, IInv, TypeOK, Checkpoint
    <3>2. QED
      BY <2>d, <3>1 DEF FlagsCovered
  <2>10. CASE SaveFullCheckpoint
    <3>1. /\ cp'.highestModSeq \in {cp.highestModSeq, selected.highestModSeq}
          /\ UNCHANGED <<msgs, row>>
      BY <2>10 DEF SaveFullCheckpoint, Greatest, server
    <3>2. pc = "final" /\ box.highestModSeq = cp.highestModSeq
      BY <2>10 DEF SaveFullCheckpoint, IInv, SelectionInv
    <3>3. \A u \in DOMAIN msgs \cap DOMAIN row :
             /\ cp.highestModSeq < msgs[u].modSeq
             /\ msgs[u].modSeq <= selected.highestModSeq
             => row[u].modSeq = msgs[u].modSeq
      BY <2>a, <3>2 DEF IInv, FlagInv
    <3>4. QED
      BY <2>a, <2>c, <2>d, <3>1, <3>3, Numbers DEF FlagsCovered, IInv
  <2>11. CASE \/ UpsertMailbox \/ SelectMailbox \/ SkipUnchanged \/ Enumerate
              \/ FetchChangedSince \/ UpdatesApplied \/ SearchAllUIDs
              \/ FetchChunk \/ SearchForDeletions \/ ReconcileFails
              \/ Interrupt
    <3>1. UNCHANGED <<msgs, row, cp>>
      BY <2>11 DEF UpsertMailbox, SelectMailbox, SkipUnchanged, Enumerate,
                   FetchChangedSince, UpdatesApplied, SearchAllUIDs, FetchChunk,
                   SearchForDeletions, ReconcileFails, Interrupt, server, local
    <3>2. QED
      BY <2>d, <3>1 DEF FlagsCovered
  <2>12. QED
    BY <2>1, <2>2, <2>3, <2>4, <2>5, <2>6, <2>7, <2>8, <2>9, <2>10, <2>11
       DEF Next, ServerStep, PassStep
<1>2. QED
  BY Inductive, <1>1, PTL DEF Spec, FlagsSurvive

-----------------------------------------------------------------------------
(* The pass implements RowFeed *)

\* A row of the present numbering is never taken for one of an older numbering:
\* the stored UIDVALIDITY is the present one, or none is stored yet.
ListedInv ==
    \A u \in DOMAIN row :
        row[u].epoch = uidValidity => cp.uidValidity \in {0, uidValidity}

\* A pass stores the UIDVALIDITY of the rows it records, or the same as before.
LEMMA ListedInvStep == IInv /\ ListedInv /\ [Next]_vars => ListedInv'
<1> SUFFICES ASSUME IInv, ListedInv, [Next]_vars PROVE ListedInv'
  OBVIOUS
<1> USE DEF ListedInv
<1>1. CASE UNCHANGED vars
  BY <1>1 DEF vars, server, local
<1>2. CASE Renumber
  <2>1. uidValidity' = uidValidity + 1 /\ row' = row
    BY <1>2 DEF Renumber, local
  <2>2. \A u \in DOMAIN row : row[u].epoch # uidValidity'
    BY <2>1 DEF IInv, RowInv, TypeOK, IsStampMap, Stamp
  <2>3. QED
    BY <2>1, <2>2
<1>3. CASE ResetForUIDValidityChange
  BY <1>3 DEF ResetForUIDValidityChange, EmptyMap
<1>4. ASSUME NEW v \in DOMAIN updates, UpdateFlags(v) PROVE ListedInv'
  <2>1. /\ DOMAIN row' = DOMAIN row /\ cp' = cp /\ uidValidity' = uidValidity
        /\ \A u \in DOMAIN row : row'[u].epoch = row[u].epoch
    BY <1>4 DEF UpdateFlags, IInv, TypeOK, IsStampMap, Stamp, server
  <2>2. QED
    BY <2>1
<1>5. CASE UpsertMetadataBatch
  <2>1. cp.uidValidity \in {0, uidValidity}
    BY <1>5 DEF UpsertMetadataBatch, IInv, SelectionInv, InSelected
  <2>2. QED
    BY <1>5, <2>1 DEF UpsertMetadataBatch, server
<1>6. CASE SaveMidPassCheckpoint \/ SaveFullCheckpoint
  <2>1. InSelected
    BY <1>6 DEF SaveMidPassCheckpoint, SaveFullCheckpoint, InSelected
  <2>2. selected.uidValidity = uidValidity
    BY <2>1 DEF IInv, SelectionInv
  <2>3. SaveMidPassCheckpoint => cp'.uidValidity = selected.uidValidity
    BY DEF SaveMidPassCheckpoint, IInv, TypeOK, Checkpoint
  <2>4. SaveFullCheckpoint => cp'.uidValidity = selected.uidValidity
    BY DEF SaveFullCheckpoint
  <2>5. UNCHANGED uidValidity
    BY <1>6 DEF SaveMidPassCheckpoint, SaveFullCheckpoint, server
  <2>6. QED
    BY <1>6, <2>2, <2>3, <2>4, <2>5
<1>7. CASE DeleteMissingUIDs
  BY <1>7 DEF DeleteMissingUIDs, Drop, server
<1>8. CASE \/ Deliver \/ \E u \in DOMAIN msgs : ChangeFlags(u) \/ Expunge(u)
           \/ UpsertMailbox \/ SelectMailbox \/ SkipUnchanged \/ Enumerate
           \/ FetchChangedSince \/ UpdatesApplied \/ SearchAllUIDs
           \/ FetchChunk \/ SearchForDeletions \/ ReconcileFails \/ Interrupt
  <2>1. UNCHANGED <<row, cp, uidValidity>>
    BY <1>8 DEF Deliver, ChangeFlags, Expunge, UpsertMailbox, SelectMailbox,
                SkipUnchanged, Enumerate, FetchChangedSince, UpdatesApplied,
                SearchAllUIDs, FetchChunk, SearchForDeletions, ReconcileFails,
                Interrupt, local, server
  <2>2. QED
    BY <2>1
<1>9. QED
  BY <1>1, <1>2, <1>3, <1>4, <1>5, <1>6, <1>7, <1>8
     DEF Next, ServerStep, PassStep

\* A step that changes the phase of no row, and no message's being there, is
\* none to the feed.
LEMMA FeedSame ==
    ASSUME DOMAIN msgs' = DOMAIN msgs,
           \A u \in UIDs : RowPhase(u)' = RowPhase(u)
    PROVE  UNCHANGED Feed!vars
BY DEF Feed!vars, FeedPhase

\* Rows of messages that have gone may go, any number at once.
LEMMA FeedRemove ==
    ASSUME DOMAIN msgs' = DOMAIN msgs,
           \A u \in UIDs : \/ RowPhase(u)' = RowPhase(u)
                           \/ /\ RowPhase(u)' = "gone"
                              /\ u \notin DOMAIN msgs
    PROVE  Feed!Next
<1> DEFINE S == {u \in UIDs : RowPhase(u)' # RowPhase(u)}
<1>1. \A u \in UIDs : RowPhase(u) \in {"absent", "listed", "gone"}
  BY DEF RowPhase
<1>2. S \in SUBSET ((Feed!Listed \cup Feed!Absent) \ DOMAIN msgs)
  BY <1>1 DEF Feed!Listed, Feed!Absent, FeedPhase
<1>3. FeedPhase' = [u \in UIDs |-> IF u \in S THEN "gone" ELSE FeedPhase[u]]
  BY DEF FeedPhase
<1>4. Feed!Remove(S)
  BY <1>3 DEF Feed!Remove, Feed!Becomes
<1>5. QED
  BY <1>2, <1>4 DEF Feed!Next

\* UIDs that were absent may be listed, any number at once.
LEMMA FeedList ==
    ASSUME DOMAIN msgs' = DOMAIN msgs,
           \A u \in UIDs : \/ RowPhase(u)' = RowPhase(u)
                           \/ /\ RowPhase(u)' = "listed"
                              /\ RowPhase(u) = "absent"
    PROVE  Feed!Next
<1> DEFINE S == {u \in UIDs : RowPhase(u)' # RowPhase(u)}
<1>1. S \in SUBSET Feed!Absent
  BY DEF Feed!Absent, FeedPhase
<1>2. FeedPhase' = [u \in UIDs |-> IF u \in S THEN "listed" ELSE FeedPhase[u]]
  BY DEF FeedPhase
<1>3. Feed!List(S)
  BY <1>2 DEF Feed!List, Feed!Becomes
<1>4. QED
  BY <1>1, <1>3 DEF Feed!Next

\* Every step of the server is one of the feed's server.
LEMMA FeedServerStep ==
    ASSUME IInv, ServerStep
    PROVE  [Feed!Next]_(Feed!vars)
<1>0. (Deliver => DeliverEffect) /\ (Renumber => RenumberEffect)
  BY ServerEffects DEF IInv
<1>t. uidNext \in Nat /\ uidNext \in 1..(MaxUID + 1) /\ DOMAIN msgs \subseteq UIDs
  BY DEF IInv, TypeOK, IsStampMap
<1>1. CASE Deliver
  <2>1. /\ DOMAIN msgs' = DOMAIN msgs \cup {uidNext}
        /\ uidNext' = uidNext + 1
        /\ UNCHANGED <<row, batch, uidValidity>>
    BY <1>1, <1>0 DEF DeliverEffect, local, pass
  <2>2. uidNext \in UIDs
    BY <1>1, <1>t DEF Deliver, UIDs
  <2>3. uidNext \notin DOMAIN msgs
    BY <1>t DEF IInv, ServerInv
  <2>4. ~(uidNext \in DOMAIN row /\ row[uidNext].epoch = uidValidity)
    BY <1>t DEF IInv, RowInv
  <2>5. RowPhase(uidNext) = "absent"
    BY <2>4, <1>t DEF RowPhase
  <2>6. \A u \in UIDs : RowPhase(u)' = RowPhase(u)
    <3> SUFFICES ASSUME NEW u \in UIDs PROVE RowPhase(u)' = RowPhase(u)
      OBVIOUS
    <3>1. u \in Nat
      BY DEF UIDs
    <3>2. u # uidNext => (u < uidNext' <=> u < uidNext)
      BY <3>1, <2>1, <1>t
    <3>3. CASE u = uidNext
      BY <3>3, <2>1, <2>4, <2>5 DEF RowPhase
    <3>4. CASE u # uidNext
      BY <3>4, <3>2, <2>1 DEF RowPhase
    <3>5. QED
      BY <3>3, <3>4
  <2>7. Feed!Deliver(uidNext)
    BY <2>1, <2>2, <2>3, <2>5, <2>6 DEF Feed!Deliver, FeedPhase
  <2>8. QED
    BY <2>2, <2>7 DEF Feed!Next
<1>2. ASSUME NEW v \in DOMAIN msgs, ChangeFlags(v) PROVE UNCHANGED Feed!vars
  <2>1. DOMAIN msgs' = DOMAIN msgs /\ UNCHANGED <<uidNext, row, batch, uidValidity>>
    BY <1>2 DEF ChangeFlags, local, pass
  <2>2. QED
    BY <2>1, FeedSame DEF RowPhase
<1>3. ASSUME NEW v \in DOMAIN msgs, Expunge(v) PROVE Feed!Next
  <2> DEFINE S == {u \in {v} : RowPhase(u) = "absent" /\ RowPhase(u)' = "gone"}
  <2>1. /\ DOMAIN msgs' = DOMAIN msgs \ {v}
        /\ UNCHANGED <<uidNext, row, batch, uidValidity>>
    BY <1>3 DEF Expunge, local, pass, Drop
  <2>2. v \in UIDs
    BY <1>t
  <2>3. \A u \in UIDs : u # v => RowPhase(u)' = RowPhase(u)
    BY <2>1 DEF RowPhase
  <2>4. \/ RowPhase(v)' = RowPhase(v)
        \/ RowPhase(v) = "absent" /\ RowPhase(v)' = "gone"
    BY <2>1 DEF RowPhase
  <2>5. FeedPhase' = [u \in UIDs |-> IF u \in S THEN "gone" ELSE FeedPhase[u]]
    BY <2>3, <2>4 DEF FeedPhase
  <2>6. S \in SUBSET (Feed!Absent \cap {v})
    BY <2>2 DEF Feed!Absent, FeedPhase
  <2>7. Feed!Expunge(v)
    BY <2>1, <2>5, <2>6 DEF Feed!Expunge, Feed!Becomes
  <2>8. QED
    BY <2>2, <2>7 DEF Feed!Next
<1>4. CASE Renumber
  <2>1. /\ uidValidity' = uidValidity + 1
        /\ \A u \in UIDs : u < uidNext' => u \in DOMAIN msgs'
        /\ row' = row
    BY <1>4, <1>0 DEF RenumberEffect, local
  <2>2. \A u \in DOMAIN row : row[u].epoch # uidValidity'
    BY <2>1 DEF IInv, RowInv, TypeOK, IsStampMap, Stamp
  <2>3. \A u \in UIDs : RowPhase(u)' = "absent"
    BY <2>1, <2>2 DEF RowPhase
  <2>4. DOMAIN msgs' \in SUBSET UIDs
    BY ServerStepType DEF IInv, TypeOK, IsStampMap
  <2>5. Feed!Renumber
    BY <2>3, <2>4 DEF Feed!Renumber, Feed!Becomes, FeedPhase
  <2>6. QED
    BY <2>5 DEF Feed!Next
<1>5. QED
  BY <1>1, <1>2, <1>3, <1>4 DEF ServerStep

\* Every step of a pass records rows, removes rows of messages that have gone,
\* or is none to the feed.
LEMMA FeedPassStep ==
    ASSUME IInv, ListedInv, PassStep \/ ReconcileFails \/ Interrupt
    PROVE  [Feed!Next]_(Feed!vars)
<1>s. UNCHANGED <<msgs, uidNext, uidValidity>>
  BY DEF PassStep, UpsertMailbox, SelectMailbox, ResetForUIDValidityChange,
         SkipUnchanged, Enumerate, FetchChangedSince, UpdateFlags,
         UpdatesApplied, SearchAllUIDs, FetchChunk, UpsertMetadataBatch,
         SaveMidPassCheckpoint, SearchForDeletions, DeleteMissingUIDs,
         SaveFullCheckpoint, ReconcileFails, Interrupt, server
<1>1. CASE ResetForUIDValidityChange
  <2>1. pc = "reset" /\ row' = EmptyMap /\ batch' = batch
    BY <1>1 DEF ResetForUIDValidityChange
  <2>2. cp.uidValidity # uidValidity /\ cp.uidValidity # 0
    BY <2>1 DEF IInv, SelectionInv
  <2>3. \A u \in DOMAIN row : row[u].epoch # uidValidity
    BY <2>2 DEF ListedInv
  <2>4. DOMAIN row' = {}
    BY <2>1 DEF EmptyMap
  <2>5. \A u \in UIDs : RowPhase(u)' = RowPhase(u)
    BY <1>s, <2>1, <2>3, <2>4 DEF RowPhase
  <2>6. QED
    BY <1>s, <2>5, FeedSame
<1>2. ASSUME NEW v \in DOMAIN updates, UpdateFlags(v) PROVE UNCHANGED Feed!vars
  <2>1. /\ DOMAIN row' = DOMAIN row /\ batch' = batch
        /\ \A u \in DOMAIN row : row'[u].epoch = row[u].epoch
    BY <1>2 DEF UpdateFlags, IInv, TypeOK, IsStampMap, Stamp
  <2>2. \A u \in UIDs : RowPhase(u)' = RowPhase(u)
    BY <1>s, <2>1 DEF RowPhase
  <2>3. QED
    BY <1>s, <2>2, FeedSame
<1>3. CASE FetchChunk
  <2>1. DOMAIN batch = {} /\ row' = row
    BY <1>3 DEF FetchChunk, IInv, RowInv, local
  <2>2. DOMAIN batch' \subseteq DOMAIN msgs
    BY <1>3 DEF FetchChunk
  <2>3. \A u \in UIDs : RowPhase(u)' = RowPhase(u)
    BY <1>s, <2>1, <2>2 DEF RowPhase
  <2>4. QED
    BY <1>s, <2>3, FeedSame
<1>4. CASE UpsertMetadataBatch
  <2>1. row' = Overlay(row, batch) /\ DOMAIN batch' = {}
    BY <1>4 DEF UpsertMetadataBatch, EmptyMap
  <2>2. \A u \in DOMAIN batch : batch[u].epoch = uidValidity
    BY DEF IInv, RowInv
  <2>3. ASSUME NEW u \in UIDs
        PROVE  \/ RowPhase(u)' = RowPhase(u)
               \/ RowPhase(u)' = "listed" /\ RowPhase(u) = "absent"
    <3>1. CASE u \in DOMAIN batch
      <4>1. RowPhase(u)' = "listed"
        BY <1>s, <2>1, <2>2, <3>1 DEF RowPhase, Overlay
      <4>2. RowPhase(u) \in {"listed", "absent"}
        BY <3>1 DEF RowPhase
      <4>3. QED
        BY <4>1, <4>2
    <3>2. CASE u \notin DOMAIN batch
      <4>1. u \in DOMAIN row' <=> u \in DOMAIN row
        BY <2>1, <3>2 DEF Overlay
      <4>2. u \in DOMAIN row => row'[u] = row[u]
        BY <2>1, <3>2 DEF Overlay
      <4>3. QED
        BY <1>s, <2>1, <3>2, <4>1, <4>2 DEF RowPhase
    <3>3. QED
      BY <3>1, <3>2
  <2>4. QED
    BY <1>s, <2>3, FeedList
<1>5. CASE DeleteMissingUIDs
  <2>1. /\ pc = "delete" /\ batch' = batch
        /\ row' = Drop(row, DOMAIN row \ present)
    BY <1>5 DEF DeleteMissingUIDs, pass
  <2>2. DOMAIN batch = {}
    BY <2>1 DEF IInv, RowInv
  <2>3. ASSUME NEW u \in UIDs
        PROVE  \/ RowPhase(u)' = RowPhase(u)
               \/ RowPhase(u)' = "gone" /\ u \notin DOMAIN msgs
    <3>1. CASE u \in DOMAIN row /\ row[u].epoch = uidValidity /\ u \notin present
      <4>1. u \notin DOMAIN row' /\ u < uidNext
        BY <2>1, <3>1 DEF Drop, IInv, RowInv
      <4>2. u \notin DOMAIN msgs
        BY <2>1, <3>1 DEF IInv, EnumerationInv
      <4>3. QED
        BY <1>s, <2>1, <2>2, <4>1, <4>2 DEF RowPhase
    <3>2. CASE ~(u \in DOMAIN row /\ row[u].epoch = uidValidity /\ u \notin present)
      <4>1. (u \in DOMAIN row' /\ row'[u].epoch = uidValidity)
            <=> (u \in DOMAIN row /\ row[u].epoch = uidValidity)
        BY <2>1, <3>2 DEF Drop
      <4>2. QED
        BY <1>s, <2>1, <4>1 DEF RowPhase
    <3>3. QED
      BY <3>1, <3>2
  <2>4. QED
    BY <1>s, <2>3, FeedRemove
<1>6. CASE SkipUnchanged \/ SaveFullCheckpoint \/ Interrupt
  <2>1. row' = row /\ DOMAIN batch' = {}
    BY <1>6 DEF SkipUnchanged, SaveFullCheckpoint, Interrupt, ClearPass, local,
                EmptyMap
  <2>2. \A u \in UIDs : \/ RowPhase(u)' = RowPhase(u)
                        \/ RowPhase(u)' = "gone" /\ u \notin DOMAIN msgs
    BY <1>s, <2>1 DEF RowPhase
  <2>3. QED
    BY <1>s, <2>2, FeedRemove
<1>7. CASE \/ UpsertMailbox \/ SelectMailbox \/ Enumerate \/ FetchChangedSince
           \/ UpdatesApplied \/ SearchAllUIDs \/ SaveMidPassCheckpoint
           \/ SearchForDeletions \/ ReconcileFails
  <2>1. UNCHANGED <<row, batch>>
    BY <1>7 DEF UpsertMailbox, SelectMailbox, Enumerate, FetchChangedSince,
                UpdatesApplied, SearchAllUIDs, SaveMidPassCheckpoint,
                SearchForDeletions, ReconcileFails, local, pass
  <2>2. QED
    BY <1>s, <2>1, FeedSame DEF RowPhase
<1>8. QED
  BY <1>1, <1>2, <1>3, <1>4, <1>5, <1>6, <1>7 DEF PassStep

\* The metadata pass implements RowFeed: to whoever reads the rows beside it,
\* each is recorded once, goes only after its message, and stays gone.
THEOREM MetadataPassImplementsFeed == Spec => ImplementsFeed
<1>1. Init => ListedInv
  BY DEF Init, ListedInv, EmptyMap
<1>2. Init => Feed!Init
  <2> SUFFICES ASSUME Init PROVE Feed!Init
    OBVIOUS
  <2>1. PICK n \in 0..MaxUID : /\ msgs = [u \in 1..n |-> [epoch |-> 1, modSeq |-> 1]]
                               /\ uidNext = n + 1
    BY DEF Init
  <2>2. DOMAIN msgs = 1..n /\ 1..n \subseteq UIDs
    BY <2>1 DEF UIDs
  <2>3. DOMAIN row = {}
    BY DEF Init, EmptyMap
  <2>4. \A u \in UIDs : RowPhase(u) = "absent"
    BY <2>1, <2>2, <2>3 DEF RowPhase, UIDs
  <2>5. QED
    BY <2>2, <2>4 DEF Feed!Init, FeedPhase
<1>3. IInv /\ ListedInv /\ [Next]_vars => [Feed!Next]_(Feed!vars)
  <2> SUFFICES ASSUME IInv, ListedInv, [Next]_vars
               PROVE  [Feed!Next]_(Feed!vars)
    OBVIOUS
  <2>1. CASE UNCHANGED vars
    <3>1. UNCHANGED <<msgs, uidNext, uidValidity, row, batch>>
      BY <2>1 DEF vars, server, local, pass
    <3>2. QED
      BY <3>1, FeedSame DEF RowPhase
  <2>2. CASE Next
    BY <2>2, FeedServerStep, FeedPassStep DEF Next
  <2>3. QED
    BY <2>1, <2>2
<1>4. QED
  BY Inductive, ListedInvStep, <1>1, <1>2, <1>3, PTL
     DEF Spec, ImplementsFeed, Feed!Spec

=============================================================================
