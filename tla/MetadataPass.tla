---------------------------- MODULE MetadataPass ----------------------------
(***************************************************************************)
(* The metadata half of syncMailbox: one mailbox of the upstream IMAP      *)
(* server, the rows the mirror keeps for it, the checkpoint stored with    *)
(* the mailbox, and the pass that brings the two together.                 *)
(*                                                                         *)
(* The server is external.  A message is known by its UID and the          *)
(* UIDVALIDITY it was given under; the modification sequence of its last   *)
(* change stands for its flags.  A row that holds both numbers of the      *)
(* server's message is a row for that message, with its flags.  Other      *)
(* clients of the server act between any two commands of the pass.         *)
(***************************************************************************)
EXTENDS Integers, FiniteSets

CONSTANTS
    CondStore,      \* the server has CONDSTORE and the configuration uses it
    ExpungeBumps,   \* whether an expunge may raise HIGHESTMODSEQ: a subset of BOOLEAN
    ChunkSize,      \* sync.metadata_batch_messages
    MaxUID,         \* bound on the UIDs the server hands out
    MaxModSeq,      \* bound on HIGHESTMODSEQ
    MaxValidity,    \* bound on UIDVALIDITY
    MaxFaults       \* bound on the failures of one behaviour

ASSUME ConstantsAssumption ==
    /\ CondStore \in BOOLEAN
    /\ ExpungeBumps \in SUBSET BOOLEAN
    /\ ChunkSize \in Nat
    /\ MaxUID \in Nat
    /\ MaxModSeq \in Nat \ {0}
    /\ MaxValidity \in Nat \ {0}
    /\ MaxFaults \in Nat

VARIABLES
    msgs,           \* upstream: UID -> Stamp of the message
    uidNext,        \* upstream UIDNEXT
    highestModSeq,  \* upstream HIGHESTMODSEQ
    uidValidity,    \* upstream UIDVALIDITY
    row,            \* mailbox_messages with an upstream_uid: UID -> Stamp held
    orphans,        \* number of mailbox_messages whose upstream_uid is NULL
    cp,             \* the sync columns of the mailboxes row
    pc,             \* where the pass is; "idle" between two passes
    box,            \* the mailboxes row as the pass read it
    selected,       \* the answer to SELECT
    known,          \* ExistingUpstreamUIDs as the pass read it
    todo,           \* UIDs of the chunks not fetched yet
    updates,        \* flag changes received and not applied yet
    batch,          \* new messages received and not recorded yet
    highestSeen,    \* highest UID fetched by the pass
    present,        \* UIDs the deletion scan was told of
    faults          \* failures so far

server == <<msgs, uidNext, highestModSeq, uidValidity>>
local == <<row, orphans, cp>>
pass == <<box, selected, known, todo, updates, batch, highestSeen, present>>
vars == <<server, local, pc, pass, faults>>

-----------------------------------------------------------------------------
(* Values *)

UIDs == 1..MaxUID
Stamp == [epoch : Nat, modSeq : Nat]
IsStampMap(f) == DOMAIN f \subseteq UIDs /\ f \in [DOMAIN f -> Stamp]
EmptyMap == [u \in {} |-> [epoch |-> 0, modSeq |-> 0]]

Checkpoint == [uidValidity : Nat, uidNext : Nat, highestModSeq : Nat,
               through : Nat]
Selection == [uidValidity : Nat, uidNext : Nat, highestModSeq : Nat,
              numMessages : Nat]

\* A mailboxes row just created: every sync column NULL or 0 (0 for NULL).
NewCheckpoint == [uidValidity |-> 0, uidNext |-> 0, highestModSeq |-> 0,
                  through |-> 0]
NoSelection == [uidValidity |-> 0, uidNext |-> 0, highestModSeq |-> 0,
                numMessages |-> 0]

Phases == {"idle", "select", "reset", "check", "changed", "applyChanged",
           "search", "chunks", "applyChunk", "record", "midCheckpoint",
           "delete", "final"}

Greatest(a, b) == IF a >= b THEN a ELSE b

Overlay(f, g) ==
    [u \in DOMAIN f \cup DOMAIN g |-> IF u \in DOMAIN g THEN g[u] ELSE f[u]]

Drop(f, S) == [u \in DOMAIN f \ S |-> f[u]]

\* CountMailboxMessages counts the rows without an upstream UID too.
CountMailboxMessages == Cardinality(DOMAIN row) + orphans

-----------------------------------------------------------------------------
(* The upstream server, driven by its other clients *)

\* A message arrives.
Deliver ==
    /\ uidNext <= MaxUID
    /\ highestModSeq < MaxModSeq
    /\ msgs' = Overlay(msgs, [u \in {uidNext} |->
                                  [epoch |-> uidValidity,
                                   modSeq |-> highestModSeq + 1]])
    /\ uidNext' = uidNext + 1
    /\ highestModSeq' = highestModSeq + 1
    /\ UNCHANGED <<uidValidity, local, pc, pass, faults>>

\* Another client changes the flags of a message.
ChangeFlags(u) ==
    /\ highestModSeq < MaxModSeq
    /\ msgs' = [msgs EXCEPT ![u].modSeq = highestModSeq + 1]
    /\ highestModSeq' = highestModSeq + 1
    /\ UNCHANGED <<uidNext, uidValidity, local, pc, pass, faults>>

\* Another client expunges a message; only some servers count that as a
\* change of the mailbox.
Expunge(u) ==
    /\ msgs' = Drop(msgs, {u})
    /\ \E bump \in ExpungeBumps :
          IF bump THEN /\ highestModSeq < MaxModSeq
                       /\ highestModSeq' = highestModSeq + 1
                  ELSE UNCHANGED highestModSeq
    /\ UNCHANGED <<uidNext, uidValidity, local, pc, pass, faults>>

\* The mailbox is renumbered, or deleted and created again.  That does not
\* happen under a connection that has it selected: the server closes it first.
Renumber ==
    /\ pc \in {"idle", "select"}
    /\ uidValidity < MaxValidity
    /\ uidValidity' = uidValidity + 1
    /\ \E n \in 0..MaxUID, h \in {1, highestModSeq} :
          /\ msgs' = [u \in 1..n |-> [epoch |-> uidValidity + 1, modSeq |-> h]]
          /\ uidNext' = n + 1
          /\ highestModSeq' = h
    /\ UNCHANGED <<local, pc, pass, faults>>

ServerStep ==
    \/ Deliver
    \/ \E u \in DOMAIN msgs : ChangeFlags(u) \/ Expunge(u)
    \/ Renumber

-----------------------------------------------------------------------------
(* The pass *)

\* syncMailbox begins: UpsertMailbox returns the row with its checkpoint.
UpsertMailbox ==
    /\ pc = "idle"
    /\ box' = cp
    /\ pc' = "select"
    /\ UNCHANGED <<server, local, selected, known, todo, updates, batch,
                   highestSeen, present, faults>>

\* SELECT, and the comparison of its UIDVALIDITY with the stored one.
SelectMailbox ==
    /\ pc = "select"
    /\ selected' = [uidValidity |-> uidValidity, uidNext |-> uidNext,
                    highestModSeq |-> IF CondStore THEN highestModSeq ELSE 0,
                    numMessages |-> Cardinality(DOMAIN msgs)]
    /\ pc' = IF box.uidValidity # 0 /\ box.uidValidity # uidValidity
             THEN "reset" ELSE "check"
    /\ UNCHANGED <<server, local, box, known, todo, updates, batch,
                   highestSeen, present, faults>>

\* A mutant of the action below: the rows keep their UIDs.
ResetForUIDValidityChange_KeepsRows ==
    /\ pc = "reset"
    /\ cp' = [cp EXCEPT !.uidValidity = selected.uidValidity,
                        !.highestModSeq = 0, !.through = 0]
    /\ box' = cp'
    /\ pc' = "check"
    /\ UNCHANGED <<server, row, orphans, selected, known, todo, updates, batch,
                   highestSeen, present, faults>>

\* Every row loses its upstream UID and the checkpoint is taken back; uidnext
\* keeps its value.  The mailbox is read again afterwards.
ResetForUIDValidityChange ==
    /\ pc = "reset"
    /\ orphans' = orphans + Cardinality(DOMAIN row)
    /\ row' = EmptyMap
    /\ cp' = [cp EXCEPT !.uidValidity = selected.uidValidity,
                        !.highestModSeq = 0, !.through = 0]
    /\ box' = cp'
    /\ pc' = "check"
    /\ UNCHANGED <<server, selected, known, todo, updates, batch, highestSeen,
                   present, faults>>

useCondStore == CondStore /\ selected.highestModSeq > 0

Unchanged ==
    /\ useCondStore
    /\ box.highestModSeq = selected.highestModSeq
    /\ box.uidNext = selected.uidNext
    /\ box.through > 0
    /\ CountMailboxMessages >= selected.numMessages

ClearPass ==
    /\ box' = NewCheckpoint
    /\ selected' = NoSelection
    /\ known' = {}
    /\ todo' = {}
    /\ updates' = EmptyMap
    /\ batch' = EmptyMap
    /\ highestSeen' = 0
    /\ present' = {}

\* Nothing changed according to SELECT: the pass ends here.
SkipUnchanged ==
    /\ pc = "check"
    /\ Unchanged
    /\ pc' = "idle"
    /\ ClearPass
    /\ UNCHANGED <<server, local, faults>>

Enumerate ==
    /\ pc = "check"
    /\ ~Unchanged
    /\ pc' = IF useCondStore /\ box.highestModSeq > 0 THEN "changed"
                                                      ELSE "search"
    /\ UNCHANGED <<server, local, pass, faults>>

\* A mutant of the action below: asks from the sequence SELECT just returned.
FetchChangedSince_FromSelected ==
    /\ pc = "changed"
    /\ updates' = [u \in {v \in DOMAIN msgs :
                            msgs[v].modSeq > selected.highestModSeq}
                      |-> msgs[u]]
    /\ pc' = "applyChanged"
    /\ UNCHANGED <<server, local, box, selected, known, todo, batch,
                   highestSeen, present, faults>>

\* FETCH 1:* (FLAGS) (CHANGEDSINCE n)
FetchChangedSince ==
    /\ pc = "changed"
    /\ updates' = [u \in {v \in DOMAIN msgs :
                            msgs[v].modSeq > box.highestModSeq}
                      |-> msgs[u]]
    /\ pc' = "applyChanged"
    /\ UNCHANGED <<server, local, box, selected, known, todo, batch,
                   highestSeen, present, faults>>

\* One UPDATE, committed by itself; it matches nothing when there is no row.
UpdateFlags(u) ==
    /\ pc \in {"applyChanged", "applyChunk"}
    /\ row' = [v \in DOMAIN row |->
                  IF v = u THEN [row[v] EXCEPT !.modSeq = updates[u].modSeq]
                           ELSE row[v]]
    /\ updates' = Drop(updates, {u})
    /\ UNCHANGED <<server, orphans, cp, pc, box, selected, known, todo, batch,
                   highestSeen, present, faults>>

UpdatesApplied ==
    /\ pc \in {"applyChanged", "applyChunk"}
    /\ DOMAIN updates = {}
    /\ pc' = IF pc = "applyChanged" THEN "search" ELSE "record"
    /\ UNCHANGED <<server, local, pass, faults>>

\* SEARCH ALL, ExistingUpstreamUIDs, and what is left to fetch.
SearchAllUIDs ==
    /\ pc = "search"
    /\ known' = DOMAIN row
    /\ todo' = IF useCondStore THEN DOMAIN msgs \ DOMAIN row ELSE DOMAIN msgs
    /\ highestSeen' = box.through
    /\ pc' = "chunks"
    /\ UNCHANGED <<server, local, box, selected, updates, batch, present,
                   faults>>

\* The next set of PlanMetadataChunks: the lowest UIDs not fetched yet.
NextChunk ==
    LET size == Greatest(ChunkSize, 1)
    IN  {u \in todo : Cardinality({v \in todo : v < u}) < size}

\* FETCH of one chunk.  A message expunged meanwhile is not in the answer.
FetchChunk ==
    /\ pc = "chunks"
    /\ todo # {}
    /\ LET got == NextChunk \cap DOMAIN msgs IN
          /\ updates' = [u \in {v \in got : v \in known /\ ~useCondStore}
                            |-> msgs[u]]
          /\ batch' = [u \in got \ known |-> msgs[u]]
          /\ highestSeen' \in got \cup {highestSeen}
          /\ \A u \in got \cup {highestSeen} : u <= highestSeen'
    /\ todo' = todo \ NextChunk
    /\ pc' = "applyChunk"
    /\ UNCHANGED <<server, local, box, selected, known, present, faults>>

\* The chunk's new messages, in one transaction; an existing row keeps
\* everything but its flags.
UpsertMetadataBatch ==
    /\ pc = "record"
    /\ row' = Overlay(row, batch)
    /\ batch' = EmptyMap
    /\ pc' = "midCheckpoint"
    /\ UNCHANGED <<server, orphans, cp, box, selected, known, todo, updates,
                   highestSeen, present, faults>>

\* A mutant of the action below: the server's numbers saved before every chunk
\* is in.
SaveMidPassCheckpoint_Early ==
    /\ pc = "midCheckpoint"
    /\ cp' = [uidValidity |-> selected.uidValidity,
              uidNext |-> selected.uidNext,
              highestModSeq |-> Greatest(cp.highestModSeq,
                                         selected.highestModSeq),
              through |-> Greatest(cp.through, highestSeen)]
    /\ pc' = "chunks"
    /\ UNCHANGED <<server, row, orphans, pass, faults>>

\* SaveCheckpoint after a chunk: only how far enumeration has reached.
SaveMidPassCheckpoint ==
    /\ pc = "midCheckpoint"
    /\ cp' = [cp EXCEPT !.uidValidity = selected.uidValidity,
                        !.through = Greatest(@, highestSeen)]
    /\ pc' = "chunks"
    /\ UNCHANGED <<server, row, orphans, pass, faults>>

\* Mutants of the action below: only a deficit starts the scan; the scan is
\* given the UIDs that were new instead of the UIDs that exist.
SearchForDeletions_OnlyWhenFewer ==
    /\ pc = "chunks"
    /\ todo = {}
    /\ IF CountMailboxMessages >= selected.numMessages
       THEN /\ pc' = "final"
            /\ UNCHANGED present
       ELSE /\ pc' = "delete"
            /\ present' = DOMAIN msgs
    /\ UNCHANGED <<server, local, box, selected, known, todo, updates, batch,
                   highestSeen, faults>>

SearchForDeletions_NewOnly ==
    /\ pc = "chunks"
    /\ todo = {}
    /\ IF CountMailboxMessages = selected.numMessages
       THEN /\ pc' = "final"
            /\ UNCHANGED present
       ELSE /\ pc' = "delete"
            /\ present' = DOMAIN msgs \ known
    /\ UNCHANGED <<server, local, box, selected, known, todo, updates, batch,
                   highestSeen, faults>>

\* reconcileDeletions: equal counts mean there is nothing to remove.
SearchForDeletions ==
    /\ pc = "chunks"
    /\ todo = {}
    /\ IF CountMailboxMessages = selected.numMessages
       THEN /\ pc' = "final"
            /\ UNCHANGED present
       ELSE /\ pc' = "delete"
            /\ present' = DOMAIN msgs
    /\ UNCHANGED <<server, local, box, selected, known, todo, updates, batch,
                   highestSeen, faults>>

\* A mutant of the action below: compares with what the pass knew before.
DeleteMissingUIDs_Known ==
    /\ pc = "delete"
    /\ row' = Drop(row, DOMAIN row \ known)
    /\ pc' = "final"
    /\ UNCHANGED <<server, orphans, cp, pass, faults>>

DeleteMissingUIDs ==
    /\ pc = "delete"
    /\ row' = Drop(row, DOMAIN row \ present)
    /\ pc' = "final"
    /\ UNCHANGED <<server, orphans, cp, pass, faults>>

\* The scan for deletions fails; the pass logs that and goes on.
ReconcileFails ==
    /\ pc = "delete" \/ (pc = "chunks" /\ todo = {})
    /\ faults < MaxFaults
    /\ faults' = faults + 1
    /\ pc' = "final"
    /\ UNCHANGED <<server, local, pass>>

\* SaveCheckpoint with FullScanCompleted.
SaveFullCheckpoint ==
    /\ pc = "final"
    /\ cp' = [uidValidity |-> selected.uidValidity,
              uidNext |-> selected.uidNext,
              highestModSeq |-> Greatest(cp.highestModSeq,
                                         selected.highestModSeq),
              through |-> Greatest(cp.through, highestSeen)]
    /\ pc' = "idle"
    /\ ClearPass
    /\ UNCHANGED <<server, row, orphans, faults>>

\* A command or a statement fails, the run is cancelled or the process dies:
\* what is committed stays, the rest of the pass is gone.
Interrupt ==
    /\ pc # "idle"
    /\ faults < MaxFaults
    /\ faults' = faults + 1
    /\ pc' = "idle"
    /\ ClearPass
    /\ UNCHANGED <<server, local>>

PassStep ==
    \/ UpsertMailbox
    \/ SelectMailbox
    \/ ResetForUIDValidityChange
    \/ SkipUnchanged
    \/ Enumerate
    \/ FetchChangedSince
    \/ \E u \in DOMAIN updates : UpdateFlags(u)
    \/ UpdatesApplied
    \/ SearchAllUIDs
    \/ FetchChunk
    \/ UpsertMetadataBatch
    \/ SaveMidPassCheckpoint
    \/ SearchForDeletions
    \/ DeleteMissingUIDs
    \/ SaveFullCheckpoint

-----------------------------------------------------------------------------
(* Specification *)

\* A mailbox with messages in it that has never been synchronised.
Init ==
    /\ \E n \in 0..MaxUID : /\ msgs = [u \in 1..n |-> [epoch |-> 1, modSeq |-> 1]]
                            /\ uidNext = n + 1
    /\ highestModSeq = 1
    /\ uidValidity = 1
    /\ row = EmptyMap
    /\ orphans = 0
    /\ cp = NewCheckpoint
    /\ pc = "idle"
    /\ box = NewCheckpoint
    /\ selected = NoSelection
    /\ known = {}
    /\ todo = {}
    /\ updates = EmptyMap
    /\ batch = EmptyMap
    /\ highestSeen = 0
    /\ present = {}
    /\ faults = 0

Next == ServerStep \/ PassStep \/ ReconcileFails \/ Interrupt

Spec == Init /\ [][Next]_vars

\* The sync loop starts a pass over and over and a pass that does not fail
\* runs to its end; nothing is asked of the server's other clients.
FairSpec == Spec /\ WF_vars(PassStep)

-----------------------------------------------------------------------------
(* Properties *)

\* Type invariant.
TypeOK ==
    /\ IsStampMap(msgs)
    /\ uidNext \in 1..(MaxUID + 1)
    /\ highestModSeq \in Nat \ {0}
    /\ uidValidity \in Nat \ {0}
    /\ IsStampMap(row)
    /\ orphans \in Nat
    /\ cp \in Checkpoint
    /\ pc \in Phases
    /\ box \in Checkpoint
    /\ selected \in Selection
    /\ known \in SUBSET UIDs
    /\ todo \in SUBSET UIDs
    /\ IsStampMap(updates)
    /\ IsStampMap(batch)
    /\ highestSeen \in Nat
    /\ present \in SUBSET UIDs
    /\ faults \in 0..MaxFaults

CurrentEpoch == cp.uidValidity = uidValidity

\* Once a modification sequence is stored, every message the server still
\* holds below the stored UIDNEXT has a row.  It is what makes the shortcut of
\* metadataPass (skip when SELECT reports the stored values) safe for new
\* mail, however passes were interrupted before: the comment in SaveCheckpoint
\* about skipping "the remainder forever" is the failure this excludes.
NoMissedMessage ==
    CurrentEpoch /\ cp.highestModSeq > 0 =>
        \A u \in DOMAIN msgs : u < cp.uidNext => u \in DOMAIN row

\* Every flag change up to the stored modification sequence has been applied:
\* "The modification sequence is advanced only now, after every change it
\* covers has been committed" (metadataPass).
FlagsCovered ==
    CurrentEpoch =>
        \A u \in DOMAIN msgs \cap DOMAIN row :
            msgs[u].modSeq <= cp.highestModSeq =>
                row[u].modSeq = msgs[u].modSeq

\* From the first completed pass on, no step of a later pass, interrupted or
\* not, loses a flag change by advancing the sequence past it.
FlagsSurvive ==
    [][CurrentEpoch /\ cp.highestModSeq > 0 /\ FlagsCovered
          => FlagsCovered']_vars

\* Rows with an upstream UID were recorded under the stored UIDVALIDITY: "A
\* changed UIDVALIDITY means [...] every UID we hold is meaningless"
\* (syncMailbox), so none is held across the change.
RowsOfOneEpoch ==
    cp.uidValidity # 0 =>
        \A u \in DOMAIN row : row[u].epoch = cp.uidValidity

\* From the first checkpoint on, no row outlives a renumbering with its UID.
EpochsStaySeparate ==
    [][cp.uidValidity # 0 /\ RowsOfOneEpoch => RowsOfOneEpoch']_vars

\* A row goes away, other than by renumbering, only after its message has gone
\* upstream, whatever arrived between the commands of the pass.
NeverDropsLive ==
    [][cp'.uidValidity = cp.uidValidity =>
          \A u \in DOMAIN row \ DOMAIN row' :
              u \in DOMAIN msgs => row[u].epoch # msgs[u].epoch]_vars

\* What a UID is to a reader of the rows: it has a row of the present
\* numbering, or its message has gone and the pass has nothing of it in hand.
RowPhase(u) ==
    IF u \in DOMAIN row /\ row[u].epoch = uidValidity THEN "listed"
    ELSE IF u < uidNext /\ u \notin DOMAIN msgs \cup DOMAIN batch THEN "gone"
    ELSE "absent"

FeedPhase == [u \in UIDs |-> RowPhase(u)]

Feed == INSTANCE RowFeed WITH phase <- FeedPhase, upstream <- DOMAIN msgs

\* The body pass, the IMAP server and the web interface read the rows while a
\* pass is under way.  To them each is recorded once, goes only after its
\* message and does not come back, however stale the listing is that the pass
\* works from and wherever passes were interrupted.
ImplementsFeed == Feed!Spec

\* Without CONDSTORE: when the server's other clients and the failures stop,
\* the rows with an upstream UID come to be the mailbox, flags included,
\* unless one outlived a renumbering before the first checkpoint.
Converges == []RowsOfOneEpoch => <>[](row = msgs)

=============================================================================
