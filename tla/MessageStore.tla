---------------------------- MODULE MessageStore ----------------------------
(***************************************************************************)
(* What the mirror keeps of a mailbox: a row of mailbox_messages for every *)
(* appearance of a message, the messages row it points at, and the stored  *)
(* body.  The metadata pass lists a message under a placeholder digest     *)
(* made of mailbox and UID; AttachBody replaces it by the digest of the    *)
(* body, or points the row at the messages row that has that digest        *)
(* already.  Workers do this at the same time, for copies of one message   *)
(* too, and between its statements a process may die.                      *)
(*                                                                         *)
(* One mailbox: a copy in another one is one more copy here.  A body is    *)
(* its content, and so is its digest.  Claims and attempts are BodyPass's, *)
(* checkpoints MetadataPass's.                                             *)
(***************************************************************************)
EXTENDS Integers, FiniteSets

CONSTANTS
    Contents,       \* bodies
    Untitled,       \* the bodies without a Subject header
    Workers,
    MaxUID,         \* the server uses the UIDs 1..MaxUID
    MaxEpoch,       \* bound on its UIDVALIDITYs
    MaxRows,        \* bound on the rows ever made
    MaxFaults,      \* bound on the failures of one behaviour
    None            \* no content

ASSUME ConstantsAssumption ==
    /\ Untitled \subseteq Contents
    /\ MaxUID \in Nat
    /\ MaxEpoch \in Nat \ {0}
    /\ MaxRows \in Nat
    /\ MaxFaults \in Nat
    /\ None \notin Contents

VARIABLES
    upstream,       \* the content under each UID of the server
    epoch,          \* the server's UIDVALIDITY
    validity,       \* mailboxes.uidvalidity
    selected,       \* the UIDVALIDITY the pass under way was given by SELECT
    rows,           \* mailbox_messages
    messages,       \* messages
    lastRow,        \* ids given so far
    blobs,          \* contents in the blob store
    worker,         \* each worker's step, row, content, and look-up's result
    reaped,         \* history: rows reaped in a worker's hand during this pass
    doubtful,       \* history: messages rows to which such a row was attached
    faults          \* failures so far

vars == <<upstream, epoch, validity, selected, rows, messages, lastRow, blobs,
          worker, reaped, doubtful, faults>>
late == <<reaped, doubtful>>

-----------------------------------------------------------------------------
(* Values *)

UIDs == 1 .. MaxUID
Ids == 1 .. MaxRows
NoUID == 0          \* upstream_uid is NULL

\* A row that is not there, and a worker that has nothing in hand.
NoRow == [uid |-> NoUID, mid |-> 0, state |-> "none", of |-> None, epoch |-> 0]
NoMessage == [digest |-> None, uid |-> NoUID, subject |-> None, envelope |-> None,
              received |-> None, blob |-> None, parsed |-> None]
Free == [step |-> "free", row |-> 0, uid |-> NoUID, content |-> None, existing |-> 0]

Live == {r \in Ids : rows[r] # NoRow}
LiveMessages == {i \in Ids : messages[i] # NoMessage}

\* placeholderDigest: a messages row without content is known by its UID.
Placeholder(u) == {i \in LiveMessages : messages[i].digest = None /\ messages[i].uid = u}
WithDigest(c) == {i \in LiveMessages : messages[i].digest = c}
Listed(u) == \E r \in Live : rows[r].uid = u
PointingAt(i) == {r \in Live : rows[r].mid = i}

\* A pass is under way.
Running == selected # 0

Fault == faults < MaxFaults /\ faults' = faults + 1

\* The rows AttachBody's transaction has locked.
Locked == {worker[w].row : w \in {v \in Workers : worker[v].step = "attach"}}

\* A worker has its row in hand until the body is recorded.
InHand(w) == IF worker[w].step \in {"free", "ingest"} THEN 0 ELSE worker[w].row
InHands == {InHand(w) : w \in Workers}

-----------------------------------------------------------------------------
(* The server *)

Expunge(u) ==
    /\ upstream[u] # None
    /\ upstream' = [upstream EXCEPT ![u] = None]
    /\ UNCHANGED <<epoch, validity, selected, rows, messages, lastRow, blobs,
                   worker, late, faults>>

\* The same messages under other UIDs, and a new UIDVALIDITY.
Renumber ==
    /\ epoch < MaxEpoch
    /\ epoch' = epoch + 1
    /\ \E p \in [UIDs -> UIDs] :
          /\ \A u, v \in UIDs : u # v => p[u] # p[v]
          /\ upstream' = [u \in UIDs |-> upstream[p[u]]]
    /\ UNCHANGED <<validity, selected, rows, messages, lastRow, blobs, worker,
                   late, faults>>

-----------------------------------------------------------------------------
(* A pass, and its metadata half *)

\* The rows of a renumbered mailbox are kept without their UIDs.
ResetForUIDValidityChange ==
    rows' = [r \in Ids |-> IF r \in Live THEN [rows[r] EXCEPT !.uid = NoUID] ELSE rows[r]]

\* SELECT, and the comparison of its UIDVALIDITY with the one stored.
StartPass ==
    /\ ~Running
    /\ selected' = epoch
    /\ IF validity \notin {0, epoch}
       THEN ResetForUIDValidityChange /\ validity' = epoch
       ELSE UNCHANGED <<rows, validity>>
    /\ UNCHANGED <<upstream, epoch, messages, lastRow, blobs, worker, late,
                   faults>>

\* SaveCheckpoint, after a chunk of the listing and at its end.
SaveCheckpoint ==
    /\ Running
    /\ validity' = selected
    /\ UNCHANGED <<upstream, epoch, selected, rows, messages, lastRow, blobs,
                   worker, late, faults>>

\* What the listing says of the message under a UID: its subject, its envelope
\* (addresses, Message-ID, references, date, and the size until the body is
\* recorded) and when it was received.
Described(u) ==
    [NoMessage EXCEPT !.uid = u, !.subject = upstream[u], !.envelope = upstream[u],
                      !.received = upstream[u]]

\* A mutant of the operator below: what is there is left as it is.
UpsertMessage_DoNothing(u, id) ==
    IF Placeholder(u) # {}
    THEN UNCHANGED messages
    ELSE messages' = [messages EXCEPT ![id] = Described(u)]

\* The INSERT into messages: on a placeholder that exists only the subject is
\* written, the other columns still describe the message it was made for.
UpsertMessage(u, id) ==
    IF Placeholder(u) # {}
    THEN messages' = [i \in Ids |-> IF i \in Placeholder(u)
                                    THEN [messages[i] EXCEPT !.subject = upstream[u]]
                                    ELSE messages[i]]
    ELSE messages' = [messages EXCEPT ![id] = Described(u)]

\* upsertMetadataTx for a UID without a row.  The connection of the metadata
\* pass serves the numbering of its SELECT.
UpsertMetadata(u) ==
    /\ Running
    /\ selected = epoch
    /\ upstream[u] # None
    /\ ~Listed(u)
    /\ lastRow < MaxRows
    /\ lastRow' = lastRow + 1
    /\ UpsertMessage(u, lastRow + 1)
    /\ rows' = [rows EXCEPT ![lastRow + 1] =
                  [uid |-> u,
                   mid |-> IF Placeholder(u) # {} THEN CHOOSE i \in Placeholder(u) : TRUE
                                                  ELSE lastRow + 1,
                   state |-> "pending", of |-> upstream[u], epoch |-> epoch]]
    /\ UNCHANGED <<upstream, epoch, validity, selected, blobs, worker, late,
                   faults>>

\* DeleteMissingUIDs, which waits for the rows that are locked.
DeleteMissing ==
    /\ Running
    /\ selected = epoch
    /\ LET missing == {r \in Live : rows[r].uid # NoUID /\ upstream[rows[r].uid] = None} IN
          /\ missing # {}
          /\ missing \cap Locked = {}
          /\ rows' = [r \in Ids |-> IF r \in missing THEN NoRow ELSE rows[r]]
    /\ UNCHANGED <<upstream, epoch, validity, selected, messages, lastRow,
                   blobs, worker, late, faults>>

EndPass ==
    /\ Running
    /\ \A w \in Workers : worker[w] = Free
    /\ selected' = 0
    /\ reaped' = {}
    /\ UNCHANGED <<upstream, epoch, validity, rows, messages, lastRow, blobs,
                   worker, doubtful, faults>>

-----------------------------------------------------------------------------
(* The workers *)

\* ClaimPendingBodies, and the claim given to a worker; locked rows are skipped.
Claim(w, r) ==
    /\ Running
    /\ worker[w] = Free
    /\ rows[r].state = "pending"
    /\ rows[r].uid # NoUID
    /\ r \notin Locked
    /\ rows' = [rows EXCEPT ![r].state = "fetching"]
    /\ worker' = [worker EXCEPT ![w] = [Free EXCEPT !.step = "fetch", !.row = r,
                                                    !.uid = rows[r].uid]]
    /\ UNCHANGED <<upstream, epoch, validity, selected, messages, lastRow,
                   blobs, late, faults>>

\* The body under the claimed UID arrives: on a connection that was made anew
\* since, under the numbering the server has by then.
FetchBody(w) ==
    /\ worker[w].step = "fetch"
    /\ upstream[worker[w].uid] # None
    /\ worker' = [worker EXCEPT ![w].step = "put",
                                ![w].content = upstream[worker[w].uid]]
    /\ UNCHANGED <<upstream, epoch, validity, selected, rows, messages,
                   lastRow, blobs, late, faults>>

\* The server has no message under the UID: the FETCH ends without it.
FetchNothing(w) ==
    /\ worker[w].step = "fetch"
    /\ upstream[worker[w].uid] = None
    /\ worker' = [worker EXCEPT ![w] = Free]
    /\ UNCHANGED <<upstream, epoch, validity, selected, rows, messages,
                   lastRow, blobs, late, faults>>

\* Mutants of the action below: the body is written after it is recorded; it is
\* parsed as soon as it is written.
Put_Later(w) ==
    /\ worker[w].step = "put"
    /\ worker' = [worker EXCEPT ![w].step = "look"]
    /\ UNCHANGED <<upstream, epoch, validity, selected, rows, messages,
                   lastRow, blobs, late, faults>>

Put_Parses(w) ==
    /\ worker[w].step = "put"
    /\ blobs' = blobs \cup {worker[w].content}
    /\ worker' = [worker EXCEPT ![w].step = "look"]
    /\ messages' = IF worker[w].row \in Live
                   THEN [messages EXCEPT ![rows[worker[w].row].mid].parsed = worker[w].content]
                   ELSE messages
    /\ UNCHANGED <<upstream, epoch, validity, selected, rows, lastRow, late,
                   faults>>

\* FSStore.Put: a temporary file, renamed to its digest when it is complete.
Put(w) ==
    /\ worker[w].step = "put"
    /\ blobs' = blobs \cup {worker[w].content}
    /\ worker' = [worker EXCEPT ![w].step = "look"]
    /\ UNCHANGED <<upstream, epoch, validity, selected, rows, messages,
                   lastRow, late, faults>>

\* AttachBody locks the row and looks for its content under another row.
AttachLook(w) ==
    /\ worker[w].step = "look"
    /\ worker[w].row \in Live \ Locked
    /\ LET found == WithDigest(worker[w].content) \ {rows[worker[w].row].mid} IN
          worker' = [worker EXCEPT ![w].step = "attach",
                        ![w].existing = IF found = {} THEN 0 ELSE CHOOSE i \in found : TRUE]
    /\ UNCHANGED <<upstream, epoch, validity, selected, rows, messages,
                   lastRow, blobs, late, faults>>

\* The messages row of a placeholder nobody points at any more is deleted.
Orphaned(i, r) == PointingAt(i) \ {r} = {}

\* A mutant of the operator below: the placeholder is deleted with the rows
\* that still point at it.
Relink_Cascades(w) ==
    LET r == worker[w].row
        old == rows[r].mid
        new == worker[w].existing IN
    /\ rows' = [x \in Ids |-> IF x = r THEN [rows[r] EXCEPT !.mid = new, !.state = "stored"]
                              ELSE IF x \in PointingAt(old) THEN NoRow ELSE rows[x]]
    /\ messages' = [messages EXCEPT ![old] = NoMessage]

\* The content is there already: the row is pointed at it and its placeholder
\* removed, unless another row points there.
Relink(w) ==
    LET r == worker[w].row
        old == rows[r].mid
        new == worker[w].existing IN
    /\ rows' = [rows EXCEPT ![r].mid = new, ![r].state = "stored"]
    /\ messages' = IF Orphaned(old, r) THEN [messages EXCEPT ![old] = NoMessage] ELSE messages

\* The unique index over digests.
Unique(c, i) == WithDigest(c) \subseteq {i}

\* The content is new: the placeholder becomes its messages row.
Record(w) ==
    LET r == worker[w].row
        c == worker[w].content IN
    /\ messages' = [messages EXCEPT ![rows[r].mid].digest = c, ![rows[r].mid].blob = c]
    /\ rows' = [rows EXCEPT ![r].state = "stored"]

\* Its UPDATE keeps the foreign key and the unique index.
Attachable(w) ==
    IF worker[w].existing # 0
    THEN worker[w].existing \in LiveMessages
    ELSE Unique(worker[w].content, rows[worker[w].row].mid)

\* AttachBody writes and commits, whatever has become of the claim.
AttachBody(w) ==
    /\ worker[w].step = "attach"
    /\ Attachable(w)
    /\ IF worker[w].existing # 0 THEN Relink(w) ELSE Record(w)
    /\ worker' = [worker EXCEPT ![w].step = "ingest", ![w].existing = 0]
    /\ doubtful' = IF worker[w].row \in reaped
                   THEN doubtful \cup {rows'[worker[w].row].mid} ELSE doubtful
    /\ UNCHANGED <<upstream, epoch, validity, selected, lastRow, blobs, reaped,
                   faults>>

\* It fails: the row has gone, the content was recorded since it looked, or the
\* messages row it found was removed.  The claim is spent; the row waits for
\* the reaper.
AttachFails(w) ==
    /\ \/ worker[w].step = "look" /\ worker[w].row \notin Live
       \/ worker[w].step = "attach" /\ ~Attachable(w)
    /\ worker' = [worker EXCEPT ![w] = Free]
    /\ UNCHANGED <<upstream, epoch, validity, selected, rows, messages,
                   lastRow, blobs, late, faults>>

\* What parsing found is written over what the row says; headers it did not
\* find leave what is there, and so does the time the message was received.
SaveParsedContent(i, c) ==
    messages' = [messages EXCEPT ![i].subject = IF c \in Untitled THEN @ ELSE c,
                                 ![i].envelope = IF c \in Untitled THEN @ ELSE c,
                                 ![i].parsed = c]

\* MessageIDForMailboxMessage, and Ingest on the messages row it finds; nothing
\* is done if the row has gone.
Ingest(w) ==
    /\ worker[w].step = "ingest"
    /\ IF worker[w].row \in Live
       THEN SaveParsedContent(rows[worker[w].row].mid, worker[w].content)
       ELSE UNCHANGED messages
    /\ worker' = [worker EXCEPT ![w] = Free]
    /\ UNCHANGED <<upstream, epoch, validity, selected, rows, lastRow, blobs,
                   late, faults>>

\* A command or a statement fails; for a row that was reaped in its hand that is
\* no further fault, it was slow before.  Before the body is recorded the row may be
\* given back, whatever has become of its claim; afterwards nothing is undone.
WorkerFails(w) ==
    /\ worker[w] # Free
    /\ IF worker[w].row \in reaped THEN UNCHANGED faults ELSE Fault
    /\ \/ UNCHANGED rows
       \/ /\ worker[w].step \in {"fetch", "put"}
          /\ worker[w].row \in Live \ Locked
          /\ rows' = [rows EXCEPT ![worker[w].row].state = "pending"]
    /\ worker' = [worker EXCEPT ![w] = Free]
    /\ UNCHANGED <<upstream, epoch, validity, selected, messages, lastRow,
                   blobs, late>>

\* A mutant of the action below: any row not at work counts as a stale claim.
Reap_AnyState(r) ==
    /\ r \in Live \ InHands
    /\ rows' = [rows EXCEPT ![r].state = "pending"]
    /\ UNCHANGED <<upstream, epoch, validity, selected, messages, lastRow,
                   blobs, worker, late, faults>>

\* ReapStaleClaims goes by the age of the claim: a slow worker may still have
\* the row in hand.
Reap(r) ==
    /\ rows[r].state = "fetching"
    /\ r \notin Locked
    /\ rows' = [rows EXCEPT ![r].state = "pending"]
    /\ IF r \in InHands
       THEN Fault /\ reaped' = reaped \cup {r}
       ELSE UNCHANGED <<reaped, faults>>
    /\ UNCHANGED <<upstream, epoch, validity, selected, messages, lastRow,
                   blobs, worker, doubtful>>

\* The process dies; transactions under way are rolled back.
Crash ==
    /\ Running
    /\ Fault
    /\ selected' = 0
    /\ worker' = [w \in Workers |-> Free]
    /\ reaped' = {}
    /\ UNCHANGED <<upstream, epoch, validity, rows, messages, lastRow, blobs,
                   doubtful>>

-----------------------------------------------------------------------------
Init ==
    /\ upstream \in [UIDs -> Contents]
    /\ epoch = 1
    /\ validity = 0
    /\ selected = 0
    /\ rows = [r \in Ids |-> NoRow]
    /\ messages = [i \in Ids |-> NoMessage]
    /\ lastRow = 0
    /\ blobs = {}
    /\ worker = [w \in Workers |-> Free]
    /\ reaped = {}
    /\ doubtful = {}
    /\ faults = 0

WorkerStep(w) ==
    \/ \E r \in Ids : Claim(w, r)
    \/ FetchBody(w) \/ FetchNothing(w) \/ Put(w)
    \/ AttachLook(w) \/ AttachBody(w) \/ AttachFails(w)
    \/ Ingest(w) \/ WorkerFails(w)

Next ==
    \/ \E u \in UIDs : Expunge(u) \/ UpsertMetadata(u)
    \/ Renumber
    \/ StartPass \/ SaveCheckpoint \/ DeleteMissing \/ EndPass \/ Crash
    \/ \E w \in Workers : WorkerStep(w)
    \/ \E r \in Ids : Reap(r)

Spec == Init /\ [][Next]_vars

-----------------------------------------------------------------------------
(* Properties *)

\* A row that stands for a message the server has under the present numbering.
Current(r) == r \in Live /\ rows[r].uid # NoUID /\ rows[r].epoch = epoch

\* The type of every variable.
TypeOK ==
    /\ upstream \in [UIDs -> Contents \cup {None}]
    /\ epoch \in 1 .. MaxEpoch
    /\ validity \in 0 .. MaxEpoch
    /\ selected \in 0 .. MaxEpoch
    /\ rows \in [Ids -> [uid : UIDs \cup {NoUID}, mid : Ids \cup {0},
                         state : {"none", "pending", "fetching", "stored"},
                         of : Contents \cup {None}, epoch : 0 .. MaxEpoch]]
    /\ messages \in [Ids -> [digest : Contents \cup {None}, uid : UIDs \cup {NoUID},
                             subject : Contents \cup {None}, envelope : Contents \cup {None},
                             received : Contents \cup {None}, blob : Contents \cup {None},
                             parsed : Contents \cup {None}]]
    /\ lastRow \in 0 .. MaxRows
    /\ blobs \subseteq Contents
    /\ worker \in [Workers ->
          [step : {"free", "fetch", "put", "look", "attach", "ingest"},
           row : Ids \cup {0}, uid : UIDs \cup {NoUID},
           content : Contents \cup {None}, existing : Ids \cup {0}]]
    /\ reaped \subseteq Ids
    /\ doubtful \subseteq Ids
    /\ faults \in Nat

\* A stored row of the present numbering has the body of its message, and that
\* body is in the blob store: whatever workers stored copies at the same time,
\* whatever died between the blob and the row, and although a row left over
\* from an earlier numbering shares its placeholder.  For a messages row to
\* which a row reaped in a worker's hand was attached the code does not keep
\* this: it is written as often as there were claims.
BodyIsItsMessage ==
    \A r \in Ids : Current(r) /\ rows[r].state = "stored" /\ rows[r].mid \notin doubtful =>
        /\ messages[rows[r].mid].digest = rows[r].of
        /\ messages[rows[r].mid].blob = rows[r].of
        /\ rows[r].of \in blobs

\* The subject of a row of the present numbering, before its body is there, is
\* that of its message, although its placeholder may be the one of another
\* message that had the UID before the renumbering; the other columns may
\* describe that one (EnvelopeIsItsMessage).  Once the body is parsed subject
\* and envelope are those found in it, if they are.
SubjectIsItsMessage ==
    \A r \in Ids : Current(r) =>
        LET m == messages[rows[r].mid] IN
        /\ rows[r].state # "stored" /\ rows[r].mid \notin doubtful => m.subject = rows[r].of
        /\ m.parsed \in Contents \ Untitled => m.subject = m.parsed /\ m.envelope = m.parsed

\* The addresses, dates and Message-ID a row of the present numbering is listed
\* with are those of its message.  The code does not keep this: the upsert
\* updates the subject of a placeholder that exists and nothing else of it.
EnvelopeIsItsMessage ==
    \A r \in Ids : Current(r) /\ rows[r].mid \notin doubtful =>
        LET m == messages[rows[r].mid] IN
        /\ rows[r].state # "stored" => m.envelope = rows[r].of
        /\ m.received = rows[r].of

\* Parsed text belongs to the body it is shown with, though it is written in a
\* transaction of its own to whatever messages row the row then points at.  Two
\* workers that have one row, because its claim was reaped in the hand of the
\* first, may write body and text in different orders.
ParsedIsBody ==
    \A i \in LiveMessages \ doubtful : messages[i].parsed \in {None, messages[i].digest}

\* Only a message the server no longer has loses its row: the removal of a
\* placeholder takes no other row with it.
OnlyMissingVanish ==
    [][\A r \in Live : rows'[r] = NoRow =>
          rows[r].uid # NoUID /\ upstream[rows[r].uid] = None]_vars

\* The row's place in the queue of bodies to fetch.  A row that has lost its UID
\* has left it, whatever its state.
Place(r) ==
    IF r > lastRow THEN "absent"
    ELSE IF rows[r].uid = NoUID THEN "gone"
    ELSE CASE rows[r].state = "fetching" -> "leased"
           [] rows[r].state = "stored" -> "done"
           [] OTHER -> "waiting"

Queue == INSTANCE WorkQueue WITH
    Items <- Ids,
    Workers <- Workers,
    Nobody <- 0,
    state <- [r \in Ids |-> Place(r)],
    holder <- [w \in Workers |-> InHand(w)],
    expired <- reaped

\* The store, with its messages rows, blobs, renumberings and crashes, is the
\* queue the body pass also implements: until its claim is reaped in a worker's
\* hand a row is recorded by the one worker that has it and what is recorded
\* stays so, only claims are reaped, and a row that lost its UID or was deleted,
\* in a worker's hand too, does not come back to the queue.
ImplementsQueue == Queue!Spec

\* After a renumbering "messages are kept and re-linked by content": once the
\* server's messages are all stored again, none of them is listed a second
\* time by a row that was kept without its UID.  The code does not do this.
Relinked ==
    LET Stored(r) == r \in Live /\ rows[r].state = "stored"
        Has(u) == \E r \in Ids : Stored(r) /\ rows[r].uid = u IN
    selected = epoch /\ (\A u \in UIDs : upstream[u] # None /\ Has(u)) =>
        \A r, q \in Ids :
            Stored(r) /\ Stored(q) /\ rows[r].uid = NoUID /\ rows[q].uid # NoUID
                => rows[r].mid # rows[q].mid
=============================================================================
