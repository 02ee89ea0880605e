---------------------------- MODULE ImapSession ----------------------------
(***************************************************************************)
(* A mail client's connection to the mirror.  The session keeps a snapshot *)
(* of the open mailbox, in the order of the local UIDs: sequence numbers   *)
(* are positions in it.  Beside the session the sync adds and removes      *)
(* rows, and every statement of the session sees the database as it then   *)
(* is.  Which rows a command names is the subject here; what STORE does to *)
(* their flags, and the queue it fills, are MutationQueue's.               *)
(*                                                                         *)
(* go-imap's server reads a command, calls the session, and after a        *)
(* command that succeeded polls it for updates before the tagged OK; a     *)
(* poll that fails ends the connection.                                    *)
(***************************************************************************)
EXTENDS Integers, FiniteSets

CONSTANTS
    Mailboxes,
    Messages,       \* upstream messages, each listed once in some mailbox
    MaxUID,         \* bound on a mailbox's local UIDs
    MaxCommands,    \* bound on the commands of all clients
    MaxFaults,      \* bound on failed statements and lost connections
    None            \* no mailbox

ASSUME ConstantsAssumption ==
    /\ MaxUID \in Nat
    /\ MaxCommands \in Nat
    /\ MaxFaults \in Nat
    /\ None \notin Mailboxes

VARIABLES
    rows,           \* mailbox_messages: mailbox, local_uid and message
    uidNext,        \* mailboxes.local_uidnext
    conn,           \* go-imap's connection state
    mailbox,        \* s.mailbox
    readOnly,       \* s.readOnly
    snapshot,       \* s.snapshot; a row's position is its rank by local UID
    pc,             \* where the command under way is
    todo,           \* STORE: resolved rows that wait for their change
    reply,          \* the last tagged response
    exists,         \* the last EXISTS the client was sent for this mailbox
    promised,       \* the UIDNEXT of the last SELECT
    base,           \* history: the UIDs in the snapshot of the last SELECT
    given,          \* history: the mailbox and UID each message was given
    shown,          \* history: sequence numbers and UIDs of the last FETCH
    acted,          \* history: number and UID a STORE by sequence number resolved
    unqueued,       \* history: rows this STORE changed without queueing it yet
    commands,       \* commands so far
    faults          \* failures so far

database == <<rows, uidNext, given>>
session == <<mailbox, readOnly, snapshot>>
storing == <<todo, acted, unqueued>>
client == <<exists, promised, base, shown>>
vars == <<database, conn, session, pc, storing, reply, client,
          commands, faults>>

Rows == [box : Mailboxes, uid : 1 .. MaxUID, msg : Messages]

RowsOf(b) == {r \in rows : r.box = b}
UIDsOf(S) == {r.uid : r \in S}

\* The sequence number of a row of a list in UID order.
Position(S, r) == Cardinality({q \in S : q.uid <= r.uid})

\* What the client learns from a response that carries number and UID.
Pairs(S, T) == {<<Position(S, r), r.uid>> : r \in T}

Fault == faults < MaxFaults /\ faults' = faults + 1

\* go-imap reads the next command.
Command ==
    /\ pc = "ready"
    /\ commands < MaxCommands
    /\ commands' = commands + 1
    /\ unqueued' = {}

\* A command is answered with NO; there is no poll after it.
No == pc' = "ready" /\ reply' = "no"

-----------------------------------------------------------------------------
(* The sync, other sessions and the web interface *)

\* A mutant of the operator below: the next UID is taken from the table.
Allocate_AboveRows(b) ==
    1 + Cardinality({u \in 1 .. MaxUID : \E r \in RowsOf(b) : r.uid >= u})

\* local_uid is taken from a counter of the mailbox, in the transaction that
\* inserts the row.
Allocate(b) == uidNext[b]

\* A mutant of the action below: the counter is advanced in a transaction of
\* its own, and the row inserted later.
Deliver_TwoTransactions(b, m) ==
    /\ uidNext[b] <= MaxUID + 1
    /\ given[m] = <<None, 0>>
    /\ \E u \in 1 .. MaxUID :
          /\ u <= uidNext[b]
          /\ \A n \in Messages : given[n] # <<b, u>>
          /\ rows' = rows \cup {[box |-> b, uid |-> u, msg |-> m]}
          /\ uidNext' = [uidNext EXCEPT ![b] = IF u = @ THEN @ + 1 ELSE @]
          /\ given' = [given EXCEPT ![m] = <<b, u>>]
    /\ UNCHANGED <<conn, session, pc, storing, reply, client, commands, faults>>

\* upsertMetadataTx for a message without a row.
Deliver(b, m) ==
    /\ uidNext[b] <= MaxUID
    /\ given[m] = <<None, 0>>
    /\ rows' = rows \cup {[box |-> b, uid |-> Allocate(b), msg |-> m]}
    /\ uidNext' = [uidNext EXCEPT ![b] = @ + 1]
    /\ given' = [given EXCEPT ![m] = <<b, Allocate(b)>>]
    /\ UNCHANGED <<conn, session, pc, storing, reply, client, commands, faults>>

\* upsertMetadataTx for a message with a row: the allocated UID is lost.
Relist(r) ==
    /\ uidNext[r.box] <= MaxUID
    /\ uidNext' = [uidNext EXCEPT ![r.box] = @ + 1]
    /\ UNCHANGED <<rows, given, conn, session, pc, storing, reply, client,
                   commands, faults>>

\* DeleteMissingUIDs.
Remove(r) ==
    /\ rows' = rows \ {r}
    /\ UNCHANGED <<uidNext, given, conn, session, pc, storing, reply, client,
                   commands, faults>>

-----------------------------------------------------------------------------
(* Connection and login *)

\* A connection, with a new session.
Connect ==
    /\ conn = "closed"
    /\ commands < MaxCommands
    /\ conn' = "greeted"
    /\ mailbox' = None
    /\ readOnly' = FALSE
    /\ snapshot' = {}
    /\ reply' = "ok"
    /\ UNCHANGED <<database, pc, storing, client, commands, faults>>

Login ==
    /\ pc = "ready"
    /\ conn = "greeted"
    /\ conn' = "authenticated"
    /\ reply' = "ok"
    /\ UNCHANGED <<database, session, pc, storing, client, commands, faults>>

\* No such user, a wrong password, an inactive user, or no account yet.
LoginFails ==
    /\ pc = "ready"
    /\ conn = "greeted"
    /\ No
    /\ UNCHANGED <<database, conn, session, storing, client, commands, faults>>

\* The connection ends: LOGOUT, or the client goes away.  A STORE under way
\* may stop where it is, as the responses it writes cannot be sent.
Hangup ==
    /\ conn' = "closed"
    /\ pc' = "ready"
    /\ todo' = {}
    /\ acted' = {}
    /\ UNCHANGED <<database, session, unqueued, reply, client, commands>>

Disconnect ==
    /\ conn # "closed"
    /\ Fault
    /\ Hangup

-----------------------------------------------------------------------------
(* SELECT and EXAMINE *)

\* handleSelect closes a mailbox that is open before it asks for another.
Unselected ==
    IF conn = "selected" THEN [mailbox |-> None, snapshot |-> {}]
                         ELSE [mailbox |-> mailbox, snapshot |-> snapshot]

\* ListMailboxes finds the mailbox, with its UIDNEXT.
Select(b, ro) ==
    /\ Command
    /\ conn \in {"authenticated", "selected"}
    /\ conn' = "authenticated"
    /\ mailbox' = b
    /\ readOnly' = ro
    /\ snapshot' = Unselected.snapshot
    /\ promised' = uidNext[b]
    /\ pc' = "select"
    /\ UNCHANGED <<database, todo, acted, reply, exists, base,
                   shown, faults>>

\* No such mailbox, or the statement fails.
SelectFails ==
    /\ Command
    /\ conn \in {"authenticated", "selected"}
    /\ Fault
    /\ conn' = "authenticated"
    /\ mailbox' = Unselected.mailbox
    /\ snapshot' = Unselected.snapshot
    /\ No
    /\ UNCHANGED <<database, readOnly, todo, acted, client>>

\* refreshSnapshot, and the answer to SELECT.
SelectSnapshot ==
    /\ pc = "select"
    /\ snapshot' = RowsOf(mailbox)
    /\ conn' = "selected"
    /\ exists' = Cardinality(snapshot')
    /\ base' = UIDsOf(snapshot')
    /\ shown' = {}
    /\ pc' = "ready"
    /\ reply' = "ok"
    /\ UNCHANGED <<database, mailbox, readOnly, storing, promised,
                   commands, faults>>

\* refreshSnapshot fails: the session keeps the new mailbox and the snapshot it
\* had, but the connection has no mailbox open.
SelectSnapshotFails ==
    /\ pc = "select"
    /\ Fault
    /\ No
    /\ UNCHANGED <<database, conn, session, storing, client, commands>>

\* UNSELECT.  CLOSE does not get here: it expunges first, which is refused.
Unselect ==
    /\ Command
    /\ conn = "selected"
    /\ conn' = "authenticated"
    /\ mailbox' = None
    /\ snapshot' = {}
    /\ pc' = "poll"
    /\ UNCHANGED <<database, readOnly, todo, acted, reply, client, faults>>

-----------------------------------------------------------------------------
(* Commands that only read *)

\* A command that leaves the session as it is, before the poll.
Reads ==
    /\ Command
    /\ conn \in {"authenticated", "selected"}
    /\ UNCHANGED <<database, conn, session, todo, acted, client>>

\* NOOP, NAMESPACE, SUBSCRIBE and UNSUBSCRIBE.
Noop ==
    /\ Reads
    /\ pc' = "poll"
    /\ UNCHANGED <<reply, faults>>

\* LIST, from the table of mailboxes, without the pattern.
List ==
    /\ Reads
    /\ \/ pc' = "poll" /\ UNCHANGED <<reply, faults>>
       \/ No /\ Fault

\* STATUS, from the counts kept with the mailbox; it may not exist.
Status ==
    /\ Reads
    /\ \/ pc' = "poll" /\ UNCHANGED reply
       \/ No
    /\ UNCHANGED faults

\* resolve: the rows of the snapshot that a set of sequence numbers or of UIDs
\* stands for.
Resolve(kind, set) ==
    {r \in snapshot : (IF kind = "uid" THEN r.uid ELSE Position(snapshot, r)) \in set}

NumSets == SUBSET (1 .. MaxUID) \ {{}}

\* SEARCH goes through the snapshot; which messages match is not modelled.
Search ==
    /\ Reads
    /\ conn = "selected"
    /\ pc' = "poll"
    /\ UNCHANGED <<reply, faults>>

\* FETCH of the messages a set stands for.  Each response has the number; the
\* client asks for the UID too.  The other items are not modelled.
Fetch(kind, set) ==
    /\ Command
    /\ conn = "selected"
    /\ shown' = Pairs(snapshot, Resolve(kind, set))
    /\ pc' = "poll"
    /\ UNCHANGED <<database, conn, session, todo, acted, reply, exists,
                   promised, base, faults>>

\* Reading a stored message fails, after some messages were sent.
FetchFails ==
    /\ Command
    /\ conn = "selected"
    /\ Fault
    /\ \E sent \in SUBSET snapshot : shown' = Pairs(snapshot, sent)
    /\ No
    /\ UNCHANGED <<database, conn, session, todo, acted, exists, promised, base>>

\* CREATE, DELETE, RENAME, APPEND, COPY, EXPUNGE and CLOSE.
Unsupported ==
    /\ Reads
    /\ No
    /\ UNCHANGED faults

-----------------------------------------------------------------------------
(* STORE *)

Store(kind, set) ==
    /\ Command
    /\ conn = "selected"
    /\ ~readOnly
    /\ todo' = Resolve(kind, set)
    /\ acted' = IF kind = "seq" THEN Pairs(snapshot, todo') ELSE {}
    /\ pc' = "store"
    /\ UNCHANGED <<database, conn, session, reply, client, faults>>

StoreRefused ==
    /\ Command
    /\ conn = "selected"
    /\ readOnly
    /\ No
    /\ UNCHANGED <<database, conn, session, todo, acted, client, faults>>

\* The row the loop of STORE has come to.
NextRow == CHOOSE r \in todo : \A q \in todo : r.uid <= q.uid

\* SetFlags by the row's id; a row that has gone is none to write, and no
\* error.
SetFlags ==
    /\ pc = "store"
    /\ todo # {}
    /\ unqueued' = unqueued \cup {NextRow.uid}
    /\ pc' = "enqueue"
    /\ UNCHANGED <<database, conn, session, todo, acted, reply, client, commands, faults>>

\* EnqueueMutation, and the untagged FETCH that reports the flags.
EnqueueMutation ==
    /\ pc = "enqueue"
    /\ unqueued' = unqueued \ {NextRow.uid}
    /\ todo' = todo \ {NextRow}
    /\ pc' = "store"
    /\ UNCHANGED <<database, conn, session, acted, reply, exists, promised,
                   base, shown, commands, faults>>

\* A mutant of the action below: a change that cannot be queued is skipped.
StoreFails_GoesOn ==
    /\ pc \in {"store", "enqueue"}
    /\ Fault
    /\ IF pc = "enqueue" THEN pc' = "store" /\ todo' = todo \ {NextRow} /\ UNCHANGED reply
                         ELSE No /\ todo' = {}
    /\ UNCHANGED <<database, conn, session, acted, unqueued, client, commands>>

\* A statement fails.  What was written stays written, and the client is told.
StoreFails ==
    /\ pc \in {"store", "enqueue"}
    /\ Fault
    /\ No
    /\ todo' = {}
    /\ acted' = {}
    /\ UNCHANGED <<database, conn, session, unqueued, client, commands>>

\* The snapshot is taken anew at the end, and nobody is told of its length.
StoreEnds ==
    /\ pc = "store"
    /\ todo = {}
    /\ snapshot' = RowsOf(mailbox)
    /\ acted' = {}
    /\ pc' = "poll"
    /\ UNCHANGED <<database, conn, mailbox, readOnly, todo, unqueued,
                   reply, client, commands, faults>>

-----------------------------------------------------------------------------
(* Poll and IDLE *)

\* A mutant of the operator below: a list of another length is reported, and
\* the old one kept.
Refresh_OnlyReports ==
    IF mailbox = None THEN UNCHANGED <<snapshot, exists>>
    ELSE /\ exists' = Cardinality(RowsOf(mailbox))
         /\ UNCHANGED snapshot

\* The list is read again, and its length reported if that has changed.
Refresh ==
    IF mailbox = None THEN UNCHANGED <<snapshot, exists>>
    ELSE /\ snapshot' = RowsOf(mailbox)
         /\ exists' = IF Cardinality(snapshot') # Cardinality(snapshot)
                      THEN Cardinality(snapshot') ELSE exists

Poll ==
    /\ pc = "poll"
    /\ Refresh
    /\ pc' = "ready"
    /\ reply' = "ok"
    /\ UNCHANGED <<database, conn, mailbox, readOnly, storing, promised, base,
                   shown, commands, faults>>

\* The connection ends with the failed poll.
PollFails ==
    /\ pc = "poll"
    /\ mailbox # None
    /\ Fault
    /\ Hangup

Idle ==
    /\ Reads
    /\ pc' = "idle"
    /\ UNCHANGED <<reply, faults>>

Tick ==
    /\ pc = "idle"
    /\ Refresh
    /\ UNCHANGED <<database, conn, mailbox, readOnly, pc, storing, reply, promised,
                   base, shown, commands, faults>>

\* The session's loop ends, with an error or at imap.idle_timeout.  go-imap
\* goes on waiting for the client's DONE.
IdleEnds ==
    /\ pc = "idle"
    /\ Fault
    /\ pc' \in {"idleOver", "idleFailed"}
    /\ UNCHANGED <<database, conn, session, storing, reply, client, commands>>

Done ==
    /\ pc \in {"idle", "idleOver", "idleFailed"}
    /\ pc' = IF pc = "idleFailed" THEN "ready" ELSE "poll"
    /\ reply' = IF pc = "idleFailed" THEN "no" ELSE reply
    /\ UNCHANGED <<database, conn, session, storing, client, commands, faults>>

-----------------------------------------------------------------------------
Init ==
    /\ rows = {}
    /\ uidNext = [b \in Mailboxes |-> 1]
    /\ conn = "closed"
    /\ mailbox = None
    /\ readOnly = FALSE
    /\ snapshot = {}
    /\ pc = "ready"
    /\ todo = {}
    /\ reply = "ok"
    /\ exists = 0
    /\ promised = 0
    /\ base = {}
    /\ given = [m \in Messages |-> <<None, 0>>]
    /\ shown = {}
    /\ acted = {}
    /\ unqueued = {}
    /\ commands = 0
    /\ faults = 0

SyncStep ==
    \/ \E b \in Mailboxes, m \in Messages : Deliver(b, m)
    \/ \E r \in rows : Relist(r) \/ Remove(r)

ClientStep ==
    \/ Connect \/ Login \/ LoginFails
    \/ \E b \in Mailboxes, ro \in BOOLEAN : Select(b, ro)
    \/ SelectFails \/ Unselect \/ Noop \/ List \/ Status \/ Search \/ FetchFails \/ Unsupported \/ StoreRefused
    \/ \E kind \in {"seq", "uid"}, set \in NumSets :
          Fetch(kind, set) \/ Store(kind, set)
    \/ Idle \/ Done
    \/ Disconnect

SessionStep ==
    \/ SelectSnapshot \/ SelectSnapshotFails
    \/ SetFlags \/ EnqueueMutation \/ StoreFails \/ StoreEnds
    \/ Poll \/ PollFails \/ IdleEnds

Next == SyncStep \/ ClientStep \/ SessionStep \/ Tick

Spec == Init /\ [][Next]_vars

\* The ticker of an idling session ticks.
FairSpec == Spec /\ WF_vars(Tick)

-----------------------------------------------------------------------------
(* Properties *)

\* The type of every variable.
TypeOK ==
    /\ rows \subseteq Rows
    /\ uidNext \in [Mailboxes -> 1 .. MaxUID + 1]
    /\ conn \in {"closed", "greeted", "authenticated", "selected"}
    /\ mailbox \in Mailboxes \cup {None}
    /\ readOnly \in BOOLEAN
    /\ snapshot \subseteq Rows
    /\ pc \in {"ready", "select", "store", "enqueue", "poll", "idle", "idleOver",
               "idleFailed"}
    /\ todo \subseteq Rows
    /\ reply \in {"ok", "no"}
    /\ exists \in Nat
    /\ promised \in Nat
    /\ base \subseteq 1 .. MaxUID
    /\ given \in [Messages -> (Mailboxes \X (1 .. MaxUID)) \cup {<<None, 0>>}]
    /\ shown \subseteq Nat \X (1 .. MaxUID)
    /\ acted \subseteq Nat \X (1 .. MaxUID)
    /\ unqueued \subseteq 1 .. MaxUID
    /\ commands \in Nat
    /\ faults \in Nat

\* A local UID means one message for ever, to every session there was or will
\* be: it is not given to another message when its row is removed, when a UID
\* was lost to an upsert, or when the mailbox empties (session.go:205-207:
\* "local UIDs are never reused or renumbered").
UIDsPermanent ==
    \A m, n \in Messages : m # n /\ given[m] = given[n] => given[m] = <<None, 0>>

\* The UIDNEXT a SELECT reported is kept: whatever joins the mailbox after its
\* snapshot has a UID of at least that, although UIDNEXT and the snapshot are
\* read by two statements and the sync commits between them.  A client that
\* asks for UIDNEXT:* misses nothing.
UIDNextHolds ==
    conn = "selected" =>
        \A r \in RowsOf(mailbox) : r.uid < promised => r.uid \in base

\* A STORE that is answered with OK has queued every change it made; one that
\* has not is reported, so that mirror and server do not part silently.
NoSilentDivergence == pc = "ready" /\ reply = "ok" /\ conn = "selected" => unqueued = {}

\* While the session idles, its list catches up with every message that
\* arrives and stays.
IdleCatchesUp ==
    \A b \in Mailboxes, u \in 1 .. MaxUID :
        pc = "idle" /\ mailbox = b /\ u \in UIDsOf(RowsOf(b)) ~>
            pc # "idle" \/ u \in UIDsOf(snapshot) \/ u \notin UIDsOf(RowsOf(b))

\* A STORE by sequence number acts on the message the client was shown under
\* that number: no response ever took the number away from it.
NumberMeansMessage ==
    \A a \in acted, s \in shown : a[1] = s[1] => a[2] = s[2]
=============================================================================
