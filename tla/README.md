# imapped: TLA+ models, checks and proofs

imapped mirrors IMAP accounts into PostgreSQL and a blob store and serves the
mirror over IMAP and HTTP. This directory models the parts of it whose
correctness depends on order: what is committed when, which process or
goroutine acts between two steps, what a crash or a lost connection leaves
behind. Every definition is translated from `src/`; `PROJECT.json` gives the
lines each one stands for.

## 1. The system

| part | state it keeps | operations | talks to |
|---|---|---|---|
| process and loops (`cli/run.go`, `app`) | loops: sync, replay, maintenance | start, tick, shut down | engine, replay, store |
| account sync engine (`syncer/engine.go`) | advisory lock, run record, `auth_state`, progress | SyncAccount, heartbeat, retry of a mailbox | store, upstream, passes |
| metadata pass (`syncer/mailbox.go`) | the mailbox checkpoint; the rows with an upstream UID | SELECT, reset on a new UIDVALIDITY, skip, CHANGEDSINCE, enumeration in chunks, deletion scan, checkpoints | store, upstream |
| body pass (`syncer/mailbox.go`, `claims.go`) | `body_state`, `body_attempts`; claim table in memory; channel | claim, plan, hand over, fetch, store, release | store, blobs, one session per worker |
| batch planner (`syncer/planner.go`) | none | PlanBatches, PlanMetadataChunks | both passes |
| upstream session and client (`upstream/`) | connection, selected mailbox, poisoned flag | Do, Select, reconnect, Retry, Fetch..., Store | the server |
| mutation queue (`store/mutations.go`, `syncer/mutations.go`) | `mutations` rows: status, attempts, next attempt | enqueue, claim, succeed, fail, release stale | IMAP server and web enqueue; replay loop drains |
| message content (`store/messages.go`, `mailstore/`) | `messages` by digest, parts, search text | UpsertMetadataBatch, AttachBody, Ingest | body pass |
| IMAP server (`imapsrv/`) | per session: snapshot of a mailbox | SELECT, FETCH, STORE, Poll, IDLE | store, mutation queue |
| web interface (`web/`) | login sessions, SSE subscribers | browse, start a sync, pause an account | store, engine |
| blob store (`blob/`) | files named by digest | Put, Open, Delete | body pass |
| users, configuration, database, search, HTTP | rows, a struct, the schema | CRUD, parsing, SQL | all |

What is hard:

* the two passes run at once and meet only in the database and in the
  `metadataDone` channel; the body pass has a producer and several workers over
  an unbuffered channel;
* everything is interrupted: commands time out and are repeated on a fresh
  connection, the run is cancelled by a deadline or by lost heartbeats, the
  process dies; progress is what was committed, statement by statement;
* the server belongs to others too: mail arrives, flags change, messages go and
  mailboxes are renumbered between any two commands;
* several replicas share one database: claims, the account lock and the mutation
  queue are what keeps them apart.

What makes each part correct:

* metadata pass: new mail is never skipped, a flag change is never lost by an
  advanced checkpoint, a live message is never deleted, UIDs of two
  UIDVALIDITYs never mix, and the mirror converges;
* body pass: a message is in one hand at a time, a settled row stays settled (as
  long as its claim is not reaped in use, section 5), a message is parked as
  oversized only if it is or was fetched together with one, nothing found beside
  the pass is missed, a pass ends, every row settles;
* account sync: one run per account, a dead run is noticed, an authentication
  failure stays visible until it is cured;
* mutation queue: every accepted change reaches the server, the last one wins,
  the queue drains;
* message content: a body is attached to its own message, equal content is
  stored once;
* IMAP server: a local UID means one message for ever, UIDNEXT is kept, a STORE
  that was acknowledged is queued, an idling client learns of new mail, a number
  means the message the client was shown under it (which fails, section 5);
* upstream session: a command runs in the mailbox the caller selected, also on a
  connection made anew; a success is an effect; no socket is forgotten; every
  call returns.

## 2. Modules

| module | what it is |
|---|---|
| `MetadataPass` | the metadata half of `syncMailbox`, with the server and its other clients |
| `MetadataPassProofs` | its inductive invariant and theorems |
| `MCMetadataPass` | sets for its cfg files |
| `BodyPass` | the body half: producer, workers, claim table, reaper, crash |
| `BodyPassProofs` | its inductive invariants and theorems |
| `MCBodyPass` | workers, sets and symmetry for its cfg files |
| `WorkQueue` | abstract: a queue of items that are waiting, leased, done or gone; `BodyPass` and `MessageStore` implement it |
| `RowFeed` | abstract: rows that are recorded once, go after their message and stay gone; `MetadataPass` implements it, `BodyPass` stays within it |
| `Planner` | `PlanBatches` and `PlanMetadataChunks`, loop by loop |
| `PlannerProofs` | their loop invariant and theorems |
| `MCPlanner` | budgets for its cfg file |
| `MutationQueue` | flag changes from STORE to the upstream server, with the replay loops of several replicas and the metadata pass that reads flags back |
| `MutationQueueProofs` | its inductive invariant and theorems |
| `MCMutationQueue` | messages, flags, sessions and replayers for its cfg files |
| `AccountSync` | `SyncAccount`: lock, run record, heartbeat, the loop over the mailboxes, the outcome, and the processes around it |
| `AccountSyncProofs` | its inductive invariants and theorems |
| `MCAccountSync` | processes, runners and mailboxes for its cfg files |
| `UpstreamSession` | `upstream.Session` and `Client`: dialling, deadlines, repeating a command on a new connection |
| `UpstreamSessionProofs` | its inductive invariant and theorems |
| `MCUpstreamSession` | mailboxes for its cfg files |
| `ImapSession` | a mail client's connection to the mirror: snapshot, SELECT, FETCH, STORE, poll and IDLE beside the sync |
| `ImapSessionProofs` | its inductive invariant and theorems |
| `MCImapSession` | mailboxes and messages for its cfg files |
| `MessageStore` | rows, messages and blobs of a mailbox: placeholders, `AttachBody`, deduplication, parsed text, renumbering |
| `MessageStoreProofs` | its inductive invariant and theorems |
| `MCMessageStore` | contents, workers and symmetry for its cfg files |

Time appears in none of them: a timeout, a deadline or a backoff may end at any
moment, and whatever is old enough to be collected may be. A failure of a
command, of a statement or of a process is a step of its own that counts against
`MaxFaults`. An SQL statement is atomic; two statements never are, unless the
code puts them into one transaction.

### MetadataPass

The server is a map from UIDs to stamps, where a stamp is the UIDVALIDITY under
which the message was given its UID and the modification sequence of its last
change, which stands for its flags. `Deliver`, `ChangeFlags`, `Expunge` and
`Renumber` are the server's other clients; they act between any two commands.
On the mirror's side, `row` holds the `mailbox_messages` with an upstream UID,
`orphans` counts those that lost it, and `cp` is the sync columns of the
`mailboxes` row.

The pass is a program counter over the commands and commits of `syncMailbox` and
`metadataPass`: `UpsertMailbox`, `SelectMailbox`, `ResetForUIDValidityChange`,
then `SkipUnchanged` or `Enumerate`; `FetchChangedSince` and one `UpdateFlags`
per change; `SearchAllUIDs`; for each chunk `FetchChunk`, the flag updates,
`UpsertMetadataBatch` and `SaveMidPassCheckpoint`; `SearchForDeletions` and
`DeleteMissingUIDs`, or `ReconcileFails`, which the code only logs; and
`SaveFullCheckpoint`. `Interrupt` ends the pass anywhere and keeps exactly what
has been committed.

`RowFeed` is what all this amounts to for those who read the rows meanwhile: the
body pass, the IMAP server, the web interface. `Feed` in `MetadataPass` is the
mapping. A UID is listed when it has a row of the present numbering. It is gone
when its message is and the pass has nothing of it in hand, so that a FETCH whose
answer is not recorded yet still counts as absent, and an interruption that
throws the answer away is a removal.

`Renumber` waits until no pass is past its SELECT: a mailbox that is renumbered
under an open session is a matter of that session (`UpstreamSession`), and of
the bodies fetched on it (`MessageStore`).

### BodyPass

A row goes through `absent`, `pending`, `fetching`, `stored` (or `failed`,
`skipped_too_large`) and may go `gone` at any time. The producer claims
(`ClaimPendingBodies`), plans (`FirstBatches`, any outcome that `PlanBatches` can
have for some sizes, over rows in any order: the `UPDATE ... RETURNING` that
claims them promises none), and hands a batch to a worker that is receiving
(`SendBatch`: an unbuffered channel is a joint step). A worker opens its
mailbox, receives, and works through the attempts of `Session.Do`: `Attempt`,
`ReceiveBody` (the claim leaves the shared table), `AttachBody`, `FetchEnds`,
and on failure `AttemptFails`, `FetchFails`, `ReleaseNext` and `SettleClaim`. The
end of the pass depends on `WaitForMetadata` (the closed `metadataDone`), one
final sweep, and `ChannelClosed` at every worker. `Cancel` and `Deadline` end
the run's context, `Crash` forgets all memory, `ReapStaleClaims` is the
maintenance loop. It asks for the age of a claim and for nothing else, so it may
take any row in `fetching`, also one that is planned or in a worker's batch
(`AtWork`); such rows are noted in `reaped` until the pass is over. `found`,
`mine`, `outcome` and `reaped` are history.

Nothing relates `Large` to `Solo`. The configuration only bounds
`body_max_inline_bytes` from above, 0 sends nothing alone (`validate.go:190`), and
the planner goes by a stored size that may be that of the message which had the
placeholder before (`messages.go:120`).

`WorkQueue` is what this promises without batches, channel, connections and
claim table. `Queue` in `BodyPass` is the mapping: `pending` is waiting,
`fetching` leased, every settled state done, and an item is in the hand of the
worker that is working through it. A claim that is reaped in use is a lease that
has expired in a worker's hand: for that item, and until all workers have let go,
the queue promises neither a single holder nor that done stays done, and for all
others it does. Each step of the pass is a step of the queue or none.

`Discover`, `DeleteRow` and `Vanish` stand for the metadata pass and the server.
That they are not wishful is what `RowFeed` is for: `MetadataPass` implements it,
and `WithinFeed` says that `BodyPass` assumes no more and that its own steps neither
make, remove nor revive a row.

### Planner

Each loop iteration is a step: `PlanAlone` and `PlanMessage` of `PlanBatches`,
`PlanChunk` of `PlanMetadataChunks`, and `Return` with the last flush. Sizes are
given by `end`, where each message ends when all are laid end to end, so that the
bytes of a batch are a difference and no sum is needed. `NextChunk` and
`FirstBatches` are what the two passes use of it. `ChunkUIDRange` has no caller.

### MutationQueue

A change is a message with the flags it is to have; the idempotency key is a
digest of exactly that, so a change has at most one row. `SetFlags` and
`EnqueueMutation` are the two statements of an IMAP STORE, `EnqueueFails` is what
lies between them. A replay loop goes through `StartReplay`,
`ClaimDueMutations`, `ApplyMutation` or `ApplyFails` (the server may have acted
all the same) and `MutationSucceeded` or `MutationFailed`. `ReplayInterrupted`
is an error, a shutdown or a crash, and leaves claims in flight for
`ReleaseStaleMutations`, which goes by age and so also takes what a slow replayer
still has (a fault in the model). `Deactivate` and `Activate` are the account leaving and
entering service. `ReceiveFlags` and `UpdateFlags` are what the metadata pass
does with flags, abstracted from `MetadataPass` to a set of messages whose change
it has not been told yet. `last`, `overlapped`, `pushed` and `torn` are history; a
message is `overlapped` once it is changed while an earlier change is not settled
or still with a replayer (`Busy`).

`Session.Do` may push a change, lose the answer and push it again; nothing but
another client of the server can tell that from one push, and the model makes
it one. A STORE the server executes after the client has given up on it is not
modelled.

### AccountSync

A runner is a goroutine that may call `SyncAccount`; `job[r]` is its place in the
code, whether its context is done, the mailboxes left, and the error so far. Its
number is the id its `sync_runs` row will have. `lock` and `session` are the
advisory lock and the database session it lives on: `LoseSession` breaks the
session, and the database frees the lock while the run goes on. (A heartbeat that
is cut off by its context closes the connection too, so this step also stands for
that.) `kept` names the processes in whose pool a connection still has the lock:
`Release` unlocks and gives the connection back, but a heartbeat that
`stopHeartbeat` did not wait for may be using it, and then the unlock fails with
"conn busy", and the pool takes a connection back that is idle by then
(`ReleaseFails`, `store/lock.go:67`). The lock is re-entrant for that session
only; `Recycle` is the end of the connection's lifetime. `beat` and `misses` are
the heartbeat goroutine. `authState`, `paused`, `mirrored` and `runs` are rows.

A run goes through `TryLockAccount` or `SkipSync`, `StartSyncRun`, then
`syncAccountLocked`: `GetAccount`, `Connect`, `ListMailboxes`,
`DeleteMailboxesExcept`, for each mailbox `SyncMailbox` followed by
`MailboxSynced`, `MailboxFails` and `Reconnect`, `MailboxRejected` or `Hang`, and
`MailboxesDone`. Then `FinishSyncRun`, `SetAccountSyncResult`, `StopHeartbeat` and
`Release`, in the order in which the deferred calls run. Every statement may fail,
and does if the context is done, except where the code detaches from it.
`StartRunFails` is an INSERT that failed or one whose answer was lost, which
leaves a record that is nobody's. `SyncAll` and `StartSync` are the sync loop and
the web interface; the replay loop does not take the lock and is not among the
runs; `Crash`, `StopProcess`, `ExitProcess` and `StartProcess` are the processes.
A shutdown whose grace period ends before the work does is a `Crash`.

Two details come straight from the code. An empty listing reaches
`DeleteMailboxesExcept` as NULL, and the statement then deletes nothing.
`stopHeartbeat` does not wait for the goroutine, so a heartbeat may follow
`Release` (`LateHeartbeat`): it fails, or the process panics.

`"failed"` stands for the statuses `failed` and `cancelled`. That the database
frees the lock the moment a session ends, and that a run with a living session is
never stale to `MarkOrphanedRuns` (it beats every interval, stale is five), are
assumptions. `absent`, `strayed` and `orphaned` are history.

### UpstreamSession

`pc` is the place in `Session.Do`: `Try` is the top of its loop together with
what `ensureConnected` finds; `Advance` takes `Connect` from stage to stage
(dial, TLS, greeting, LOGIN, capabilities); `Reselect` opens the remembered
mailbox; `Send`, `ServerAnswers` and `Succeed` or `Refuse` are the command.
`StageFails`, `StageExpires`, `Rejected`, `ReselectRefused` and `ConnectFails`
are the ways out of a connection attempt, `RunFails` those out of a command,
with `Recoverable` and `Severity` deciding; `WaitBeforeRetry` counts attempts.

`withDeadline` starts a goroutine when the context of a call is done. It is three
steps: `Expire` starts it, `Poison` and `CloseAtDeadline` are its two statements.
`stop` does not wait for it, so all three may interleave with the end of the
call and with the next ones, and `poisoned` is read without synchronisation:
`Try` may see it or not. A server may stay silent for ever: nothing about it is
fair. LOGOUT is part of `Close`. `ran` and `promised` are history.

### ImapSession

`rows` and `uidNext` are the tables as the sync changes them (`Deliver`,
`Relist`, `Remove`); `snapshot`, `mailbox` and `readOnly` are the session;
`conn` is go-imap's connection state, which is not the same: a SELECT whose
list cannot be read leaves the session with a mailbox and the connection without
one. Commands that change nothing share `Reads`. After a command that succeeded
go-imap calls `Poll` before the tagged OK; a failing poll ends the connection.
SELECT is two statements (`Select`, `SelectSnapshot`), and so is each row of a
STORE (`SetFlags`, `EnqueueMutation`). `base`, `promised`, `given`, `shown`,
`acted` and `unqueued` are history. `src/third_party/go-imap` is the fork the
repository builds with; its few lines that decide the order of calls are mapped.

### MessageStore

`rows` are `mailbox_messages` and `messages` the `messages` table, with the
placeholder digest as a pair of no digest and a UID: a message listed under a
UID that an older row once had shares that row's placeholder. A worker claims,
fetches, puts the blob, looks for the digest (`AttachLook`, which locks its row),
writes (`AttachBody`: `Relink` or `Record`, or `AttachFails` at the unique index)
and ingests in a transaction of its own. `Renumber` may fall anywhere, also under
a worker, whose reconnection then reads under the new numbering; the mailbox's
UIDVALIDITY is stored only by `SaveCheckpoint` or by the reset. A content is its
own digest and its own parsed text; `Untitled` ones have no Subject header, so
that what `COALESCE` keeps is visible. A messages row has the subject, which the
upsert writes again when the placeholder is already there, the `envelope`
(addresses, Message-ID, sent date), which only parsing replaces, and `received`
(the internal date), which nothing does. `Reap` goes by age; under a worker it
is a fault. `of` and `epoch` in a row are history, and so are `reaped`, the rows
reaped in a worker's hand, and `doubtful`, the messages rows that a body fetched
on such a claim was attached to.

`Queue` maps it to `WorkQueue`. A row that lost its upstream UID is gone to the
queue, as is a deleted one; a worker has an item from its claim until the row is
written, so that of FETCH, blob, look-up, write and ingestion only the write, and
what goes wrong, are steps of the queue.

## 3. Runs

| run | module, cfg | shows | states |
|---|---|---|---|
| `metadata_condstore` | `MCMetadataPass`, `MetadataCondStore` | no message below the stored UIDNEXT is without its row; no flag change lost by a completed pass; no row outlives a renumbering; no live row is dropped; the pass implements `RowFeed` | 2.6 million |
| `metadata_plain` | `MCMetadataPass`, `MetadataPlain` | without CONDSTORE the rows come to equal the mailbox once others and failures stop | 228 thousand |
| `body_safety` | `MCBodyPass`, `BodySafety` | unless it was reaped in use, a claim is in one hand and a settled row stays settled; the pass implements `WorkQueue`, whose leases may expire; nothing found beside the pass is missed; a deleted row stays deleted (`RowFeed`) | 2.0 million |
| `body_liveness` | `MCBodyPass`, `BodyLiveness` | a message is parked as large only if it is or was in a batch with one; a pass with a worker left ends; every row settles | 411 thousand |
| `planner` | `MCPlanner`, `Planner` | the batches are the list, in order, within the budgets, cut only where they must be | 321 thousand |
| `mutation_replay` | `MCMutationQueue`, `MutationReplay` | the newest of changes that do not overlap ends on the server; the queue drains; mirror and server come to agree, also when claims are released under a live replayer | 130 thousand |
| `account_safety` | `MCAccountSync`, `AccountSafety` | one run at a time while lock sessions live; no run signs in to a rejected account; no live mailbox dropped; no outage recorded as a success | 2.7 million |
| `account_liveness` | `MCAccountSync`, `AccountLiveness` | every run closes its record; the lock is never kept, by a run or by a pool | 95 thousand |
| `upstream_session` | `MCUpstreamSession`, `UpstreamSession` | commands run in the selected mailbox and mode; one socket; a success is an effect of that call; every call returns | 671 thousand |
| `imap_session` | `MCImapSession`, `ImapSession` | a UID stays with its message; UIDNEXT is kept; an acknowledged STORE is queued; IDLE catches up | 418 thousand |
| `imap_wrong_message` | `MCImapSession`, `ImapWrongMessage` | counterexample, see section 5 | |
| `message_store` | `MCMessageStore`, `MessageStore` | body, subject and parsed text belong to their message, unless its claim was reaped in use; no row of a live message vanishes; the store implements `WorkQueue` | 2.2 million |

The type invariants are proved (section 6); no run repeats them.

Bounds, and why they are enough to be interesting:

* metadata: two UIDs and chunks of one give a pass with two chunks, so that an
  interruption, a mid-pass checkpoint and a delivery fall between them; four
  modification sequences leave two for changes after the mailbox is filled; two
  UIDVALIDITYs are one renumbering; two faults interrupt two passes in a row.
  `ExpungeBumps` covers servers whose expunge raises HIGHESTMODSEQ and those
  whose does not.
* body: two UIDs, one large and one that vanishes, two workers, batches of one, two
  attempts of a session and two of a row, one fault: the two workers meet on
  released claims and on one that was reaped in use. The liveness run has one
  worker, two faults, no symmetry, and batches of two, so that a small message
  is in a batch with the large one; it was also checked with the large message
  going alone (241 thousand states) and with two attempts of a session (862
  thousand). `MaxReaps` bounds the reaps under a running pass to one. The code
  bounds them too: a claim has to be `claim_reap_after` old (15 minutes by
  default, against a `fetch_body_timeout` of 10 for each attempt of each batch),
  and a run lasts `max_run_duration` (2 hours).
* planner: lists of up to four messages with every way to divide six bytes among
  them, under budgets that are off, at, below and above those sizes and counts.
* mutations: two flag sets for one message are the least with an older and a newer
  change; two replayers and two faults give a crash between push and record
  followed by a failure of the one who takes over, or a claim released under its
  replayer. Three faults were checked too (579 thousand states).

* account: two processes with a runner each, two calls, two faults (a lost session
  and a crash, or a changed password and a failure); one mailbox that is synced
  and one that cannot be selected, so that a listing without the first is not
  empty. In the safety run the first missed heartbeat cancels the run; the
  liveness run counts to three as the code does, with one runner and no symmetry.

* upstream session: two mailboxes and three calls are a selection, a change of
  mailbox that may be refused, and a command after it; two attempts of `Do` and
  two faults let the second attempt fail too, or a renumbering meet a broken
  connection. Deadlines are not faults: any number may pass.
* IMAP: two messages and two UIDs per mailbox are the least in which a removal
  moves a number; three commands are SELECT, FETCH, STORE; two mailboxes let a
  SELECT of one fail while the other is open.
* message store: two UIDs that may hold the same content or two, three rows ever,
  so that one message is listed under two numberings and another beside it; two
  workers, one renumbering, one fault (a crash, a failure in any step, or a claim
  reaped in use). Four rows (2.4 million states), and two faults (4.2 million),
  were checked too and are left out for their time.

The runs of `MutationQueue`, `AccountSync`, `ImapSession` and `Planner` do not check
for deadlock: clients need not do anything, calls of `SyncAccount` and the clients'
commands are bounded, a plan is finished, and the system may come to rest. The
other runs do.

## 4. Fairness

Faults are never fair and are bounded, so every liveness property reads "once
failures stop". What is fair, and where the code justifies it:

* a pass's next step (`MetadataPass`, `BodyPass`): every command has a deadline
  (`withDeadline`) and every loop of the passes advances; the sync loop starts
  passes on its ticker for ever;
* `CloseMetadataDone`: it is deferred in the goroutine that runs the metadata pass;
* every worker, by itself: each is a goroutine;
* `Deadline`: `max_run_duration` bounds a run, and is taken only for a pass that
  nobody works for any more;
* `ReapStaleClaims` and `ReleaseStaleMutations`: the maintenance loop ticks;
* a run of `AccountSync` and its heartbeat: goroutines and a ticker. `Deadline` is
  fair only while the lock's session lives, so that for a run that lost it the
  heartbeat has to do its work. `Recycle` is fair: the pool closes idle
  connections older than `conn_max_lifetime` (`db/db.go:27`);
* replay loops, the end of a backoff, a STORE that has begun, and the account
  coming back into service: tickers, clocks, a handler that returns, and the
  operator who cures what `auth_failed` reports.

* `UpstreamSession`: what `Do` does by itself, the expiry of every deadline, and
  the two statements of the goroutine it starts. Answers of the server are not
  fair, so `EveryCallReturns` holds against a server that is silent for ever;
* the ticker of an idling `ImapSession`.

Other clients of the server, and the mirror's clients before a STORE, are not fair.

## 5. Where the code and its comments disagree

The first is a run of `PROJECT.json`, which quotes the lines. The others are
configurations of the same modules that end with the counterexample described;
TLC shows it with `tlc -config <cfg> <module>`.

1. **A number that means another message** (`imap_wrong_message`).
   `imapsrv/fetch.go:26` says that sequence numbers index the snapshot captured at
   SELECT and that getting this wrong makes a client act on the wrong messages.
   `Poll` replaces the snapshot after every command. When rows have gone it sends
   the smaller EXISTS and no EXPUNGE, and when as many came as went it sends
   nothing; a STORE by the number a FETCH has shown then changes another message.
2. **Nothing is re-linked after a renumbering** (`MessageRelinked.cfg`,
   `MCMessageStore`).
   `syncer/mailbox.go:73` and `store/mailboxes.go:181` promise that messages are
   re-linked by content instead of downloaded again. Every message is listed and
   downloaded again; only then does `AttachBody` point its new row at the stored
   content, and the old row, without a UID, stays in the mailbox: each message
   is there twice.
3. **Flags lost after an interrupted first pass** (`MetadataLostFlags.cfg`,
   `MCMetadataPass`). Rows
   recorded by the interrupted pass are known to the next one, which has no
   stored sequence to ask CHANGEDSINCE from and skips known UIDs; it then stores a
   sequence that covers a change it never saw.
4. **A producer nobody receives from** (`BodyDeserted.cfg`, `MCBodyPass`). A worker
   that cannot open
   its mailbox returns before the draining loop. When all do, the producer blocks
   until the run's deadline.
5. **The last change does not always win** (`MutationLastWins.cfg`,
   `MCMutationQueue`). Older rows of a
   message are not superseded, and flags that were queued before keep their place
   in the order: of A, B, A the server ends with B.
6. **A rejection is forgotten** (`AccountRejected.cfg`, `MCAccountSync`). A sync from
   the web interface
   of an account marked `auth_failed` does nothing, returns no error, and so is
   recorded as a success that sets `auth_state` to `ok`: the account is back in the
   rotation with the credentials that were refused.
7. **A heartbeat without its connection** (`AccountHeartbeat.cfg`, `MCAccountSync`).
   The goroutine is
   told to stop and not waited for; a tick that is due when the run ends uses the
   connection after it was given back.
8. **A reconnection that shows** (`UpstreamNumbering.cfg`, `MCUpstreamSession`).
   `upstream/session.go:177` restores the mailbox "so a reconnection is invisible
   to code that selected once". Its UIDVALIDITY is not compared with the one the
   caller was told, so the UIDs in a repeated command may mean other messages.
9. **A message fetched twice** (`BodyReaped.cfg`, `MCBodyPass`).
   `store/messages.go:178` says that parallel workers never fetch the same message
   twice. The reaper goes by age (`messages.go:310`): a claim that has waited in a
   long plan or through retries is handed out again while its worker is at it.
10. **A message listed with another one's addresses** (`MessageEnvelope.cfg`,
   `MCMessageStore`). A row whose body was not there yet when the mailbox
   was renumbered keeps its placeholder, and the message that has its UID now is
   listed with the same one.
   The upsert writes its subject (`messages.go:120`) and leaves addresses, dates
   and Message-ID, which the IMAP server shows until the body is there
   (`imapsrv/list.go:183`).

Reaping or releasing by age has three more consequences. Each is an exception of
a property, and TLC finds each of them when the exception is taken away:

* `ParsedIsBody`: a worker fetches a message, the mailbox is renumbered, the claim
  is reaped and the row fetched a second time, as another message; both are
  recorded on one messages row, the first worker's parsed text last;
* `BodyIsItsMessage`: the late failure of the first worker makes a stored row
  pending again, and its second body is recorded over a messages row that another
  row shares by then;
* `SoleChangeWins`: a replayer pushes a change and is slow to record it, the claim
  is released and taken by a second replayer, the first one settles it, a newer
  change is queued, pushed and settled, and the second replayer pushes the old
  change over it.

What survives of each promise is a property of a passing run: `FlagsSurvive`
(from the first completed pass on), `Converges` (without CONDSTORE), `PassEnds`
(while a worker is left), `OneHolder` and `SettledIsFinal` (claims not reaped in
use), `SoleChangeWins` (changes that do not overlap), `QuietAfterRejection` (runs,
as long as the mark stands), `SubjectIsItsMessage` (the subject only),
`RunsAreRecorded`.

For the newer modules: `BodyIsItsMessage` (rows listed under the present
numbering; the reconnection of item 8 can only spoil rows of an older one, which
the next pass takes out of use), `RightMailbox` (mailbox and mode, not the
numbering), `UIDNextHolds` and `UIDsPermanent` (a client that works with UIDs is
safe from item 1).

Some limits have no configuration of their own. With CONDSTORE, on a server whose expunge raises
neither HIGHESTMODSEQ nor UIDNEXT, the unchanged-mailbox shortcut hides a deletion
until something else changes (`Converges` is therefore checked without CONDSTORE).
`ErrMessageTooLarge` parks every claim left in its batch, so where a message above
the limit does not go alone the small ones beside it are parked for good
(`ParkedBesideLarge` says that no others are). The replay loop looks at
`auth_state` once and then signs in without the account's lock, also after a run
has marked the account as rejected (`syncer/mutations.go:34`). A rejected
reconnection is reported behind the mailbox's error, and `SeverityOf` takes the
first severity it finds, so the account is not marked before the next run
(`engine.go:278`, action `ReconnectFails`).
In the IMAP session: a STORE refreshes the snapshot without comparing lengths, so
mail that arrived during it is never announced by an EXISTS (`fetch.go:377`);
`+FLAGS` starts from the flags in the snapshot, not from the row (`fetch.go:349`);
an IDLE that reaches `imap.idle_timeout` ends the session's loop while go-imap
goes on waiting for DONE, so the client hears nothing more (`session.go:279`,
action `IdleEnds`); and the UIDVALIDITY shown to clients contains the sync
generation, which a renumbering upstream increments, although the comment at
`session.go:205` says that it does not invalidate their cache.

## 6. Proofs

All theorems hold for every value of the constants that satisfies the module's
`ConstantsAssumption`: any number of messages, workers, replicas and faults, any
chunk or batch size. TLC evaluates the assumptions in every run; they
type the bounds and sets and keep the null values apart, and no theorem assumes
more. What the code does not keep is an exception inside the property.

| theorem | of |
|---|---|
| `TypeCorrect` | every module but `WorkQueue` and `RowFeed` |
| `MetadataPassImplementsFeed` | `MetadataPass`, `RowFeed` |
| `DeletedStaysDeleted` | `BodyPass`, `RowFeed` |
| `StoreImplementsQueue` | `MessageStore`, `WorkQueue` |
| `PlanIsPartition`, `BatchesFit`, `SplitsAreNeeded` | `Planner` |
| `NewMailNeverSkipped`, `DeletionsAreReal`, `RenumberingNeverMixes`, `FlagChangesSurvive` | `MetadataPass` |
| `NoMessageMissed`, `SmallNeverParked`, `ClaimsAreExclusive`, `SettledStaysSettled` | `BodyPass` |
| `BodyPassImplementsQueue` | `BodyPass`, `WorkQueue` |
| `SoleChangesWin` | `MutationQueue` |
| `OneRunCorrect`, `QuietCorrect`, `DropsCorrect`, `GreenCorrect` | `AccountSync` |
| `OneSocketCorrect`, `RightMailboxCorrect`, `SuccessCorrect` | `UpstreamSession` |
| `UIDsPermanentCorrect`, `UIDNextCorrect`, `DivergenceCorrect` | `ImapSession` |
| `BodyCorrect`, `SubjectCorrect`, `ParsedCorrect`, `VanishCorrect` | `MessageStore` |

*Metadata pass.* `NoMissedMessage` speaks of the stored checkpoint, but the final
checkpoint is written from a SELECT made long before. The invariant therefore
carries the whole pass: `SelectionInv` (what SELECT said is still a lower bound
of the server), `EnumerationInv` (every message that SELECT could see has a row,
is in hand or is still to be fetched), `RowInv` and `ServerInv` (which UIDs can
exist at all), `CheckpointInv` (the checkpoint never runs ahead of the server)
and `FlagInv` (what is known of a flag change at each point of the pass). The
three action properties follow from the same invariant, one step per action.
`MetadataPassImplementsFeed` needs one fact more, `ListedInv`: as long as a row of
the present numbering exists, the stored UIDVALIDITY is the present one or none,
so that a reset never takes away a row that is still valid. `FeedServerStep` and
`FeedPassStep` then say for each action whether it delivers, expunges, lists,
removes or is none to the feed; that a removal only meets messages that have gone
is the last part of `EnumerationInv`.

*Body pass.* `WorkerInv` says that a worker only comes to claims of the running
pass, `BatchInv` that a message that goes alone is alone in its batch and that a
batch ends as too large only if one in it is, `SweepInv` what the producer has
claimed of what the metadata pass found, depending on how far its final sweep is.
`HoldInv` is the exclusive hold, for messages not in `reaped`: it also says that a
claim in the table whose message the pass is still at has its row in `fetching`.
It is kept by the reaper because whatever it takes from a queue or a batch joins
`reaped`, and by the end of a pass, which forgets `reaped`, because no hand is
left. The refinement rests on the same invariants: `QueueStep` goes through the
actions and says for each which step of `WorkQueue` it is. `HoldInv` is needed
where a worker takes a claim (nobody else has it, and its row is leased) and where
rows are released. `DeletedStaysDeleted` needs none of it: what a worker has in
hand was listed (`HandListed`), and every UPDATE of a row that has gone matches
nothing.

*Planner.* `Plan` says of the batches made so far that they follow one another,
that each is within its budget, and that each is followed by a message that did
not fit; `CurrentInv` and `CloseInv` say the same of the batch in the making and of
the border before it. Lemma `Extend` adds a batch at the end of a plan; `PlanAlone`
uses it twice, since it closes one batch and adds another. Sums never appear:
bytes are differences of `end`.

*Mutation queue.* A claim released by age may put one change into several hands, so
no invariant can speak of a single holder. For messages without overlapping
changes `HoldInv` says that whatever a replayer has, in its batch or in hand, is
the newest change, and that nothing else was pushed after it once it was pushed;
`NewestInv` says the same of what is not settled. However often it is pushed, it
is the same flags. Together with `SoleChangeWins` they are inductive.

*Account sync.* Lemma `Kinds` sorts every step into a handful of kinds by what it
does to jobs, lock, records and mailboxes; the invariants are then kept kind by
kind. `LockInv` ties lock, sessions and runs together: a living session has the
lock, exactly the runs under way have a session, and sessions die only where
`strayed` says so. `OneRun` follows, and with it `QuietAfterRejection`
is inductive: whoever writes the mark is alone. `MailboxInv` says that the list
a run prunes by misses only mailboxes that have been missing upstream, which needs
that nobody else adds rows meanwhile. `IdInv` keeps records apart, and
`OutcomeInv` follows the error of a run from the first failing mailbox to the
record.

*Upstream session.* `DialInv` (whoever dials has no client) makes `OneSocket`
inductive, and `WireInv` says that a request is on the wire only while a command
runs. `RightMailbox` needs `OpenInv`: what the connection has open is what the
session remembers, or nothing. It has one exception. When the server has granted
a SELECT and the caller is cancelled before `Do` returns, connection and memory
part; the proof shows that no command follows before the session is closed.
`EffectInv` ties the server's grant to an effect, from which `SuccessIsEffect`
follows.

*IMAP session.* `GivenInv` says that every UID ever given lies below the mailbox's
counter, its row there or not; `UIDsPermanent` is inductive with it. `PromiseInv`
says that the counter has not fallen below what SELECT read, from that statement
on, so that rows which join between it and the snapshot do no harm. `QueueInv`
says that STORE has at most one change that is written and not yet queued.
`FiniteInv` (lists have a length) is needed for the types of sequence numbers.

*Message store.* The heart is `LinkInv`: a listed row without a body points at the
placeholder of its own UID, a stored one at a messages row with a digest. With
`RowInv` (a UID lists one row, ids are not reused) it follows that whatever else
points at a placeholder is not listed any more, so that recording a body, or
removing the placeholder, changes nobody's message. `HoldInv` (one worker to a row
that was not reaped in use, a locked row is there) and `ContentInv` (what a worker
has is the body of its row, unless the numbering changed since) carry a body from
FETCH to the tables; `ServerInv` says that under one numbering a UID means one
message. A digest, once written, stays, except on a messages row in `doubtful`:
that is why the look-up of `AttachBody` may be stale without harm. A row is written
by a second worker only if it was reaped in use, and that write puts its messages
row in `doubtful`, which is how all parts stay inductive under a reaper that goes
by age. The theorems follow with `MessageInv` and `MatchInv`.

That the store implements `WorkQueue` needs `HoldInv` for the exclusive hand and
`RowInv` for rows that are listed, or not, for good. Unlike `BodyPass` the model
claims a row and takes it in hand in one step (`Take`), and a row reaped in a
worker's hand is an expired lease, as there.

The invariants of the last three components were also checked with TLC on the bounds of
section 3 before they were proved.

Only model-checked: the liveness properties (`Converges`, `PassEnds`, `Settles`,
`Drains`, `Agree`, `RunsAreRecorded`, `LockIsFreed`, `EveryCallReturns`,
`IdleCatchesUp`), which rest on fairness and are out of the prover's reach. Every
other property of a passing run is the subject of a theorem.

## 7. Not modelled, and the plan

Left out of the modules: `RefreshMailboxCounts` and progress reporting
(read by nobody who decides anything), failing to decrypt
credentials (the pass does not start), the order of the mailboxes and the cached
capabilities, the content of flags
(`applyFlagChange` is any new value), the blobs of MIME parts, the delays of
`Backoff`, and what a FETCH, LIST or SEARCH says beyond numbers and UIDs.
`EpochsStaySeparate` begins with the first
checkpoint: rows recorded by a pass that died before it have no UIDVALIDITY
stored beside them, and a renumbering at that moment is not noticed
(`mailbox.go:75`).

Not to be modelled: TLS, wire and MIME parsing, rendering, cookies,
password hashing, configuration loading and validation, migrations, read-only
SQL (I/O, or functions of strings without state of their own).

Planned:

| module | what | properties |
|---|---|---|
| `MailboxSync` | `MetadataPass` and `BodyPass` over one table, beyond what `RowFeed` says of either | a vanished message is not claimed for ever; both passes settle |

A further refinement worth stating: `MutationQueue` implements a `WorkQueue` whose
done items may be offered again.
