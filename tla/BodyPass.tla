------------------------------ MODULE BodyPass ------------------------------
(***************************************************************************)
(* The body half of syncMailbox: rows that wait for their message body are *)
(* claimed in the database by one producer, planned into batches, handed   *)
(* over an unbuffered channel to a pool of workers with a connection each, *)
(* and stored.  Next to it run the metadata pass, which adds and removes   *)
(* rows, the reaper of the maintenance loop, and the upstream server,      *)
(* whose other clients expunge messages.                                   *)
(*                                                                         *)
(* A message is its upstream UID.  Time is not modelled: a deadline or a   *)
(* timeout may fire at any moment, and every claim that is old enough to   *)
(* be reaped may be.                                                       *)
(***************************************************************************)
EXTENDS Integers, FiniteSets

CONSTANTS
    Workers,        \* the body-fetch workers of a pass
    MaxUID,         \* the mailbox holds the UIDs 1..MaxUID
    Large,          \* UIDs of messages above limits.max_message_size
    Solo,           \* UIDs of messages above sync.body_max_inline_bytes
    BatchMax,       \* sync.body_batch_max_msgs
    MaxAttempts,    \* sync.body_max_attempts
    RetryMax,       \* upstream.retry_max_attempts
    Vanishing,      \* UIDs other clients of the server may expunge
    MaxReaps,       \* bound on the reaps under a running pass
    MaxFaults       \* bound on the failures of one behaviour

\* Nothing relates Large to Solo: body_max_inline_bytes may be 0, which sends
\* nothing alone, and the planner goes by a stored size that may be another
\* message's.
ASSUME ConstantsAssumption ==
    /\ IsFiniteSet(Workers)
    /\ Workers # {}
    /\ MaxUID \in Nat
    /\ BatchMax \in Nat \ {0}
    /\ MaxAttempts \in Nat \ {0}
    /\ RetryMax \in Nat
    /\ MaxReaps \in Nat
    /\ MaxFaults \in Nat

VARIABLES
    upstream,       \* UIDs the server holds
    bodyState,      \* mailbox_messages.body_state; "absent" before, "gone" after
    attempts,       \* mailbox_messages.body_attempts
    claims,         \* the claimTable's UIDs for this mailbox
    producer,       \* where the producer is; "off" between passes
    queue,          \* UIDs claimed and planned, not handed to a worker yet
    metadataDone,   \* the channel the metadata pass closes is closed
    finalSweep,     \* the producer's metadataFinished
    cancelled,      \* the run's context is done
    producerErr,    \* the producer returned an error
    worker,         \* where each worker is
    batch,          \* the batch each worker was handed
    left,           \* UIDs of that batch the worker has not come to yet
    hand,           \* the claim a worker has taken and not settled; NoClaim
    tries,          \* attempts of Session.Do at the batch
    workerErr,      \* workers that recorded an error
    found,          \* UIDs the metadata pass has added since the pass began
    mine,           \* UIDs the producer has claimed since the pass began
    outcome,        \* what the last pass returned
    reaped,         \* history: UIDs reaped while the running pass was at them
    reaps,          \* reaps under a running pass so far
    faults          \* failures so far

rows == <<bodyState, attempts>>
production == <<producer, queue, finalSweep, producerErr, mine>>
work == <<worker, batch, left, hand, tries, workerErr>>
metadata == <<metadataDone, found>>
reaping == <<reaped, reaps>>
vars == <<upstream, rows, claims, production, metadata, cancelled, work,
          reaping, outcome, faults>>

-----------------------------------------------------------------------------
(* Values *)

UIDs == 1..MaxUID
NoClaim == 0

\* The body states of a row, and "absent" and "gone" for no row.
BodyStates == {"absent", "pending", "fetching", "stored", "failed",
               "skipped_too_large", "gone"}
ProducerPhases == {"off", "claim", "wait", "send", "done"}
WorkerPhases == {"off", "open", "idle", "attempt", "fetch", "failed",
                 "tooLarge", "drain", "done", "lost"}
Outcomes == {"none", "ok", "error"}

In(state) == {m \in UIDs : bodyState[m] = state}

running == producer # "off"

\* A mutant of the operator below: a row that is claimed may be claimed again.
Claimable_InFlight ==
    {m \in In("pending") \cup In("fetching") : attempts[m] < MaxAttempts}

\* The rows ClaimPendingBodies may take, and how many it takes at a time.
Claimable == {m \in In("pending") : attempts[m] < MaxAttempts}
ClaimLimit == BatchMax * Cardinality(Workers) * 2

\* The newest n of a set of UIDs.
Newest(S, n) == {m \in S : Cardinality({v \in S : v > m}) < n}

\* What PlanBatches may make the first batch of a claim: a message that goes
\* alone, or others up to one that does.  The claim's rows come in any order:
\* the UPDATE that returns them has none, only the SELECT inside it.  How soon
\* the byte budget ends a batch depends on sizes that are not modelled here.
FirstBatches(S) ==
    {b \in SUBSET S :
        /\ b # {}
        /\ \/ \E m \in Solo : b = {m}
           \/ b \cap Solo = {} /\ Cardinality(b) <= BatchMax}

\* A worker is through with its batch.
LeaveBatch(w, phase) ==
    /\ worker' = [worker EXCEPT ![w] = phase]
    /\ batch' = [batch EXCEPT ![w] = {}]
    /\ left' = [left EXCEPT ![w] = {}]
    /\ tries' = [tries EXCEPT ![w] = 0]

\* It gives up: the error is recorded once the channel is drained.
GiveUp(w) == LeaveBatch(w, "drain") /\ workerErr' = workerErr \cup {w}

Retries == IF RetryMax < 1 THEN 1 ELSE RetryMax

Fault == faults < MaxFaults /\ faults' = faults + 1

\* A command or a statement fails: the run is cancelled, or by a fault.
CallFails == (cancelled /\ UNCHANGED faults) \/ Fault

-----------------------------------------------------------------------------
(* The metadata pass and the server, as the body pass sees them *)

\* UpsertMetadataBatch adds a row; its message may have gone since the FETCH.
Discover(m) ==
    /\ running
    /\ ~metadataDone
    /\ ~cancelled
    /\ bodyState[m] = "absent"
    /\ bodyState' = [bodyState EXCEPT ![m] = "pending"]
    /\ found' = found \cup {m}
    /\ UNCHANGED <<upstream, reaping, attempts, claims, production,
                   metadataDone, cancelled, work, outcome, faults>>

\* DeleteMissingUIDs removes the row of a message that has gone.
DeleteRow(m) ==
    /\ running
    /\ ~metadataDone
    /\ ~cancelled
    /\ bodyState[m] \notin {"absent", "gone"}
    /\ m \notin upstream
    /\ bodyState' = [bodyState EXCEPT ![m] = "gone"]
    /\ UNCHANGED <<upstream, reaping, attempts, claims, production, metadata,
                   cancelled, work, outcome, faults>>

\* The metadata pass returns, with or without an error.
CloseMetadataDone ==
    /\ running
    /\ ~metadataDone
    /\ metadataDone' = TRUE
    /\ UNCHANGED <<upstream, reaping, rows, claims, production, found,
                   cancelled, work, outcome, faults>>

\* Another client of the server expunges a message.
Vanish(m) ==
    /\ m \in upstream
    /\ upstream' = upstream \ {m}
    /\ UNCHANGED <<reaping, rows, claims, production, metadata, cancelled,
                   work, outcome, faults>>

-----------------------------------------------------------------------------
(* The producer *)

StartPass ==
    /\ producer = "off"
    /\ producer' = "claim"
    /\ worker' = [w \in Workers |-> "open"]
    /\ mine' = {}
    /\ found' = {}
    /\ outcome' = "none"
    /\ UNCHANGED <<upstream, reaping, rows, claims, queue, finalSweep,
                   producerErr, metadataDone, cancelled, batch, left, hand,
                   tries, workerErr, faults>>

\* Claims work, newest first, and remembers it for the workers.
ClaimPendingBodies ==
    /\ producer = "claim"
    /\ ~cancelled
    /\ Claimable # {}
    /\ LET claimed == Newest(Claimable, ClaimLimit) IN
          /\ bodyState' = [m \in UIDs |-> IF m \in claimed THEN "fetching"
                                                           ELSE bodyState[m]]
          /\ claims' = claims \cup claimed
          /\ queue' = claimed
          /\ mine' = mine \cup claimed
    /\ producer' = "send"
    /\ UNCHANGED <<upstream, reaping, attempts, finalSweep, producerErr,
                   metadata, cancelled, work, outcome, faults>>

\* Nothing to claim: the producer stops if the metadata pass was already known
\* to be over before it looked.
SweepFindsNothing ==
    /\ producer = "claim"
    /\ ~cancelled
    /\ Claimable = {}
    /\ producer' = IF finalSweep THEN "done" ELSE "wait"
    /\ UNCHANGED <<upstream, reaping, rows, claims, queue, finalSweep,
                   producerErr, mine, metadata, cancelled, work, outcome,
                   faults>>

\* Mutants of the action below: the end of the metadata pass ends the producer
\* without another look; it is not remembered.
WaitForMetadata_Stops ==
    /\ producer = "wait"
    /\ finalSweep' = metadataDone
    /\ producer' = IF metadataDone THEN "done" ELSE "claim"
    /\ UNCHANGED <<upstream, reaping, rows, claims, queue, producerErr, mine,
                   metadata, cancelled, work, outcome, faults>>

WaitForMetadata_Forgets ==
    /\ producer = "wait"
    /\ producer' = "claim"
    /\ UNCHANGED <<upstream, reaping, rows, claims, queue, finalSweep,
                   producerErr, mine, metadata, cancelled, work, outcome,
                   faults>>

\* The end of the metadata pass or the poll interval makes it look again.
WaitForMetadata ==
    /\ producer = "wait"
    /\ finalSweep' = metadataDone
    /\ producer' = "claim"
    /\ UNCHANGED <<upstream, reaping, rows, claims, queue, producerErr, mine,
                   metadata, cancelled, work, outcome, faults>>

\* The channel is unbuffered: a batch goes to a worker that is receiving.  One
\* that has given up discards it.
SendBatch(w) ==
    /\ producer = "send"
    /\ \E b \in FirstBatches(queue) :
          /\ queue' = queue \ b
          /\ producer' = IF queue \ b = {} THEN "claim" ELSE "send"
          /\ \/ /\ worker[w] = "idle"
                /\ worker' = [worker EXCEPT ![w] = "attempt"]
                /\ batch' = [batch EXCEPT ![w] = b]
             \/ worker[w] = "drain" /\ UNCHANGED <<worker, batch>>
    /\ UNCHANGED <<upstream, reaping, rows, claims, finalSweep, producerErr,
                   mine, metadata, cancelled, left, hand, tries, workerErr,
                   outcome, faults>>

\* The context is done, or claiming fails.
ProducerFails ==
    /\ \/ producer = "claim" /\ CallFails
       \/ producer \in {"send", "wait"} /\ cancelled /\ UNCHANGED faults
    /\ producer' = "done"
    /\ producerErr' = TRUE
    /\ UNCHANGED <<upstream, reaping, rows, claims, queue, finalSweep, mine,
                   metadata, cancelled, work, outcome>>

-----------------------------------------------------------------------------
(* The workers: fetchBatchSession and fetchBatch *)

\* The worker connects and opens the mailbox.
OpenMailbox(w) ==
    /\ worker[w] = "open"
    /\ ~cancelled
    /\ worker' = [worker EXCEPT ![w] = "idle"]
    /\ UNCHANGED <<upstream, reaping, rows, claims, production, metadata,
                   cancelled, batch, left, hand, tries, workerErr, outcome,
                   faults>>

\* It cannot: a refused connection is no error, anything else is one.  The
\* worker returns without having received anything.
OpenFails(w) ==
    /\ worker[w] = "open"
    /\ CallFails
    /\ worker' = [worker EXCEPT ![w] = "lost"]
    /\ workerErr' \in {workerErr, workerErr \cup {w}}
    /\ UNCHANGED <<upstream, reaping, rows, claims, production, metadata,
                   cancelled, batch, left, hand, tries, outcome>>

\* Session.Do begins an attempt, reconnecting first if it has to, and the FETCH
\* is issued.  The server answers for the messages it still holds.
Attempt(w) ==
    /\ worker[w] = "attempt"
    /\ ~cancelled
    /\ worker' = [worker EXCEPT ![w] = "fetch"]
    /\ left' = [left EXCEPT ![w] = batch[w] \cap upstream]
    /\ tries' = [tries EXCEPT ![w] = @ + 1]
    /\ UNCHANGED <<upstream, reaping, rows, claims, production, metadata,
                   cancelled, batch, hand, workerErr, outcome, faults>>

\* The run is cancelled, or reconnecting fails; unless that is final or was
\* the last attempt there is another.  The batch's claims are not released.
AttemptFails(w) ==
    /\ worker[w] = "attempt"
    /\ CallFails
    /\ \/ /\ ~cancelled
          /\ tries[w] + 1 < Retries
          /\ tries' = [tries EXCEPT ![w] = @ + 1]
          /\ UNCHANGED <<worker, batch, left, workerErr>>
       \/ GiveUp(w)
    /\ UNCHANGED <<upstream, reaping, rows, claims, production, metadata,
                   cancelled, hand, outcome>>

\* A mutant of the operator below: the claim stays in the table.
TakeClaim_Keeps(w, m) ==
    /\ left' = [left EXCEPT ![w] = @ \ {m}]
    /\ claims' = claims
    /\ hand' = [hand EXCEPT ![w] = IF m \in claims THEN m ELSE NoClaim]

\* The worker comes to a UID of its batch: it takes the claim if there is one.
TakeClaim(w, m) ==
    /\ left' = [left EXCEPT ![w] = @ \ {m}]
    /\ claims' = claims \ {m}
    /\ hand' = [hand EXCEPT ![w] = IF m \in claims THEN m ELSE NoClaim]

\* The response for a message arrives.  Without a claim it is drained.
ReceiveBody(w, m) ==
    /\ worker[w] = "fetch"
    /\ hand[w] = NoClaim
    /\ m \in left[w] \ Large
    /\ TakeClaim(w, m)
    /\ UNCHANGED <<upstream, reaping, rows, production, metadata, cancelled,
                   worker, batch, tries, workerErr, outcome, faults>>

\* A message is larger than the limit: the FETCH ends there, with an error.
ReceiveTooLarge(w, m) ==
    /\ worker[w] = "fetch"
    /\ hand[w] = NoClaim
    /\ m \in left[w] \cap Large
    /\ worker' = [worker EXCEPT ![w] = "tooLarge"]
    /\ left' = [left EXCEPT ![w] = batch[w]]
    /\ UNCHANGED <<upstream, reaping, rows, claims, production, metadata,
                   cancelled, batch, hand, tries, workerErr, outcome, faults>>

\* A mutant of the action below: a row that is not there is made.
AttachBody_Upserts(w) ==
    /\ worker[w] = "fetch"
    /\ hand[w] # NoClaim
    /\ ~cancelled
    /\ bodyState' = [bodyState EXCEPT ![hand[w]] = "stored"]
    /\ hand' = [hand EXCEPT ![w] = NoClaim]
    /\ UNCHANGED <<upstream, reaping, attempts, claims, production, metadata,
                   cancelled, worker, batch, left, tries, workerErr, outcome,
                   faults>>

\* The body is in the blob store; the row is marked, whatever its state was.
AttachBody(w) ==
    /\ worker[w] = "fetch"
    /\ hand[w] # NoClaim
    /\ ~cancelled
    /\ bodyState[hand[w]] # "gone"
    /\ bodyState' = [bodyState EXCEPT ![hand[w]] = "stored"]
    /\ hand' = [hand EXCEPT ![w] = NoClaim]
    /\ UNCHANGED <<upstream, reaping, attempts, claims, production, metadata,
                   cancelled, worker, batch, left, tries, workerErr, outcome,
                   faults>>

\* AttachBody fails, or finding the message it was attached to does: the
\* handler returns the error, the claim is spent.
AttachFails(w) ==
    /\ worker[w] = "fetch"
    /\ hand[w] # NoClaim
    /\ \/ bodyState[hand[w]] = "gone" /\ UNCHANGED <<bodyState, faults>>
       \/ CallFails /\ UNCHANGED bodyState
       \/ /\ Fault
          /\ ~cancelled
          /\ bodyState[hand[w]] # "gone"
          /\ bodyState' = [bodyState EXCEPT ![hand[w]] = "stored"]
    /\ hand' = [hand EXCEPT ![w] = NoClaim]
    /\ worker' = [worker EXCEPT ![w] = "failed"]
    /\ left' = [left EXCEPT ![w] = batch[w]]
    /\ UNCHANGED <<upstream, reaping, attempts, claims, production, metadata,
                   cancelled, batch, tries, workerErr, outcome>>

\* The UPDATE of MarkBodyFailed, whatever the row's state was; no row, no
\* change.
MarkBodyFailed(m) ==
    IF bodyState[m] = "gone"
    THEN UNCHANGED rows
    ELSE /\ attempts' = [attempts EXCEPT ![m] = @ + 1]
         /\ bodyState' = [bodyState EXCEPT ![m] =
                             IF attempts[m] + 1 >= MaxAttempts THEN "failed"
                                                               ELSE "pending"]

\* Reading the body or writing the blob fails: the message is marked and the
\* batch goes on.
BodyNotStored(w) ==
    /\ worker[w] = "fetch"
    /\ hand[w] # NoClaim
    /\ ~cancelled
    /\ Fault
    /\ MarkBodyFailed(hand[w])
    /\ hand' = [hand EXCEPT ![w] = NoClaim]
    /\ UNCHANGED <<upstream, reaping, claims, production, metadata, cancelled,
                   worker, batch, left, tries, workerErr, outcome>>

\* Every response was handled.
FetchEnds(w) ==
    /\ worker[w] = "fetch"
    /\ hand[w] = NoClaim
    /\ left[w] = {}
    /\ LeaveBatch(w, "idle")
    /\ UNCHANGED <<upstream, reaping, rows, claims, production, metadata,
                   cancelled, hand, workerErr, outcome, faults>>

\* A mutant of the action below: every error is taken for ErrMessageTooLarge.
FetchFails_TooLarge(w) ==
    /\ worker[w] = "fetch"
    /\ hand[w] = NoClaim
    /\ CallFails
    /\ worker' = [worker EXCEPT ![w] = "tooLarge"]
    /\ left' = [left EXCEPT ![w] = batch[w]]
    /\ UNCHANGED <<upstream, reaping, rows, claims, production, metadata,
                   cancelled, batch, hand, tries, workerErr, outcome>>

\* The command fails or runs into its deadline.
FetchFails(w) ==
    /\ worker[w] = "fetch"
    /\ hand[w] = NoClaim
    /\ CallFails
    /\ worker' = [worker EXCEPT ![w] = "failed"]
    /\ left' = [left EXCEPT ![w] = batch[w]]
    /\ UNCHANGED <<upstream, reaping, rows, claims, production, metadata,
                   cancelled, batch, hand, tries, workerErr, outcome>>

\* After the failed FETCH: the next message of the batch, in batch order.
ReleaseNext(w, m) ==
    /\ worker[w] \in {"failed", "tooLarge"}
    /\ hand[w] = NoClaim
    /\ m \in Newest(left[w], 1)
    /\ TakeClaim(w, m)
    /\ UNCHANGED <<upstream, reaping, rows, production, metadata, cancelled,
                   worker, batch, tries, workerErr, outcome, faults>>

\* Its claim is given back as a failed attempt, or the message is parked as
\* too large.
SettleClaim(w) ==
    /\ hand[w] # NoClaim
    /\ ~cancelled
    /\ \/ worker[w] = "failed" /\ MarkBodyFailed(hand[w])
       \/ /\ worker[w] = "tooLarge"
          /\ bodyState' = [bodyState EXCEPT ![hand[w]] =
                              IF @ = "gone" THEN @ ELSE "skipped_too_large"]
          /\ UNCHANGED attempts
    /\ hand' = [hand EXCEPT ![w] = NoClaim]
    /\ UNCHANGED <<upstream, reaping, claims, production, metadata, cancelled,
                   worker, batch, left, tries, workerErr, outcome, faults>>

\* The UPDATE fails.  The release loop ignores that, MarkBodyTooLarge's error
\* ends the batch.
SettleFails(w) ==
    /\ worker[w] \in {"failed", "tooLarge"}
    /\ hand[w] # NoClaim
    /\ CallFails
    /\ hand' = [hand EXCEPT ![w] = NoClaim]
    /\ IF worker[w] = "tooLarge"
       THEN GiveUp(w)
       ELSE UNCHANGED <<worker, batch, left, tries, workerErr>>
    /\ UNCHANGED <<upstream, reaping, rows, claims, production, metadata,
                   cancelled, outcome>>

\* Every claim of the batch is settled.  A batch with a message that was too
\* large is done; after another error Session.Do tries again if a fresh
\* connection may help, and the worker gives up otherwise.
ReleaseEnds(w) ==
    /\ hand[w] = NoClaim
    /\ left[w] = {}
    /\ \/ /\ worker[w] = "tooLarge"
          /\ LeaveBatch(w, "idle")
          /\ UNCHANGED workerErr
       \/ /\ worker[w] = "failed"
          /\ ~cancelled
          /\ tries[w] < Retries
          /\ worker' = [worker EXCEPT ![w] = "attempt"]
          /\ UNCHANGED <<batch, left, tries, workerErr>>
       \/ /\ worker[w] = "failed"
          /\ GiveUp(w)
    /\ UNCHANGED <<upstream, reaping, rows, claims, production, metadata,
                   cancelled, hand, outcome, faults>>

\* The producer has closed the channel.
ChannelClosed(w) ==
    /\ producer = "done"
    /\ worker[w] \in {"idle", "drain"}
    /\ worker' = [worker EXCEPT ![w] = "done"]
    /\ UNCHANGED <<upstream, reaping, rows, claims, production, metadata,
                   cancelled, batch, left, hand, tries, workerErr, outcome,
                   faults>>

-----------------------------------------------------------------------------
(* The end of a pass, the reaper, and the process *)

\* What a pass keeps in memory.
ForgetPass ==
    /\ producer' = "off"
    /\ queue' = {}
    /\ finalSweep' = FALSE
    /\ producerErr' = FALSE
    /\ metadataDone' = FALSE
    /\ cancelled' = FALSE
    /\ worker' = [w \in Workers |-> "off"]
    /\ batch' = [w \in Workers |-> {}]
    /\ left' = [w \in Workers |-> {}]
    /\ hand' = [w \in Workers |-> NoClaim]
    /\ tries' = [w \in Workers |-> 0]
    /\ workerErr' = {}
    /\ reaped' = {}

\* Both passes are over.  A worker's error counts only if every worker had one.
EndPass ==
    /\ producer = "done"
    /\ metadataDone
    /\ \A w \in Workers : worker[w] \in {"done", "lost"}
    /\ outcome' = IF producerErr \/ workerErr = Workers THEN "error" ELSE "ok"
    /\ ForgetPass
    /\ UNCHANGED <<upstream, rows, claims, mine, found, reaps, faults>>

\* The producer has a batch to hand over and no worker ever opened the mailbox.
Deserted == producer = "send" /\ \A w \in Workers : worker[w] = "lost"

\* Nothing happens any more until sync.max_run_duration is over.
Deadline ==
    /\ Deserted
    /\ ~cancelled
    /\ cancelled' = TRUE
    /\ UNCHANGED <<upstream, reaping, rows, claims, production, metadata, work,
                   outcome, faults>>

\* The run is cancelled at any other time.
Cancel ==
    /\ running
    /\ ~cancelled
    /\ cancelled' = TRUE
    /\ Fault
    /\ UNCHANGED <<upstream, reaping, rows, claims, production, metadata, work,
                   outcome>>

\* The process dies and is started again; the rows are what is left of it.
Crash ==
    /\ Fault
    /\ ForgetPass
    /\ claims' = {}
    /\ mine' = {}
    /\ found' = {}
    /\ outcome' = "none"
    /\ UNCHANGED <<upstream, rows, reaps>>

\* A mutant of the operator below: the state of the row is not asked for.
Reapable_AnyState == In("fetching") \cup In("stored")

\* The claims that may be older than sync.claim_reap_after: any.  Nothing else
\* is looked at, and the FETCHes of one batch may take longer than that.
Reapable == In("fetching")

\* What the running pass has claimed and is not through with.
AtWork == queue \cup UNION {batch[w] : w \in Workers}

\* A mutant of the action below: clears claimed_at and leaves body_state.
ReapStaleClaims_LeavesState ==
    /\ Reapable # {}
    /\ UNCHANGED <<upstream, reaping, rows, claims, production, metadata,
                   cancelled, work, outcome, faults>>

\* Returns old claims to the queue.  A claim grows old under its own pass only
\* so often: that takes sync.claim_reap_after, and the run has its deadline.
ReapStaleClaims ==
    /\ \E S \in SUBSET Reapable :
          /\ S # {}
          /\ bodyState' = [m \in UIDs |-> IF m \in S THEN "pending"
                                                     ELSE bodyState[m]]
          /\ reaped' = reaped \cup (S \cap AtWork)
          /\ IF running /\ S \cap mine # {}
             THEN reaps < MaxReaps /\ reaps' = reaps + 1
             ELSE UNCHANGED reaps
    /\ UNCHANGED <<upstream, attempts, claims, production, metadata, cancelled,
                   work, outcome, faults>>

-----------------------------------------------------------------------------
(* Specification *)

MetadataStep ==
    \/ \E m \in UIDs : Discover(m) \/ DeleteRow(m)
    \/ CloseMetadataDone

ProducerStep ==
    \/ ClaimPendingBodies
    \/ SweepFindsNothing
    \/ WaitForMetadata
    \/ \E w \in Workers : SendBatch(w)
    \/ ProducerFails

WorkerStep(w) ==
    \/ OpenMailbox(w)
    \/ OpenFails(w)
    \/ Attempt(w)
    \/ AttemptFails(w)
    \/ \E m \in UIDs : ReceiveBody(w, m) \/ ReceiveTooLarge(w, m)
                          \/ ReleaseNext(w, m)
    \/ AttachBody(w)
    \/ AttachFails(w)
    \/ BodyNotStored(w)
    \/ FetchEnds(w)
    \/ FetchFails(w)
    \/ SettleClaim(w)
    \/ SettleFails(w)
    \/ ReleaseEnds(w)
    \/ ChannelClosed(w)

Init ==
    /\ upstream = UIDs
    /\ bodyState \in [UIDs -> {"absent", "pending"}]
    /\ attempts = [m \in UIDs |-> 0]
    /\ claims = {}
    /\ producer = "off"
    /\ queue = {}
    /\ finalSweep = FALSE
    /\ producerErr = FALSE
    /\ mine = {}
    /\ metadataDone = FALSE
    /\ found = {}
    /\ cancelled = FALSE
    /\ worker = [w \in Workers |-> "off"]
    /\ batch = [w \in Workers |-> {}]
    /\ left = [w \in Workers |-> {}]
    /\ hand = [w \in Workers |-> NoClaim]
    /\ tries = [w \in Workers |-> 0]
    /\ workerErr = {}
    /\ outcome = "none"
    /\ reaped = {}
    /\ reaps = 0
    /\ faults = 0

Next ==
    \/ StartPass
    \/ MetadataStep
    \/ ProducerStep
    \/ \E w \in Workers : WorkerStep(w)
    \/ EndPass
    \/ Deadline
    \/ Cancel
    \/ Crash
    \/ ReapStaleClaims
    \/ \E m \in Vanishing : Vanish(m)

Spec == Init /\ [][Next]_vars

\* The sync loop starts passes for ever, goroutines run, the metadata pass
\* ends, a run that nobody works for reaches its deadline, and the maintenance
\* loop reaps what is old enough.  Faults are not fair, and are bounded.
FairSpec ==
    /\ Spec
    /\ WF_vars(StartPass)
    /\ WF_vars(CloseMetadataDone)
    /\ WF_vars(ProducerStep)
    /\ \A w \in Workers : WF_vars(WorkerStep(w))
    /\ WF_vars(EndPass)
    /\ WF_vars(Deadline)
    /\ WF_vars(ReapStaleClaims)

-----------------------------------------------------------------------------
(* Properties *)

\* Type invariant.
TypeOK ==
    /\ upstream \in SUBSET UIDs
    /\ bodyState \in [UIDs -> BodyStates]
    /\ attempts \in [UIDs -> Nat]
    /\ claims \in SUBSET UIDs
    /\ producer \in ProducerPhases
    /\ queue \in SUBSET UIDs
    /\ finalSweep \in BOOLEAN
    /\ producerErr \in BOOLEAN
    /\ mine \in SUBSET UIDs
    /\ metadataDone \in BOOLEAN
    /\ found \in SUBSET UIDs
    /\ cancelled \in BOOLEAN
    /\ worker \in [Workers -> WorkerPhases]
    /\ batch \in [Workers -> SUBSET UIDs]
    /\ left \in [Workers -> SUBSET UIDs]
    /\ hand \in [Workers -> UIDs \cup {NoClaim}]
    /\ tries \in [Workers -> Nat]
    /\ workerErr \in SUBSET Workers
    /\ outcome \in Outcomes
    /\ reaped \in SUBSET UIDs
    /\ reaps \in 0..MaxReaps
    /\ faults \in 0..MaxFaults

\* "Claiming marks rows so that parallel workers, and parallel replicas, never
\* fetch the same message twice" (ClaimPendingBodies).
ClaimedOnce ==
    \A w, v \in Workers : hand[w] # NoClaim /\ hand[v] = hand[w] => v = w

\* A claim a worker has taken is held by that worker alone, and its row is
\* still the one that was claimed, unless the reaper took the claim for old
\* while the pass was at it: neither the retries of Session.Do, nor the producer
\* claiming released messages again, nor the reaping of any other message puts
\* a message in two hands.  AttachBody, MarkBodyFailed and MarkBodyTooLarge do
\* not look at the state they overwrite and rely on this.
OneHolder ==
    \A w \in Workers : hand[w] \notin {NoClaim} \cup reaped =>
        /\ \A v \in Workers : hand[v] = hand[w] => v = w
        /\ bodyState[hand[w]] \in {"fetching", "gone"}

\* What is stored, parked or given up stays so until the message goes.  The
\* exception lasts no longer than the pass: a claim reaped under it may leave a
\* second worker with the message, whose failure overwrites what the first did.
SettledIsFinal ==
    [][\A m \in UIDs \ reaped :
          bodyState[m] \in {"stored", "failed", "skipped_too_large"} =>
              bodyState'[m] \in {bodyState[m], "gone"}]_vars

\* What a body state is to the queue.
Phase(s) ==
    CASE s = "pending" -> "waiting"
      [] s = "fetching" -> "leased"
      [] s \in {"stored", "failed", "skipped_too_large"} -> "done"
      [] OTHER -> s

Queue == INSTANCE WorkQueue WITH
    Items <- UIDs, Nobody <- NoClaim,
    state <- [m \in UIDs |-> Phase(bodyState[m])], holder <- hand,
    expired <- reaped

\* The body pass implements the queue of WorkQueue: claims, batches, retries,
\* cancellation and crashes amount to leases that one worker at a time works
\* on, ends or leaves behind.  A claim that is reaped under its worker is a
\* lease that expires: it spoils what the queue promises for that message, until
\* the pass is over, and for no other.
ImplementsQueue == Queue!Spec

\* Whether a row is there, as the metadata pass sees it.
RowPhase(s) == IF s \in {"absent", "gone"} THEN s ELSE "listed"

FeedPhase == [m \in UIDs |-> RowPhase(bodyState[m])]

Feed == INSTANCE RowFeed WITH phase <- FeedPhase

\* The body pass leaves the coming and going of rows to the metadata pass, and
\* takes no more for granted of it than RowFeed, which MetadataPass implements:
\* a body that arrives, fails or is parked after its row was deleted does not
\* bring the row back, not even when its claim was reaped and taken again.
WithinFeed == Feed!Spec

\* A message is parked as too large if it is, or if PlanBatches put it in one
\* batch with a message that is and does not go alone: fetchBatch parks every
\* claim left in the batch.
ParkedBesideLarge ==
    [][\A m \in UIDs \ Large :
          bodyState[m] # bodyState'[m] /\ bodyState'[m] = "skipped_too_large" =>
              \E w \in Workers :
                  m \in batch[w] /\ batch[w] \cap (Large \ Solo) # {}]_vars

\* A pass that returns without error has claimed every row the metadata pass
\* added beside it, "so a message committed moments before that signal is not
\* missed" (bodyPass).
NothingMissed == outcome = "ok" => found \subseteq mine \cup In("gone")

\* A pass ends, whatever its workers run into, as long as it keeps one worker:
\* one that fails goes on receiving, so that the producer is not left with a
\* batch in its hands.
PassEnds == running ~> ~running \/ Deserted

\* Every row gets an end: its body is stored, or it is parked.  Crashes leave
\* rows behind in "fetching"; the reaper returns them.
Settles ==
    \A m \in UIDs :
        bodyState[m] \in {"pending", "fetching"} ~>
            bodyState[m] \in {"stored", "failed", "skipped_too_large", "gone"}

\* "Drain whatever is left so the producer is never blocked writing to a
\* channel nobody is reading" (bodyPass).
NeverDeserted == ~cancelled => ~Deserted

=============================================================================
