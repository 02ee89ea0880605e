--------------------------- MODULE MutationQueue ---------------------------
(***************************************************************************)
(* Flag changes made by IMAP clients of the mirror: STORE writes the row   *)
(* and queues the change, the replay loop of every replica claims queued   *)
(* changes and pushes them to the upstream server, the maintenance loop    *)
(* releases claims that have grown old, and the metadata pass brings the   *)
(* server's flags back.                                                    *)
(*                                                                         *)
(* A change is a message and the flags it is to have; the idempotency key  *)
(* of its row is a digest of just that, so a change has one row at most    *)
(* and rows are never removed.  Time is not modelled: a backoff may end    *)
(* and a claim may be old at any moment.                                   *)
(***************************************************************************)
EXTENDS Integers, FiniteSets

CONSTANTS
    Messages,
    FlagSets,       \* the flags a message may have
    Unpushed,       \* messages without an upstream UID
    Sessions,       \* IMAP sessions of the mirror's clients
    Replayers,      \* processes with a replay loop
    BatchLimit,     \* the limit given to ClaimDueMutations
    MaxAttempts,    \* maxMutationAttempts
    CondStore,      \* the metadata pass asks for changed flags only
    MaxStores,      \* bound on the changes clients make
    MaxFaults,      \* bound on the failures of one behaviour
    None,           \* no change
    NoFlags         \* no flags

Changes == Messages \X FlagSets

ASSUME ConstantsAssumption ==
    /\ IsFiniteSet(Messages)
    /\ IsFiniteSet(FlagSets)
    /\ Unpushed \subseteq Messages
    /\ BatchLimit \in Nat \ {0}
    /\ MaxAttempts \in Nat \ {0}
    /\ CondStore \in BOOLEAN
    /\ MaxStores \in Nat
    /\ MaxFaults \in Nat
    /\ None \notin Changes
    /\ NoFlags \notin FlagSets

VARIABLES
    flags,          \* mailbox_messages.flags
    upstream,       \* the flags on the server
    unseen,         \* messages whose flags changed there since the stored sequence
    received,       \* flags a metadata pass was told of and has not applied
    status,         \* pending_mutations.status; "none" without a row
    attempts,       \* pending_mutations.attempts
    created,        \* the row's place in the order of created_at
    due,            \* next_attempt_at is NULL or past
    storing,        \* the change a session has written and not queued yet
    replayer,       \* where each replay loop is
    batch,          \* the claimed changes it has not come to yet
    hand,           \* the change it is at
    active,         \* the account is not disabled, paused or in auth_failed
    last,           \* the flags of the last change queued for a message
    overlapped,     \* messages changed while another change was not settled
                    \* or was still with a replayer
    pushed,         \* the flags a replay last set on the server
    torn,           \* messages with a STORE that was not queued, or was while
                    \* a replayer already had the same change
    stores,         \* changes made so far
    faults          \* failures so far

server == <<upstream, unseen>>
mirror == <<flags, received, storing, stores>>
queue == <<status, attempts, created, due>>
replay == <<replayer, batch, hand>>
history == <<last, overlapped, pushed, torn>>
vars == <<server, mirror, queue, replay, active, history, faults>>

Statuses == {"none", "pending", "in_flight", "succeeded", "failed"}
ReplayerPhases == {"idle", "claim", "apply", "applied", "refused"}

Fault == faults < MaxFaults /\ faults' = faults + 1

Unsettled(m) == {c \in Changes : /\ c[1] = m
                                 /\ status[c] \in {"pending", "in_flight", "failed"}}

Claimed(c) == \E r \in Replayers : c \in batch[r] \/ hand[r] = c

\* An earlier change of the message may still be pushed: it waits for that, or
\* a replayer has it, released and settled by another replayer or not.
Busy(m) == Unsettled(m) # {} \/ \E c \in Changes : c[1] = m /\ Claimed(c)

-----------------------------------------------------------------------------
(* STORE *)

\* SetFlags: the mirror's row has the new flags at once.
SetFlags(s, c) ==
    /\ storing[s] = None
    /\ stores < MaxStores
    /\ stores' = stores + 1
    /\ flags' = [flags EXCEPT ![c[1]] = c[2]]
    /\ storing' = [storing EXCEPT ![s] = c]
    /\ UNCHANGED <<server, received, queue, replay, active, history, faults>>

\* EnqueueMutation: a change with a row already keeps its place in the order.
EnqueueMutation(s) ==
    /\ storing[s] # None
    /\ LET c == storing[s] IN
          /\ status' = [status EXCEPT ![c] = "pending"]
          /\ attempts' = [attempts EXCEPT ![c] = 0]
          /\ due' = [due EXCEPT ![c] = TRUE]
          /\ created' = [created EXCEPT ![c] =
                            IF status[c] = "none"
                            THEN Cardinality({d \in Changes : status[d] # "none"}) + 1
                            ELSE @]
          /\ last' = [last EXCEPT ![c[1]] = c[2]]
          /\ overlapped' = IF Busy(c[1]) THEN overlapped \cup {c[1]}
                                         ELSE overlapped
          /\ torn' = IF Claimed(c) THEN torn \cup {c[1]} ELSE torn
    /\ storing' = [storing EXCEPT ![s] = None]
    /\ UNCHANGED <<server, flags, received, stores, replay, active, pushed,
                   faults>>

\* Queueing fails, or the process dies: the client is told, or cut off.
EnqueueFails(s) ==
    /\ storing[s] # None
    /\ Fault
    /\ torn' = torn \cup {storing[s][1]}
    /\ storing' = [storing EXCEPT ![s] = None]
    /\ UNCHANGED <<server, flags, received, stores, queue, replay, active,
                   last, overlapped, pushed>>

-----------------------------------------------------------------------------
(* The replay loop *)

\* ReplayMutations looks whether anything waits and the account may be used.
StartReplay(r) ==
    /\ replayer[r] = "idle"
    /\ \E c \in Changes : status[c] \in {"pending", "in_flight"}
    /\ active
    /\ replayer' = [replayer EXCEPT ![r] = "claim"]
    /\ UNCHANGED <<server, mirror, queue, batch, hand, active, history, faults>>

\* What ClaimDueMutations may take, oldest row first.
Due == {c \in Changes : status[c] \in {"pending", "failed"} /\ due[c]}
Oldest(S) ==
    {c \in S : Cardinality({d \in S : created[d] < created[c]}) < BatchLimit}

\* The loop ends when nothing is due.
ClaimDueMutations(r) ==
    /\ replayer[r] = "claim"
    /\ LET claimed == Oldest(Due) IN
          /\ status' = [c \in Changes |-> IF c \in claimed THEN "in_flight"
                                                           ELSE status[c]]
          /\ attempts' = [c \in Changes |-> IF c \in claimed THEN attempts[c] + 1
                                                             ELSE attempts[c]]
          /\ batch' = [batch EXCEPT ![r] = claimed]
          /\ replayer' = [replayer EXCEPT ![r] = IF claimed = {} THEN "idle"
                                                                 ELSE "apply"]
    /\ UNCHANGED <<server, mirror, created, due, hand, active, history, faults>>

\* The effect of STORE on the server, which counts it as a change.
Push(c) ==
    /\ upstream' = [upstream EXCEPT ![c[1]] = c[2]]
    /\ unseen' = unseen \cup {c[1]}
    /\ pushed' = [pushed EXCEPT ![c[1]] = c[2]]

\* applyMutation of a claimed change, in whatever order RETURNING gave them.
\* A message the server does not have needs nothing.
ApplyMutation(r, c) ==
    /\ replayer[r] = "apply"
    /\ c \in batch[r]
    /\ replayer' = [replayer EXCEPT ![r] = "applied"]
    /\ batch' = [batch EXCEPT ![r] = @ \ {c}]
    /\ hand' = [hand EXCEPT ![r] = c]
    /\ IF c[1] \in Unpushed THEN UNCHANGED <<upstream, unseen, pushed>>
                            ELSE Push(c)
    /\ UNCHANGED <<mirror, queue, active, last, overlapped, torn,
                   faults>>

\* It returns an error; the server may have done it all the same.
ApplyFails(r, c) ==
    /\ replayer[r] = "apply"
    /\ c \in batch[r]
    /\ c[1] \notin Unpushed
    /\ Fault
    /\ replayer' = [replayer EXCEPT ![r] = "refused"]
    /\ batch' = [batch EXCEPT ![r] = @ \ {c}]
    /\ hand' = [hand EXCEPT ![r] = c]
    /\ Push(c) \/ UNCHANGED <<upstream, unseen, pushed>>
    /\ UNCHANGED <<mirror, queue, active, last, overlapped, torn>>

\* A batch that is through is followed by another claim.
NextMutation(r) ==
    /\ hand' = [hand EXCEPT ![r] = None]
    /\ replayer' = [replayer EXCEPT ![r] = IF batch[r] = {} THEN "claim"
                                                            ELSE "apply"]
    /\ UNCHANGED batch

\* The loop returns: what it had claimed stays in flight.
StopReplay(r) ==
    /\ hand' = [hand EXCEPT ![r] = None]
    /\ replayer' = [replayer EXCEPT ![r] = "idle"]
    /\ batch' = [batch EXCEPT ![r] = {}]

\* The row is marked whatever its status is by now.
MutationSucceeded(r) ==
    /\ replayer[r] = "applied"
    /\ status' = [status EXCEPT ![hand[r]] = "succeeded"]
    /\ NextMutation(r)
    /\ UNCHANGED <<server, mirror, attempts, created, due, active, history,
                   faults>>

\* A mutant of the action below: the last attempt closes the change as done.
MutationFailed_Closes(r) ==
    /\ replayer[r] = "refused"
    /\ status' = [status EXCEPT ![hand[r]] =
                     IF attempts[hand[r]] >= MaxAttempts THEN "succeeded"
                                                         ELSE "pending"]
    /\ due' = [due EXCEPT ![hand[r]] = FALSE]
    /\ NextMutation(r) \/ StopReplay(r)
    /\ UNCHANGED <<server, mirror, attempts, created, active, history, faults>>

\* Rescheduled, or parked after MaxAttempts; an authentication failure ends
\* the loop.
MutationFailed(r) ==
    /\ replayer[r] = "refused"
    /\ status' = [status EXCEPT ![hand[r]] =
                     IF attempts[hand[r]] >= MaxAttempts THEN "failed"
                                                         ELSE "pending"]
    /\ due' = [due EXCEPT ![hand[r]] = FALSE]
    /\ NextMutation(r) \/ StopReplay(r)
    /\ UNCHANGED <<server, mirror, attempts, created, active, history, faults>>

\* A statement fails, the context is done or the process dies.
ReplayInterrupted(r) ==
    /\ replayer[r] # "idle"
    /\ Fault
    /\ StopReplay(r)
    /\ UNCHANGED <<server, mirror, queue, active, history>>

\* The time of a rescheduled change comes.
BackoffEnds(c) ==
    /\ ~due[c]
    /\ due' = [due EXCEPT ![c] = TRUE]
    /\ UNCHANGED <<server, mirror, status, attempts, created, replay, active,
                   history, faults>>

\* A mutant of the action below: only looks at rows that wait.
ReleaseStaleMutations_Pending(c) ==
    /\ status[c] = "pending"
    /\ UNCHANGED vars

\* The maintenance loop returns a claim that is too old.  It looks at the age
\* alone: a replayer may still have the change, in a batch that took that long,
\* which counts as a fault.
ReleaseStaleMutations(c) ==
    /\ status[c] = "in_flight"
    /\ IF Claimed(c) THEN Fault ELSE UNCHANGED faults
    /\ status' = [status EXCEPT ![c] = "pending"]
    /\ UNCHANGED <<server, mirror, attempts, created, due, replay, active,
                   history>>

-----------------------------------------------------------------------------
(* The account, the server's other clients, and the metadata pass *)

\* The account is paused, disabled or fails to authenticate.
Deactivate ==
    /\ active
    /\ Fault
    /\ active' = FALSE
    /\ UNCHANGED <<server, mirror, queue, replay, history>>

Activate ==
    /\ ~active
    /\ active' = TRUE
    /\ UNCHANGED <<server, mirror, queue, replay, history, faults>>

\* Another client of the server changes the flags.
ChangeUpstream(m, f) ==
    /\ Fault
    /\ m \notin Unpushed
    /\ upstream' = [upstream EXCEPT ![m] = f]
    /\ unseen' = unseen \cup {m}
    /\ UNCHANGED <<mirror, queue, replay, active, history>>

\* A metadata pass is told the flags of a message: with CONDSTORE of those
\* that changed, otherwise of all.
ReceiveFlags(m) ==
    /\ active
    /\ received[m] = NoFlags
    /\ m \notin Unpushed
    /\ CondStore => m \in unseen
    /\ received' = [received EXCEPT ![m] = upstream[m]]
    /\ unseen' = unseen \ {m}
    /\ UNCHANGED <<upstream, flags, storing, stores, queue, replay, active,
                   history, faults>>

\* UpdateFlags: the row is overwritten, whatever a client has stored in it.
UpdateFlags(m) ==
    /\ received[m] # NoFlags
    /\ flags' = [flags EXCEPT ![m] = received[m]]
    /\ received' = [received EXCEPT ![m] = NoFlags]
    /\ UNCHANGED <<server, storing, stores, queue, replay, active, history,
                   faults>>

\* A mutant of the action below: the sequence was stored already.
PassInterrupted_Stored(m) ==
    /\ received[m] # NoFlags
    /\ Fault
    /\ received' = [received EXCEPT ![m] = NoFlags]
    /\ UNCHANGED <<server, flags, storing, stores, queue, replay, active,
                   history>>

\* The pass ends before that: it has not stored the sequence and is told again.
PassInterrupted(m) ==
    /\ received[m] # NoFlags
    /\ Fault
    /\ received' = [received EXCEPT ![m] = NoFlags]
    /\ unseen' = unseen \cup {m}
    /\ UNCHANGED <<upstream, flags, storing, stores, queue, replay, active,
                   history>>

-----------------------------------------------------------------------------
(* Specification *)

SessionStep(s) == EnqueueMutation(s) \/ EnqueueFails(s)

ReplayStep(r) ==
    \/ StartReplay(r)
    \/ ClaimDueMutations(r)
    \/ \E c \in Changes : ApplyMutation(r, c) \/ ApplyFails(r, c)
    \/ MutationSucceeded(r)
    \/ MutationFailed(r)
    \/ ReplayInterrupted(r)

SyncStep(m) == ReceiveFlags(m) \/ UpdateFlags(m) \/ PassInterrupted(m)

Init ==
    /\ flags \in [Messages -> FlagSets]
    /\ upstream = flags
    /\ unseen = {}
    /\ received = [m \in Messages |-> NoFlags]
    /\ status = [c \in Changes |-> "none"]
    /\ attempts = [c \in Changes |-> 0]
    /\ created = [c \in Changes |-> 0]
    /\ due = [c \in Changes |-> TRUE]
    /\ storing = [s \in Sessions |-> None]
    /\ replayer = [r \in Replayers |-> "idle"]
    /\ batch = [r \in Replayers |-> {}]
    /\ hand = [r \in Replayers |-> None]
    /\ active = TRUE
    /\ last = [m \in Messages |-> NoFlags]
    /\ overlapped = {}
    /\ pushed = [m \in Messages |-> NoFlags]
    /\ torn = {}
    /\ stores = 0
    /\ faults = 0

Next ==
    \/ \E s \in Sessions : SessionStep(s) \/ \E c \in Changes : SetFlags(s, c)
    \/ \E r \in Replayers : ReplayStep(r)
    \/ \E c \in Changes : BackoffEnds(c) \/ ReleaseStaleMutations(c)
    \/ \E m \in Messages : SyncStep(m) \/ \E f \in FlagSets : ChangeUpstream(m, f)
    \/ Deactivate
    \/ Activate

Spec == Init /\ [][Next]_vars

\* A STORE that has begun ends, replay and maintenance loops tick, backoffs
\* end, the account is put back in service, and passes run.  Clients need not
\* store anything, and faults are bounded.
FairSpec ==
    /\ Spec
    /\ \A s \in Sessions : WF_vars(SessionStep(s))
    /\ \A r \in Replayers : WF_vars(ReplayStep(r))
    /\ \A c \in Changes : WF_vars(BackoffEnds(c)) /\ WF_vars(ReleaseStaleMutations(c))
    /\ \A m \in Messages : WF_vars(SyncStep(m))
    /\ WF_vars(Activate)

-----------------------------------------------------------------------------
(* Properties *)

\* Type invariant.
TypeOK ==
    /\ flags \in [Messages -> FlagSets]
    /\ upstream \in [Messages -> FlagSets]
    /\ unseen \in SUBSET Messages
    /\ received \in [Messages -> FlagSets \cup {NoFlags}]
    /\ status \in [Changes -> Statuses]
    /\ attempts \in [Changes -> Nat]
    /\ created \in [Changes -> Nat]
    /\ due \in [Changes -> BOOLEAN]
    /\ storing \in [Sessions -> Changes \cup {None}]
    /\ replayer \in [Replayers -> ReplayerPhases]
    /\ batch \in [Replayers -> SUBSET Changes]
    /\ hand \in [Replayers -> Changes \cup {None}]
    /\ \A r \in Replayers : replayer[r] \in {"applied", "refused"} <=> hand[r] # None
    /\ active \in BOOLEAN
    /\ last \in [Messages -> FlagSets \cup {NoFlags}]
    /\ overlapped \in SUBSET Messages
    /\ pushed \in [Messages -> FlagSets \cup {NoFlags}]
    /\ torn \in SUBSET Messages
    /\ stores \in 0..MaxStores
    /\ faults \in 0..MaxFaults

\* Every change of the message has been replayed, and the server was last
\* given the flags of the newest.
NewestPushed(m) ==
    Unsettled(m) = {} /\ last[m] # NoFlags /\ m \notin Unpushed
        => pushed[m] = last[m]

\* "A newer change to the same message supersedes an older pending one: flags
\* are last-writer-wins" (EnqueueMutation).
LastChangeWins == \A m \in Messages : NewestPushed(m)

\* What the queue does keep: as long as a message is changed only when its
\* earlier changes are settled and no replayer has one of them any more, the
\* server ends with the newest one, through retries, answers lost after the
\* server acted, crashes between the push and its record, and a claim released
\* by its age while a slow replayer has it, so that two replicas push it.  The
\* rest is excepted because the code gives it up: such a slow replayer pushes
\* its change over a newer one that was made, replayed and settled meanwhile.
SoleChangeWins == \A m \in Messages \ overlapped : NewestPushed(m)

\* The queue drains: a change that waits is replayed or parked in the end,
\* whichever replica had claimed it and died.
Drains ==
    \A c \in Changes : status[c] \in {"pending", "in_flight"} ~>
                           status[c] \in {"succeeded", "failed"}

\* When everyone stops, the mirror and the server come to have the same flags
\* for every message both have, although the metadata pass overwrites flags
\* whose change is still queued.  The exceptions, with CONDSTORE, are a STORE cut
\* off before it was queued, one queued while a replayer was about to mark the
\* same change as done, and a change that was given up.
Agree ==
    \A m \in Messages \ Unpushed :
        <>[](\/ flags[m] = upstream[m]
             \/ CondStore /\ m \in torn
             \/ CondStore /\ \E c \in Unsettled(m) : status[c] = "failed")

=============================================================================
