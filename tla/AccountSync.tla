---------------------------- MODULE AccountSync ----------------------------
(***************************************************************************)
(* SyncAccount for one account: the advisory lock on a database session of *)
(* its own, the run record, the heartbeat on the lock's session, the loop  *)
(* over the mailboxes with its reconnections, the outcome that is written  *)
(* to the record and to the account, and the processes that start it all   *)
(* from the sync loop or from the web interface.                           *)
(*                                                                         *)
(* A runner is a goroutine that may call SyncAccount.  Time is not         *)
(* modelled: a ticker or a deadline may fire at any moment.  The account's *)
(* mailboxes are synced by MetadataPass and BodyPass; here a mailbox is    *)
(* synced, fails or hangs.                                                 *)
(***************************************************************************)
EXTENDS Integers

CONSTANTS
    Processes,
    Runners,
    ProcessOf,      \* the process of each runner
    Mailboxes,
    Unselectable,   \* mailboxes that cannot be selected
    MaxMisses,      \* heartbeats in a row that may fail
    MaxRequests,    \* bound on the calls of SyncAccount
    MaxFaults,      \* bound on failures and on what users and operators do
    NoRunner        \* nobody has the lock

ASSUME ConstantsAssumption ==
    /\ ProcessOf \in [Runners -> Processes]
    /\ Unselectable \subseteq Mailboxes
    /\ MaxMisses \in Nat \ {0}
    /\ MaxRequests \in Nat
    /\ MaxFaults \in Nat
    /\ NoRunner \notin Runners

VARIABLES
    proc,           \* whether a process is up, stopping or down
    job,            \* what each runner is doing
    lock,           \* the runner whose session holds the advisory lock
    kept,           \* processes with a pooled connection that has the lock
    session,        \* the session a runner took the lock on
    beat,           \* the heartbeat goroutine of a runner
    misses,         \* heartbeats that have failed in a row
    runs,           \* status of the sync_runs, by id; "none" without a record
    authState,      \* mail_accounts.auth_state
    paused,         \* the account is paused or disabled
    mirrored,       \* mailboxes with a row
    boxes,          \* upstream: the mailboxes that exist
    valid,          \* upstream: the stored credentials are accepted
    absent,         \* mailboxes that have been missing upstream while mirrored
    strayed,        \* the session of a lock has died under its run
    orphaned,       \* runs that ended without recording it
    requests,       \* calls of SyncAccount so far
    faults          \* how many of those so far

account == <<authState, paused>>
heart == <<beat, misses>>
upstream == <<boxes, valid>>
history == <<absent, strayed, orphaned>>
vars == <<proc, job, lock, kept, session, heart, runs, account, mirrored, upstream,
          history, requests, faults>>

-----------------------------------------------------------------------------
(* Values *)

\* Where SyncAccount is.
Phases == {"idle", "requested", "locked", "read", "connect", "list", "prune",
           "sync", "mailbox", "stuck", "reconnect", "finish", "record", "stop",
           "unlock"}

\* The error of a run: that of the credentials being rejected, another one of
\* the upstream client, or one without a severity (of a statement, say).
Errors == {"nil", "auth", "upstream", "local"}

Job == [phase : Phases, cancelled : BOOLEAN, todo : SUBSET Mailboxes,
        synced : BOOLEAN, failed : BOOLEAN, err : Errors, id : 0..MaxRequests]

\* No run: the context of the last one is cancelled.
NoJob == [phase |-> "idle", cancelled |-> TRUE, todo |-> {}, synced |-> FALSE,
          failed |-> FALSE, err |-> "nil", id |-> 0]

Statuses == {"none", "running", "succeeded", "failed"}
RunIDs == 1..MaxRequests

In(r, phase) == job[r].phase = phase
Working(r) == job[r].phase \notin {"idle", "requested"}

\* Account.Active
Active == ~paused /\ authState # "auth_failed"

Go(r, phase) == job' = [job EXCEPT ![r].phase = phase]
Fail(r, error) ==
    job' = [job EXCEPT ![r] = [job[r] EXCEPT !.phase = "finish", !.err = error]]

Fault == faults < MaxFaults /\ faults' = faults + 1

\* A call fails: the run's context is done, or by a fault.
CallFails(r) == (job[r].cancelled /\ UNCHANGED faults) \/ Fault

\* The session of a runner ends, and the lock with it.
Unlocked(r) == IF lock = r THEN NoRunner ELSE lock

-----------------------------------------------------------------------------
(* SyncAccount is called *)

\* A slot is free when the heartbeat of its last run has ended.  The number of
\* the call is the id its record will have.
Call(r) ==
    /\ In(r, "idle")
    /\ beat[r] = "off"
    /\ proc[ProcessOf[r]] = "up"
    /\ requests < MaxRequests
    /\ requests' = requests + 1
    /\ job' = [job EXCEPT ![r] = [NoJob EXCEPT !.phase = "requested",
                                               !.cancelled = FALSE,
                                               !.id = requests + 1]]
    /\ UNCHANGED <<proc, lock, kept, session, heart, runs, account, mirrored,
                   upstream, history, faults>>

\* syncAll of the sync loop: only accounts that may be synced.
SyncAll(r) == Active /\ Call(r)

\* handleSyncAccount of the web interface does not look.
StartSync(r) == Call(r)

\* A mutant of the action below: does not look whether the lock was acquired.
TryLockAccount_Unchecked(r) ==
    /\ In(r, "requested")
    /\ lock' = r
    /\ session' = [session EXCEPT ![r] = "alive"]
    /\ Go(r, "locked")
    /\ UNCHANGED <<proc, kept, heart, runs, account, mirrored, upstream,
                   history, requests, faults>>

\* A connection that already has the lock gets it once more.
TryLockAccount(r) ==
    /\ In(r, "requested")
    /\ ~job[r].cancelled
    /\ lock = NoRunner
    /\ kept \subseteq {ProcessOf[r]}
    /\ lock' = r
    /\ session' = [session EXCEPT ![r] = "alive"]
    /\ Go(r, "locked")
    /\ UNCHANGED <<proc, kept, heart, runs, account, mirrored, upstream,
                   history, requests, faults>>

\* Another connection has the lock, or the database cannot be asked.
SkipSync(r) ==
    /\ In(r, "requested")
    /\ ((lock # NoRunner \/ kept # {}) /\ UNCHANGED faults) \/ CallFails(r)
    /\ job' = [job EXCEPT ![r] = NoJob]
    /\ UNCHANGED <<proc, lock, kept, session, heart, runs, account, mirrored,
                   upstream, history, requests>>

\* The record is opened and the heartbeat started.
StartSyncRun(r) ==
    /\ In(r, "locked")
    /\ runs' = [runs EXCEPT ![job[r].id] = "running"]
    /\ Go(r, "read")
    /\ beat' = [beat EXCEPT ![r] = "wait"]
    /\ misses' = [misses EXCEPT ![r] = 0]
    /\ UNCHANGED <<proc, lock, kept, session, account, mirrored, upstream,
                   history, requests, faults>>

\* A mutant of the action below: returns without the deferred release.
StartRunFails_Returns(r) ==
    /\ In(r, "locked")
    /\ CallFails(r)
    /\ job' = [job EXCEPT ![r] = NoJob]
    /\ UNCHANGED <<proc, lock, kept, session, heart, runs, account, mirrored,
                   upstream, history, requests>>

\* The record may be there all the same, with the answer lost: nobody closes it
\* before a process starts.
StartRunFails(r) ==
    /\ In(r, "locked")
    /\ CallFails(r)
    /\ Go(r, "unlock")
    /\ \/ UNCHANGED <<runs, orphaned>>
       \/ /\ runs' = [runs EXCEPT ![job[r].id] = "running"]
          /\ orphaned' = orphaned \cup {job[r].id}
    /\ UNCHANGED <<proc, lock, kept, session, heart, account, mirrored,
                   upstream, absent, strayed, requests>>

-----------------------------------------------------------------------------
(* syncAccountLocked *)

\* What every step up to the outcome leaves alone.
RunOnly == UNCHANGED <<proc, lock, kept, session, heart, runs, account,
                       upstream, strayed, orphaned, requests>>

\* A mutant of the action below: looks at the pause switch only.
GetAccount_PausedOnly(r) ==
    /\ In(r, "read")
    /\ IF ~paused THEN Go(r, "connect") ELSE Fail(r, "nil")
    /\ RunOnly
    /\ UNCHANGED <<mirrored, absent, faults>>

\* An account that must not be synced is left alone, without an error.
GetAccount(r) ==
    /\ In(r, "read")
    /\ IF Active THEN Go(r, "connect") ELSE Fail(r, "nil")
    /\ RunOnly
    /\ UNCHANGED <<mirrored, absent, faults>>

GetAccountFails(r) ==
    /\ In(r, "read")
    /\ CallFails(r)
    /\ Fail(r, "local")
    /\ RunOnly
    /\ UNCHANGED <<mirrored, absent>>

Connect(r) ==
    /\ In(r, "connect")
    /\ IF valid THEN Go(r, "list") ELSE Fail(r, "auth")
    /\ RunOnly
    /\ UNCHANGED <<mirrored, absent, faults>>

ListMailboxes(r) ==
    /\ In(r, "list")
    /\ job' = [job EXCEPT ![r] = [job[r] EXCEPT !.phase = "prune",
                                                !.todo = boxes]]
    /\ RunOnly
    /\ UNCHANGED <<mirrored, absent, faults>>

\* A mutant of the action below: a listing that breaks off is taken for whole.
UpstreamFails_Partial(r) ==
    /\ job[r].phase \in {"connect", "list"}
    /\ CallFails(r)
    /\ \E seen \in SUBSET boxes :
          job' = [job EXCEPT ![r] = [job[r] EXCEPT !.phase = "prune",
                                                   !.todo = seen]]
    /\ RunOnly
    /\ UNCHANGED <<mirrored, absent>>

\* Connecting or listing fails.
UpstreamFails(r) ==
    /\ job[r].phase \in {"connect", "list"}
    /\ CallFails(r)
    /\ Fail(r, "upstream")
    /\ RunOnly
    /\ UNCHANGED <<mirrored, absent>>

\* Rows of mailboxes that are not in the list go, with all their messages.
\* An empty list is a NULL to the statement, which then deletes nothing.  A
\* failure is only logged.
DeleteMailboxesExcept(r) ==
    /\ In(r, "prune")
    /\ \/ /\ mirrored' = IF job[r].todo = {} THEN mirrored
                                             ELSE mirrored \cap job[r].todo
          /\ UNCHANGED faults
       \/ CallFails(r) /\ UNCHANGED mirrored
    /\ absent' = absent \cap mirrored'
    /\ Go(r, "sync")
    /\ RunOnly

\* The next mailbox; syncMailbox begins with UpsertMailbox.
SyncMailbox(r, b) ==
    /\ In(r, "sync")
    /\ ~job[r].cancelled
    /\ b \in job[r].todo \ Unselectable
    /\ job' = [job EXCEPT ![r] = [job[r] EXCEPT !.phase = "mailbox",
                                                !.todo = @ \ {b}]]
    /\ mirrored' = mirrored \cup {b}
    /\ absent' = IF b \in mirrored THEN absent
                                    ELSE absent \cup ({b} \ boxes)
    /\ RunOnly
    /\ UNCHANGED faults

SkipMailbox(r, b) ==
    /\ In(r, "sync")
    /\ ~job[r].cancelled
    /\ b \in job[r].todo \cap Unselectable
    /\ job' = [job EXCEPT ![r].todo = @ \ {b}]
    /\ RunOnly
    /\ UNCHANGED <<mirrored, absent, faults>>

MailboxSynced(r) ==
    /\ In(r, "mailbox")
    /\ job' = [job EXCEPT ![r] = [job[r] EXCEPT !.phase = "sync",
                                                !.synced = TRUE]]
    /\ RunOnly
    /\ UNCHANGED <<mirrored, absent, faults>>

\* A mailbox fails; the connection is to be replaced.  The error is kept for
\* the case that it cannot be.
MailboxFails(r) ==
    /\ \/ In(r, "mailbox") /\ CallFails(r)
       \/ In(r, "stuck") /\ job[r].cancelled /\ UNCHANGED faults
    /\ \E error \in {"upstream", "local"} :
          job' = [job EXCEPT ![r] = [job[r] EXCEPT !.phase = "reconnect",
                                                   !.failed = TRUE,
                                                   !.err = error]]
    /\ RunOnly
    /\ UNCHANGED <<mirrored, absent>>

\* A connection of the mailbox's workers is refused for its credentials.
MailboxRejected(r) ==
    /\ In(r, "mailbox")
    /\ ~valid
    /\ Fail(r, "auth")
    /\ RunOnly
    /\ UNCHANGED <<mirrored, absent, faults>>

\* Nothing moves any more until the context is done.
Hang(r) ==
    /\ In(r, "mailbox")
    /\ Go(r, "stuck")
    /\ RunOnly
    /\ UNCHANGED <<mirrored, absent, faults>>

\* The replacement's error comes second, and its severity counts only if the
\* mailbox's error has none.
Reconnect(r) ==
    /\ In(r, "reconnect")
    /\ IF valid /\ ~job[r].cancelled
       THEN job' = [job EXCEPT ![r] = [job[r] EXCEPT !.phase = "sync",
                                                     !.err = "nil"]]
       ELSE Fail(r, IF ~valid /\ ~job[r].cancelled /\ job[r].err = "local"
                    THEN "auth" ELSE job[r].err)
    /\ RunOnly
    /\ UNCHANGED <<mirrored, absent, faults>>

ReconnectFails(r) ==
    /\ In(r, "reconnect")
    /\ Fault
    /\ Fail(r, job[r].err)
    /\ RunOnly
    /\ UNCHANGED <<mirrored, absent>>

RunCancelled(r) ==
    /\ In(r, "sync")
    /\ job[r].cancelled
    /\ job[r].todo # {}
    /\ Fail(r, "local")
    /\ RunOnly
    /\ UNCHANGED <<mirrored, absent, faults>>

\* A mutant of the action below: every run that gets here is a success.
MailboxesDone_Always(r) ==
    /\ In(r, "sync")
    /\ job[r].todo = {}
    /\ Fail(r, "nil")
    /\ RunOnly
    /\ UNCHANGED <<mirrored, absent, faults>>

\* Some mailboxes may have failed, but not all.
MailboxesDone(r) ==
    /\ In(r, "sync")
    /\ job[r].todo = {}
    /\ Fail(r, IF job[r].failed /\ ~job[r].synced THEN "upstream" ELSE "nil")
    /\ RunOnly
    /\ UNCHANGED <<mirrored, absent, faults>>

-----------------------------------------------------------------------------
(* The outcome, written with a context that outlives the run *)

\* "failed" stands for the statuses failed and cancelled.
FinishSyncRun(r) ==
    /\ In(r, "finish")
    /\ \/ /\ runs' = [runs EXCEPT ![job[r].id] =
                         IF job[r].err = "nil" THEN "succeeded" ELSE "failed"]
          /\ UNCHANGED <<orphaned, faults>>
       \/ /\ Fault
          /\ orphaned' = orphaned \cup {job[r].id}
          /\ UNCHANGED runs
    /\ Go(r, "record")
    /\ UNCHANGED <<proc, lock, kept, session, heart, account, mirrored,
                   upstream, absent, strayed, requests>>

\* Whatever auth_state was.
SetAccountSyncResult(r) ==
    /\ In(r, "record")
    /\ \/ /\ authState' = IF job[r].err = "auth" THEN "auth_failed" ELSE "ok"
          /\ UNCHANGED faults
       \/ Fault /\ UNCHANGED authState
    /\ Go(r, "stop")
    /\ UNCHANGED <<proc, lock, kept, session, heart, runs, paused, mirrored,
                   upstream, history, requests>>

\* The heartbeat is told to stop, which nobody waits for.
StopHeartbeat(r) ==
    /\ In(r, "stop")
    /\ job' = [job EXCEPT ![r] = [job[r] EXCEPT !.phase = "unlock",
                                                !.cancelled = TRUE]]
    /\ UNCHANGED <<proc, lock, kept, session, heart, runs, account, mirrored,
                   upstream, history, requests, faults>>

\* The connection goes back to its pool; where the unlock fails, it is closed.
\* A connection that had the lock twice still has it.
Release(r) ==
    /\ In(r, "unlock")
    /\ lock' = Unlocked(r)
    /\ session' = [session EXCEPT ![r] = "none"]
    /\ job' = [job EXCEPT ![r] = NoJob]
    /\ UNCHANGED <<proc, kept, heart, runs, account, mirrored, upstream,
                   history, requests, faults>>

\* The unlock finds the connection busy with a heartbeat and the pool finds it
\* idle again: it goes back with the lock.
ReleaseFails(r) ==
    /\ In(r, "unlock")
    /\ session[r] = "alive"
    /\ beat[r] = "due"
    /\ lock' = NoRunner
    /\ kept' = kept \cup {ProcessOf[r]}
    /\ session' = [session EXCEPT ![r] = "none"]
    /\ beat' = [beat EXCEPT ![r] = "wait"]
    /\ misses' = [misses EXCEPT ![r] = 0]
    /\ job' = [job EXCEPT ![r] = NoJob]
    /\ UNCHANGED <<proc, runs, account, mirrored, upstream, history, requests,
                   faults>>

\* The pool closes a connection that has reached its lifetime.
Recycle(p) ==
    /\ p \in kept
    /\ lock = NoRunner
    /\ kept' = kept \ {p}
    /\ UNCHANGED <<proc, job, lock, session, heart, runs, account, mirrored,
                   upstream, history, requests, faults>>

-----------------------------------------------------------------------------
(* The heartbeat goroutine *)

\* The goroutine is gone, and its count of failures with it.
Ended(r) ==
    /\ beat' = [beat EXCEPT ![r] = "off"]
    /\ misses' = [misses EXCEPT ![r] = 0]

\* select takes the ticker, even where the run has ended as well.
Tick(r) ==
    /\ beat[r] = "wait"
    /\ beat' = [beat EXCEPT ![r] = "due"]
    /\ UNCHANGED <<proc, job, lock, kept, session, misses, runs, account,
                   mirrored, upstream, history, requests, faults>>

\* A mutant of the action below: failures are not counted.
Heartbeat_NeverGivesUp(r) ==
    /\ beat[r] = "due"
    /\ session[r] # "none"
    /\ beat' = [beat EXCEPT ![r] = "wait"]
    /\ UNCHANGED <<proc, job, lock, kept, session, misses, runs, account,
                   mirrored, upstream, history, requests, faults>>

\* On the lock's session: when that is gone, so is the lock, and after
\* MaxMisses failures the run is cancelled.
Heartbeat(r) ==
    /\ beat[r] = "due"
    /\ session[r] # "none"
    /\ LET lost == session[r] = "dead"
           gone == lost /\ misses[r] + 1 >= MaxMisses IN
          /\ misses' = [misses EXCEPT ![r] = IF lost /\ ~gone THEN @ + 1 ELSE 0]
          /\ beat' = [beat EXCEPT ![r] = IF gone THEN "off" ELSE "wait"]
          /\ job' = [job EXCEPT ![r].cancelled = @ \/ gone]
    /\ UNCHANGED <<proc, lock, kept, session, runs, account, mirrored,
                   upstream, history, requests, faults>>

HeartbeatEnds(r) ==
    /\ beat[r] = "wait"
    /\ job[r].cancelled
    /\ Ended(r)
    /\ UNCHANGED <<proc, job, lock, kept, session, runs, account, mirrored,
                   upstream, history, requests, faults>>

-----------------------------------------------------------------------------
(* Processes *)

\* A process is gone with its goroutines and its database sessions.
Die(p) ==
    LET dead == {r \in Runners : ProcessOf[r] = p} IN
    /\ proc' = [proc EXCEPT ![p] = "down"]
    /\ job' = [r \in Runners |-> IF r \in dead THEN NoJob ELSE job[r]]
    /\ lock' = IF lock \in dead THEN NoRunner ELSE lock
    /\ kept' = kept \ {p}
    /\ session' = [r \in Runners |-> IF r \in dead THEN "none" ELSE session[r]]
    /\ beat' = [r \in Runners |-> IF r \in dead THEN "off" ELSE beat[r]]
    /\ misses' = [r \in Runners |-> IF r \in dead THEN 0 ELSE misses[r]]
    /\ orphaned' = orphaned \cup {i \in RunIDs : /\ runs[i] = "running"
                                                  /\ \E r \in dead : job[r].id = i}
    /\ UNCHANGED <<runs, account, mirrored, upstream, absent, strayed,
                   requests>>

\* A heartbeat on a connection that is back in its pool: an error if it was
\* under way, a nil dereference if not.
LateHeartbeat(r) ==
    /\ beat[r] = "due"
    /\ session[r] = "none"
    /\ UNCHANGED faults
    /\ \/ Die(ProcessOf[r])
       \/ /\ Ended(r)
          /\ UNCHANGED <<proc, job, lock, kept, session, runs, account,
                         mirrored, upstream, history, requests>>

Crash(p) == proc[p] # "down" /\ Fault /\ Die(p)

\* run: runs whose heartbeat is old are marked.  Those are never of a run that
\* has its session.
StartProcess(p) ==
    /\ proc[p] = "down"
    /\ proc' = [proc EXCEPT ![p] = "up"]
    /\ \E stale \in SUBSET {i \in RunIDs : /\ runs[i] = "running"
                                           /\ \A r \in Runners : job[r].id = i =>
                                                 session[r] = "dead"} :
          runs' = [i \in RunIDs |-> IF i \in stale THEN "failed" ELSE runs[i]]
    /\ UNCHANGED <<job, lock, kept, session, heart, account, mirrored,
                   upstream, history, requests, faults>>

\* SIGTERM cancels every context; the process waits for what is under way.
StopProcess(p) ==
    /\ proc[p] = "up"
    /\ Fault
    /\ proc' = [proc EXCEPT ![p] = "stopping"]
    /\ job' = [r \in Runners |-> IF ProcessOf[r] = p
                                 THEN [job[r] EXCEPT !.cancelled = TRUE]
                                 ELSE job[r]]
    /\ UNCHANGED <<lock, kept, session, heart, runs, account, mirrored,
                   upstream, history, requests>>

ExitProcess(p) ==
    /\ proc[p] = "stopping"
    /\ \A r \in Runners : ProcessOf[r] = p => In(r, "idle")
    /\ proc' = [proc EXCEPT ![p] = "down"]
    /\ kept' = kept \ {p}
    /\ beat' = [r \in Runners |-> IF ProcessOf[r] = p THEN "off" ELSE beat[r]]
    /\ misses' = [r \in Runners |-> IF ProcessOf[r] = p THEN 0 ELSE misses[r]]
    /\ UNCHANGED <<job, lock, session, runs, account, mirrored, upstream,
                   history, requests, faults>>

\* max_run_duration
Deadline(r) ==
    /\ Working(r)
    /\ ~job[r].cancelled
    /\ job' = [job EXCEPT ![r].cancelled = TRUE]
    /\ UNCHANGED <<proc, lock, kept, session, heart, runs, account, mirrored,
                   upstream, history, requests, faults>>

\* The lock's connection breaks; the database releases the lock at once.
LoseSession(r) ==
    /\ session[r] = "alive"
    /\ Fault
    /\ session' = [session EXCEPT ![r] = "dead"]
    /\ lock' = Unlocked(r)
    /\ kept' = kept \ {ProcessOf[r]}
    /\ strayed' = TRUE
    /\ UNCHANGED <<proc, job, heart, runs, account, mirrored, upstream,
                   absent, orphaned, requests>>

SetAccountPaused ==
    /\ Fault
    /\ paused' = ~paused
    /\ UNCHANGED <<proc, job, lock, kept, session, heart, runs, authState,
                   mirrored, upstream, history, requests>>

-----------------------------------------------------------------------------
(* The upstream server: its users act *)

\* The password changes there, or changes back.
ChangePassword ==
    /\ Fault
    /\ valid' = ~valid
    /\ UNCHANGED <<proc, job, lock, kept, session, heart, runs, account,
                   mirrored, boxes, history, requests>>

CreateMailbox(b) ==
    /\ b \notin boxes
    /\ boxes' = boxes \cup {b}
    /\ Fault
    /\ UNCHANGED <<proc, job, lock, kept, session, heart, runs, account,
                   mirrored, valid, history, requests>>

DeleteMailbox(b) ==
    /\ b \in boxes
    /\ boxes' = boxes \ {b}
    /\ absent' = absent \cup ({b} \cap mirrored)
    /\ Fault
    /\ UNCHANGED <<proc, job, lock, kept, session, heart, runs, account,
                   mirrored, valid, strayed, orphaned, requests>>

-----------------------------------------------------------------------------
(* Specification *)

LockedStep(r) ==
    \/ GetAccount(r) \/ GetAccountFails(r)
    \/ Connect(r) \/ ListMailboxes(r) \/ UpstreamFails(r)
    \/ DeleteMailboxesExcept(r)
    \/ \E b \in Mailboxes : SyncMailbox(r, b) \/ SkipMailbox(r, b)
    \/ MailboxSynced(r) \/ MailboxFails(r) \/ MailboxRejected(r) \/ Hang(r)
    \/ Reconnect(r) \/ ReconnectFails(r)
    \/ RunCancelled(r)
    \/ MailboxesDone(r)

RunStep(r) ==
    \/ TryLockAccount(r) \/ SkipSync(r)
    \/ StartSyncRun(r) \/ StartRunFails(r)
    \/ LockedStep(r)
    \/ FinishSyncRun(r) \/ SetAccountSyncResult(r)
    \/ StopHeartbeat(r) \/ Release(r) \/ ReleaseFails(r)

HeartbeatStep(r) ==
    \/ Tick(r) \/ Heartbeat(r) \/ LateHeartbeat(r) \/ HeartbeatEnds(r)

Init ==
    /\ proc = [p \in Processes |-> "up"]
    /\ job = [r \in Runners |-> NoJob]
    /\ lock = NoRunner
    /\ kept = {}
    /\ session = [r \in Runners |-> "none"]
    /\ beat = [r \in Runners |-> "off"]
    /\ misses = [r \in Runners |-> 0]
    /\ runs = [i \in RunIDs |-> "none"]
    /\ authState = "ok"
    /\ paused = FALSE
    /\ mirrored = {}
    /\ boxes = Mailboxes
    /\ valid = TRUE
    /\ absent = {}
    /\ strayed = FALSE
    /\ orphaned = {}
    /\ requests = 0
    /\ faults = 0

Next ==
    \/ \E r \in Runners : \/ SyncAll(r) \/ StartSync(r)
                          \/ RunStep(r)
                          \/ HeartbeatStep(r)
                          \/ Deadline(r) \/ LoseSession(r)
    \/ \E p \in Processes : \/ Crash(p) \/ StartProcess(p)
                            \/ StopProcess(p) \/ ExitProcess(p)
                            \/ Recycle(p)
    \/ SetAccountPaused
    \/ ChangePassword
    \/ \E b \in Mailboxes : CreateMailbox(b) \/ DeleteMailbox(b)

Spec == Init /\ [][Next]_vars

\* Goroutines run, tickers tick and connections grow old.  A run that still has
\* its lock reaches its deadline; one that has lost it is left to the heartbeat.
FairSpec ==
    /\ Spec
    /\ \A r \in Runners : /\ WF_vars(RunStep(r))
                          /\ WF_vars(HeartbeatStep(r))
                          /\ WF_vars(session[r] = "alive" /\ Deadline(r))
    /\ \A p \in Processes : WF_vars(Recycle(p))

-----------------------------------------------------------------------------
(* Properties *)

\* Type invariant: with it, a heartbeat always has failures to go.
TypeOK ==
    /\ proc \in [Processes -> {"up", "stopping", "down"}]
    /\ job \in [Runners -> Job]
    /\ lock \in Runners \cup {NoRunner}
    /\ kept \in SUBSET Processes
    /\ session \in [Runners -> {"none", "alive", "dead"}]
    /\ beat \in [Runners -> {"off", "wait", "due"}]
    /\ misses \in [Runners -> 0..(MaxMisses - 1)]
    /\ runs \in [RunIDs -> Statuses]
    /\ authState \in {"ok", "auth_failed"}
    /\ paused \in BOOLEAN
    /\ mirrored \in SUBSET Mailboxes
    /\ boxes \in SUBSET Mailboxes
    /\ valid \in BOOLEAN
    /\ absent \in SUBSET Mailboxes
    /\ strayed \in BOOLEAN
    /\ orphaned \in SUBSET (0..MaxRequests)
    /\ requests \in 0..MaxRequests
    /\ faults \in 0..MaxFaults

\* Two runs of the account are under way at once only while one of them has
\* lost the session its lock was on, through skipped calls, failed starts,
\* crashes, restarts and shutdowns.
OneRun ==
    \A r, q \in Runners :
        Working(r) /\ Working(q) /\ session[r] # "dead" /\ session[q] # "dead"
            => r = q

\* Phases in which a run uses the credentials.
SigningIn == {"connect", "list", "prune", "sync", "mailbox", "stuck", "reconnect"}

\* While the account is marked as rejected, no run of SyncAccount signs in with
\* its credentials ("repeatedly retrying them risks the provider locking the
\* address", ListSyncableAccounts), not even one that was asked for before: the
\* mark is written and read under the lock.  The replay loop, which looks at the
\* mark once and signs in without the lock, is not among the runs.
QuietAfterRejection ==
    ~strayed /\ authState = "auth_failed" =>
        \A r \in Runners : job[r].phase \notin SigningIn

\* While no lock was lost, DeleteMailboxesExcept deletes no mailbox, with its
\* messages, that has been upstream ever since it was mirrored.
DropsOnlyDeleted ==
    [][~strayed => mirrored \ mirrored' \subseteq absent]_vars

\* A run in which every mailbox failed is not recorded as a success ("that
\* would hide a total outage behind a green status", syncAccountLocked).
GreenMeansWork ==
    [][\A r \in Runners :
          In(r, "finish") /\ job[r].failed /\ ~job[r].synced =>
              runs'[job[r].id] # "succeeded"]_vars

\* Every run ends and its record says so, whatever hangs, unless the process
\* dies, the record cannot be written or the answer that it is open is lost.  A
\* run that hangs is ended by its deadline, one without its lock by its
\* heartbeat.
RunsAreRecorded ==
    \A i \in RunIDs :
        runs[i] = "running" ~> runs[i] # "running" \/ i \in orphaned

\* The lock stays neither with a runner nor on a connection that went back to
\* its pool: "a sync that hung for two days holding a lock nobody could clear"
\* (SyncAccount) does not happen.
LockIsFreed ==
    /\ \A r \in Runners : lock = r ~> lock # r
    /\ \A p \in Processes : p \in kept ~> p \notin kept

\* "An authentication failure also flips auth_state, which removes the account
\* from the sync rotation until someone corrects the credentials"
\* (SetAccountSyncResult).
RejectionStays ==
    [][authState = "auth_failed" /\ ~valid => authState' = "auth_failed"]_vars

\* "Heartbeat refreshes a run's liveness on the connection holding the account
\* lock" (AccountLock.Heartbeat): none is issued when that was given back.
HeartbeatOnLock == \A r \in Runners : beat[r] = "due" => session[r] # "none"

=============================================================================
