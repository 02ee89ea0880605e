------------------------- MODULE AccountSyncProofs -------------------------
(***************************************************************************)
(* Proofs about AccountSync, for any number of processes, runners and      *)
(* mailboxes and any bounds: the type invariant, that two runs are under   *)
(* way at once only when one has lost its lock's session, that no run      *)
(* signs in while the account is marked as rejected, that no live mailbox  *)
(* is dropped, and that an outage is not recorded as a success.            *)
(***************************************************************************)
EXTENDS AccountSync, TLAPS

USE ConstantsAssumption

-----------------------------------------------------------------------------
(* Jobs *)

Jobs == job \in [Runners -> Job]

\* Runner r goes on with job j, and no other runner moves.
Becomes(r, j) ==
    /\ Jobs'
    /\ \A q \in Runners : q # r => job'[q] = job[q]
    /\ job'[r] = j

\* Replacing one job by another keeps the others.
LEMMA Replace ==
    ASSUME Jobs, NEW r \in Runners, NEW j \in Job, job' = [job EXCEPT ![r] = j]
    PROVE  Becomes(r, j)
  BY DEF Jobs, Becomes

\* A job's fields have their types.
LEMMA Fields ==
    ASSUME NEW j \in Job
    PROVE  /\ j.phase \in Phases /\ j.cancelled \in BOOLEAN
           /\ j.todo \in SUBSET Mailboxes /\ j.synced \in BOOLEAN
           /\ j.failed \in BOOLEAN /\ j.err \in Errors /\ j.id \in 0..MaxRequests
  BY DEF Job

\* Go changes the phase only.
LEMMA GoBecomes ==
    ASSUME Jobs, NEW r \in Runners, NEW ph \in Phases, Go(r, ph)
    PROVE  /\ Becomes(r, [job[r] EXCEPT !.phase = ph])
           /\ job'[r].phase = ph /\ job'[r].todo = job[r].todo
           /\ job'[r].synced = job[r].synced /\ job'[r].failed = job[r].failed
           /\ job'[r].err = job[r].err /\ job'[r].id = job[r].id
<1>1. job[r] \in Job
  BY DEF Jobs
<1>2. job' = [job EXCEPT ![r] = [job[r] EXCEPT !.phase = ph]]
  BY DEF Go, Jobs
<1>3. [job[r] EXCEPT !.phase = ph] \in Job
  BY <1>1 DEF Job
<1>4. Becomes(r, [job[r] EXCEPT !.phase = ph])
  BY <1>2, <1>3, Replace
<1> QED
  BY <1>1, <1>4 DEF Becomes, Job

\* Fail changes the phase and the error.
LEMMA FailBecomes ==
    ASSUME Jobs, NEW r \in Runners, NEW e \in Errors, Fail(r, e)
    PROVE  /\ Becomes(r, [job[r] EXCEPT !.phase = "finish", !.err = e])
           /\ job'[r].phase = "finish" /\ job'[r].todo = job[r].todo
           /\ job'[r].synced = job[r].synced /\ job'[r].failed = job[r].failed
           /\ job'[r].err = e /\ job'[r].id = job[r].id
<1>1. job[r] \in Job
  BY DEF Jobs
<1>2. [job[r] EXCEPT !.phase = "finish", !.err = e] \in Job
  BY <1>1 DEF Job, Phases
<1>3. Becomes(r, [job[r] EXCEPT !.phase = "finish", !.err = e])
  BY <1>2, Replace DEF Fail
<1> QED
  BY <1>1, <1>3 DEF Becomes, Job

\* NoJob is a job.
LEMMA NoJobType == NoJob \in Job
  BY DEF NoJob, Job, Phases, Errors

-----------------------------------------------------------------------------
(* What a step of syncAccountLocked may do *)

InRun == {"read", "connect", "list", "prune", "sync", "mailbox", "stuck",
          "reconnect", "finish"}

\* What is known of the error of a run, by its phase.
Outcome(j) ==
    /\ j.failed => j.phase \notin {"idle", "requested", "locked", "read",
                                   "connect", "list", "prune"}
    /\ j.phase = "reconnect" => j.err # "nil"
    /\ j.phase = "finish" /\ j.failed /\ ~j.synced => j.err # "nil"

Pruned(r) == /\ job[r].phase = "prune"
             /\ mirrored' \in {mirrored, mirrored \cap job[r].todo}
             /\ absent' = absent \cap mirrored'
Added(r) == \E b \in Mailboxes :
                /\ job[r].phase = "sync"
                /\ mirrored' = mirrored \cup {b}
                /\ absent' = IF b \in mirrored THEN absent
                                               ELSE absent \cup ({b} \ boxes)

Moves(r) ==
    /\ Jobs'
    /\ \A q \in Runners : q # r => job'[q] = job[q]
    /\ job[r].phase \in InRun /\ job'[r].phase \in InRun
    /\ job'[r].id = job[r].id
    /\ Outcome(job[r]) => Outcome(job'[r])
    /\ job'[r].phase \in SigningIn =>
          job[r].phase \in SigningIn \/ authState # "auth_failed"
    /\ UNCHANGED <<mirrored, absent>> \/ Pruned(r) \/ Added(r)
    /\ job'[r].phase = "prune" =>
          job'[r].todo = boxes /\ UNCHANGED <<mirrored, absent>>
    /\ UNCHANGED faults \/ Fault

\* Every step of syncAccountLocked is such a step.
LEMMA LockedMoves ==
    ASSUME TypeOK, NEW r \in Runners, LockedStep(r)
    PROVE  Moves(r) /\ RunOnly
<1>J. Jobs /\ job[r] \in Job /\ boxes \in SUBSET Mailboxes
  BY DEF TypeOK, Jobs
<1>F. /\ job[r].todo \in SUBSET Mailboxes /\ job[r].err \in Errors
      /\ job[r].failed \in BOOLEAN /\ job[r].synced \in BOOLEAN
  BY <1>J, Fields
<1> USE DEF Moves, Outcome, InRun, SigningIn
<1>1. CASE GetAccount(r)
  <2>1. CASE Active
    <3>1. Go(r, "connect")
      BY <1>1, <2>1 DEF GetAccount
    <3> QED
      BY <1>1, <1>J, <2>1, <3>1, GoBecomes DEF GetAccount, Becomes, In,
         Phases, Active
  <2>2. CASE ~Active
    <3>1. Fail(r, "nil")
      BY <1>1, <2>2 DEF GetAccount
    <3> QED
      BY <1>1, <1>J, <1>F, <3>1, FailBecomes DEF GetAccount, Becomes, In,
         Errors
  <2> QED
    BY <2>1, <2>2
<1>2. CASE GetAccountFails(r)
  <2>1. Fail(r, "local")
    BY <1>2 DEF GetAccountFails
  <2> QED
    BY <1>2, <1>J, <1>F, <2>1, FailBecomes DEF GetAccountFails, Becomes, In,
       Phases, Errors, CallFails
<1>3. CASE Connect(r)
  <2>1. CASE valid
    <3>1. Go(r, "list")
      BY <1>3, <2>1 DEF Connect
    <3> QED
      BY <1>3, <1>J, <2>1, <3>1, GoBecomes DEF Connect, Becomes, In, Phases
  <2>2. CASE ~valid
    <3>1. Fail(r, "auth")
      BY <1>3, <2>2 DEF Connect
    <3> QED
      BY <1>3, <1>J, <1>F, <3>1, FailBecomes DEF Connect, Becomes, In,
         Errors
  <2> QED
    BY <2>1, <2>2
<1>4. CASE ListMailboxes(r)
  <2>1. [job[r] EXCEPT !.phase = "prune", !.todo = boxes] \in Job
    BY <1>J, <1>F DEF Job, Phases
  <2>2. Becomes(r, [job[r] EXCEPT !.phase = "prune", !.todo = boxes])
    BY <1>4, <1>J, <2>1, Replace DEF ListMailboxes, Jobs
  <2>3. /\ job'[r].phase = "prune" /\ job'[r].todo = boxes
        /\ job'[r].synced = job[r].synced /\ job'[r].failed = job[r].failed
        /\ job'[r].err = job[r].err /\ job'[r].id = job[r].id
    BY <1>J, <2>2 DEF Becomes, Job
  <2> QED
    BY <1>4, <2>2, <2>3 DEF ListMailboxes, Becomes, In
<1>5. CASE UpstreamFails(r)
  <2>1. Fail(r, "upstream")
    BY <1>5 DEF UpstreamFails
  <2> QED
    BY <1>5, <1>J, <1>F, <2>1, FailBecomes DEF UpstreamFails, Becomes, In,
       Phases, Errors, CallFails
<1>6. CASE DeleteMailboxesExcept(r)
  <2>1. Go(r, "sync")
    BY <1>6 DEF DeleteMailboxesExcept
  <2> QED
    BY <1>6, <1>J, <1>F, <2>1, GoBecomes DEF DeleteMailboxesExcept, Becomes,
       In, Phases, Errors, CallFails, Pruned
<1>7. ASSUME NEW b \in Mailboxes, SyncMailbox(r, b)
      PROVE  Moves(r) /\ RunOnly
  <2>1. [job[r] EXCEPT !.phase = "mailbox", !.todo = @ \ {b}] \in Job
    BY <1>J, <1>F DEF Job, Phases
  <2>2. Becomes(r, [job[r] EXCEPT !.phase = "mailbox", !.todo = @ \ {b}])
    BY <1>7, <1>J, <2>1, Replace DEF SyncMailbox, Jobs
  <2>3. /\ job'[r].phase = "mailbox" /\ job'[r].todo = job[r].todo \ {b}
        /\ job'[r].synced = job[r].synced /\ job'[r].failed = job[r].failed
        /\ job'[r].err = job[r].err /\ job'[r].id = job[r].id
    BY <1>J, <2>2 DEF Becomes, Job
  <2> QED
    BY <1>7, <2>2, <2>3 DEF SyncMailbox, Becomes, In, Added
<1>8. ASSUME NEW b \in Mailboxes, SkipMailbox(r, b)
      PROVE  Moves(r) /\ RunOnly
  <2>1. [job[r] EXCEPT !.todo = @ \ {b}] \in Job
    BY <1>J, <1>F DEF Job, Phases
  <2>2. Becomes(r, [job[r] EXCEPT !.todo = @ \ {b}])
    BY <1>8, <1>J, <2>1, Replace DEF SkipMailbox, Jobs
  <2>3. /\ job'[r].phase = job[r].phase /\ job'[r].todo = job[r].todo \ {b}
        /\ job'[r].synced = job[r].synced /\ job'[r].failed = job[r].failed
        /\ job'[r].err = job[r].err /\ job'[r].id = job[r].id
    BY <1>J, <2>2 DEF Becomes, Job
  <2> QED
    BY <1>8, <2>2, <2>3 DEF SkipMailbox, Becomes, In
<1>9. CASE MailboxSynced(r)
  <2>1. [job[r] EXCEPT !.phase = "sync", !.synced = TRUE] \in Job
    BY <1>J, <1>F DEF Job, Phases
  <2>2. Becomes(r, [job[r] EXCEPT !.phase = "sync", !.synced = TRUE])
    BY <1>9, <1>J, <2>1, Replace DEF MailboxSynced, Jobs
  <2>3. /\ job'[r].phase = "sync" /\ job'[r].todo = job[r].todo
        /\ job'[r].synced = TRUE /\ job'[r].failed = job[r].failed
        /\ job'[r].err = job[r].err /\ job'[r].id = job[r].id
    BY <1>J, <2>2 DEF Becomes, Job
  <2> QED
    BY <1>9, <2>2, <2>3 DEF MailboxSynced, Becomes, In
<1>10. CASE MailboxFails(r)
  <2>1. PICK e \in {"upstream", "local"} :
          job' = [job EXCEPT ![r] = [job[r] EXCEPT !.phase = "reconnect", !.failed = TRUE, !.err = e]]
    BY <1>10 DEF MailboxFails
  <2>2. [job[r] EXCEPT !.phase = "reconnect", !.failed = TRUE, !.err = e] \in Job
    BY <1>J DEF Job, Phases, Errors
  <2>3. Becomes(r, [job[r] EXCEPT !.phase = "reconnect", !.failed = TRUE, !.err = e])
    BY <1>J, <2>1, <2>2, Replace
  <2>4. /\ job'[r].phase = "reconnect" /\ job'[r].err = e
        /\ job'[r].id = job[r].id
    BY <1>J, <2>3 DEF Becomes, Job
  <2> QED
    BY <1>10, <2>3, <2>4 DEF MailboxFails, Becomes, In, CallFails
<1>11. CASE MailboxRejected(r)
  <2>1. Fail(r, "auth")
    BY <1>11 DEF MailboxRejected
  <2> QED
    BY <1>11, <1>J, <1>F, <2>1, FailBecomes DEF MailboxRejected, Becomes,
       In, Phases, Errors, CallFails
<1>12. CASE Hang(r)
  <2>1. Go(r, "stuck")
    BY <1>12 DEF Hang
  <2> QED
    BY <1>12, <1>J, <1>F, <2>1, GoBecomes DEF Hang, Becomes, In, Phases,
       Errors, CallFails
<1>13. CASE Reconnect(r)
  <2>1. CASE valid /\ ~job[r].cancelled
    <3>1. [job[r] EXCEPT !.phase = "sync", !.err = "nil"] \in Job
      BY <1>J DEF Job, Phases, Errors
    <3>2. Becomes(r, [job[r] EXCEPT !.phase = "sync", !.err = "nil"])
      BY <1>13, <1>J, <2>1, <3>1, Replace DEF Reconnect
    <3>3. job'[r].phase = "sync" /\ job'[r].id = job[r].id
      BY <1>J, <3>2 DEF Becomes, Job
    <3> QED
      BY <1>13, <3>2, <3>3 DEF Reconnect, Becomes, In
  <2>2. CASE ~(valid /\ ~job[r].cancelled)
    <3>1. PICK e \in {"auth", job[r].err} : Fail(r, e)
      BY <1>13, <2>2 DEF Reconnect
    <3>2. e \in Errors
      BY <1>F DEF Errors
    <3> QED
      BY <1>13, <1>J, <3>1, <3>2, FailBecomes DEF Reconnect, Becomes, In
  <2> QED
    BY <2>1, <2>2
<1>14. CASE ReconnectFails(r)
  <2>1. Fail(r, job[r].err)
    BY <1>14 DEF ReconnectFails
  <2> QED
    BY <1>14, <1>J, <1>F, <2>1, FailBecomes DEF ReconnectFails, Becomes, In,
       Phases, Errors, CallFails
<1>15. CASE RunCancelled(r)
  <2>1. Fail(r, "local")
    BY <1>15 DEF RunCancelled
  <2> QED
    BY <1>15, <1>J, <1>F, <2>1, FailBecomes DEF RunCancelled, Becomes, In,
       Phases, Errors, CallFails
<1>16. CASE MailboxesDone(r)
  <2>1. Fail(r, IF job[r].failed /\ ~job[r].synced THEN "upstream" ELSE "nil")
    BY <1>16 DEF MailboxesDone
  <2> QED
    BY <1>16, <1>J, <1>F, <2>1, FailBecomes DEF MailboxesDone, Becomes, In,
       Phases, Errors, CallFails
<1> QED
  BY <1>1, <1>2, <1>3, <1>4, <1>5, <1>6, <1>7, <1>8, <1>9, <1>10, <1>11,
     <1>12, <1>13, <1>14, <1>15, <1>16 DEF LockedStep

-----------------------------------------------------------------------------
(* What the other steps do to the jobs *)

\* Two jobs that differ in nothing but whether they are cancelled.
Like(j, k) ==
    /\ j.phase = k.phase /\ j.todo = k.todo /\ j.synced = k.synced
    /\ j.failed = k.failed /\ j.err = k.err /\ j.id = k.id

\* A call starts afresh, with an id nobody has.
LEMMA CallJob ==
    ASSUME TypeOK, NEW r \in Runners, Call(r)
    PROVE  /\ Jobs' /\ \A q \in Runners : q # r => job'[q] = job[q]
           /\ job[r].phase = "idle" /\ job'[r].phase = "requested"
           /\ ~job'[r].failed /\ job'[r].id = requests + 1
           /\ requests' = requests + 1 /\ requests' \in 0..MaxRequests
<1> DEFINE j == [NoJob EXCEPT !.phase = "requested", !.cancelled = FALSE,
                              !.id = requests + 1]
<1>1. requests' = requests + 1 /\ requests' \in 0..MaxRequests
  BY DEF TypeOK, Call
<1>2. j \in Job
  BY <1>1 DEF NoJob, Job, Phases, Errors
<1>3. Becomes(r, j)
  BY <1>2, Replace DEF Call, Jobs, TypeOK
<1>4. j.phase = "requested" /\ j.failed = FALSE /\ j.id = requests + 1
  BY DEF NoJob
<1> QED
  BY <1>1, <1>3, <1>4 DEF Becomes, Call, In

\* A run that is over leaves no job behind.
LEMMA EndJob ==
    ASSUME Jobs, NEW r \in Runners, job' = [job EXCEPT ![r] = NoJob]
    PROVE  /\ Jobs' /\ \A q \in Runners : q # r => job'[q] = job[q]
           /\ job'[r] = NoJob
  BY NoJobType, Replace DEF Becomes

\* The deferred stop of the heartbeat cancels the run's context.
LEMMA StopJob ==
    ASSUME Jobs, NEW r \in Runners, StopHeartbeat(r)
    PROVE  /\ Jobs' /\ \A q \in Runners : q # r => job'[q] = job[q]
           /\ job'[r].phase = "unlock" /\ job'[r].failed = job[r].failed
           /\ job'[r].synced = job[r].synced /\ job'[r].err = job[r].err
           /\ job'[r].id = job[r].id
<1> DEFINE j == [job[r] EXCEPT !.phase = "unlock", !.cancelled = TRUE]
<1>1. job[r] \in Job
  BY DEF Jobs
<1>2. j \in Job
  BY <1>1 DEF Job, Phases
<1>3. Becomes(r, j)
  BY <1>2, Replace DEF StopHeartbeat
<1>4. /\ j.phase = "unlock" /\ j.failed = job[r].failed /\ j.id = job[r].id
      /\ j.synced = job[r].synced /\ j.err = job[r].err
  BY <1>1 DEF Job
<1> QED
  BY <1>3, <1>4 DEF Becomes

\* Heartbeats and deadlines only cancel.
LEMMA CancelJob ==
    ASSUME Jobs, NEW r \in Runners, NEW c \in BOOLEAN,
           job' = [job EXCEPT ![r].cancelled = c]
    PROVE  Jobs' /\ \A q \in Runners : Like(job'[q], job[q])
<1> DEFINE j == [job[r] EXCEPT !.cancelled = c]
<1>1. job[r] \in Job
  BY DEF Jobs
<1>2. j \in Job
  BY <1>1 DEF Job
<1>3. job' = [job EXCEPT ![r] = j]
  BY DEF Jobs
<1>4. Becomes(r, j)
  BY <1>2, <1>3, Replace
<1>5. Like(j, job[r])
  BY <1>1 DEF Job, Like
<1> QED
  BY <1>4, <1>5 DEF Becomes, Like

\* A heartbeat does nothing else to a job.
LEMMA HeartbeatJob ==
    ASSUME Jobs, NEW r \in Runners, Heartbeat(r)
    PROVE  Jobs' /\ \A q \in Runners : Like(job'[q], job[q])
<1>1. job[r] \in Job
  BY DEF Jobs
<1> DEFINE c == job[r].cancelled \/ (session[r] = "dead" /\ misses[r] + 1 >= MaxMisses)
<1>2. c \in BOOLEAN
  BY <1>1, Fields
<1>3. job' = [job EXCEPT ![r].cancelled = c]
  BY DEF Heartbeat
<1> QED
  BY <1>2, <1>3, CancelJob

\* Shutting a process down cancels its runs.
LEMMA ShutdownJobs ==
    ASSUME Jobs, NEW p \in Processes, StopProcess(p)
    PROVE  Jobs' /\ \A q \in Runners : Like(job'[q], job[q])
<1>1. ASSUME NEW q \in Runners
      PROVE  job'[q] \in Job /\ Like(job'[q], job[q])
  <2>1. job[q] \in Job
    BY DEF Jobs
  <2>2. job'[q] \in {job[q], [job[q] EXCEPT !.cancelled = TRUE]}
    BY DEF StopProcess
  <2> QED
    BY <2>1, <2>2 DEF Job, Like
<1>2. job' = [q \in Runners |-> job'[q]]
  BY DEF StopProcess
<1> QED
  BY <1>1, <1>2 DEF Jobs

\* A process that dies takes its runs along.
LEMMA DeadJobs ==
    ASSUME TypeOK, NEW p \in Processes, Die(p)
    PROVE  /\ Jobs'
           /\ \A q \in Runners :
                 \/ job'[q] = job[q] /\ session'[q] = session[q] /\ (lock' = q <=> lock = q)
                 \/ job'[q] = NoJob /\ session'[q] = "none" /\ lock' # q
  BY NoJobType DEF Die, Jobs, TypeOK

-----------------------------------------------------------------------------
(* Types *)

\* The count of faults stays in its bounds.
LEMMA FaultType == ASSUME TypeOK, UNCHANGED faults \/ Fault PROVE faults' \in 0..MaxFaults
  BY DEF TypeOK, Fault

\* The death of a process keeps the types.
LEMMA DieType ==
    ASSUME TypeOK, NEW p \in Processes, Die(p), faults' \in 0..MaxFaults
    PROVE  TypeOK'
<1>1. Jobs'
  BY DeadJobs
<1>2. orphaned' \in SUBSET (0..MaxRequests)
  <2>1. RunIDs \subseteq 0..MaxRequests
    BY DEF RunIDs
  <2> QED
    BY <2>1 DEF Die, TypeOK
<1>3. /\ misses' \in [Runners -> 0..(MaxMisses - 1)]
      /\ beat' \in [Runners -> {"off", "wait", "due"}]
  BY DEF Die, TypeOK
<1> QED
  BY <1>1, <1>2, <1>3 DEF Die, TypeOK, Jobs, account, heart, upstream, history

\* The type invariant holds at the start.
LEMMA TypeInit == Init => TypeOK
<1> SUFFICES ASSUME Init PROVE TypeOK
  OBVIOUS
<1>1. job \in [Runners -> Job]
  BY NoJobType DEF Init
<1>2. runs \in [RunIDs -> Statuses]
  BY DEF Init, Statuses
<1>3. /\ misses \in [Runners -> 0..(MaxMisses - 1)]
      /\ beat \in [Runners -> {"off", "wait", "due"}]
  BY DEF Init
<1>4. /\ paused \in BOOLEAN /\ valid \in BOOLEAN /\ strayed \in BOOLEAN
      /\ authState \in {"ok", "auth_failed"}
  BY DEF Init
<1>5. /\ proc \in [Processes -> {"up", "stopping", "down"}]
      /\ session \in [Runners -> {"none", "alive", "dead"}]
      /\ lock \in Runners \cup {NoRunner} /\ kept \in SUBSET Processes
  BY DEF Init
<1>6. /\ mirrored \in SUBSET Mailboxes /\ boxes \in SUBSET Mailboxes
      /\ absent \in SUBSET Mailboxes /\ orphaned \in SUBSET (0..MaxRequests)
  BY DEF Init
<1>7. requests \in 0..MaxRequests /\ faults \in 0..MaxFaults
  BY DEF Init
<1> QED
  BY <1>1, <1>2, <1>3, <1>4, <1>5, <1>6, <1>7 DEF TypeOK

\* The type invariant is inductive by itself.
LEMMA TypeStep == TypeOK /\ [Next]_vars => TypeOK'
<1> SUFFICES ASSUME TypeOK, [Next]_vars PROVE TypeOK'
  OBVIOUS
<1>J. Jobs
  BY DEF TypeOK, Jobs
<1> USE DEF account, heart, upstream, history
<1>0. ASSUME NEW r \in Runners, LockedStep(r)
      PROVE  TypeOK'
  <2>1. Moves(r) /\ RunOnly
    BY <1>0, LockedMoves
  <2>2. faults' \in 0..MaxFaults
    BY <2>1, FaultType DEF Moves
  <2>3. mirrored' \in SUBSET Mailboxes /\ absent' \in SUBSET Mailboxes
    BY <2>1 DEF Moves, Pruned, Added, TypeOK
  <2> QED
    BY <2>1, <2>2, <2>3 DEF Moves, RunOnly, TypeOK, Jobs
<1>1. ASSUME NEW r \in Runners, SyncAll(r)
      PROVE  TypeOK'
  <2>1. Call(r)
    BY <1>1 DEF SyncAll
  <2>2. Jobs' /\ requests' \in 0..MaxRequests
    BY <2>1, CallJob
  <2> QED
    BY <2>1, <2>2 DEF Call, TypeOK, Jobs
<1>2. ASSUME NEW r \in Runners, StartSync(r)
      PROVE  TypeOK'
  <2>1. Call(r)
    BY <1>2 DEF StartSync
  <2>2. Jobs' /\ requests' \in 0..MaxRequests
    BY <2>1, CallJob
  <2> QED
    BY <2>1, <2>2 DEF Call, TypeOK, Jobs
<1>3. ASSUME NEW r \in Runners, TryLockAccount(r)
      PROVE  TypeOK'
  <2>1. Jobs' /\ job[r] \in Job
    BY <1>3, <1>J, GoBecomes DEF TryLockAccount, Becomes, Phases, Jobs
  <2>2. faults' \in 0..MaxFaults
    BY <1>3, FaultType DEF TryLockAccount, CallFails, TypeOK
  <2> QED
    BY <1>3, <2>1, <2>2 DEF TryLockAccount, TypeOK, Jobs
<1>4. ASSUME NEW r \in Runners, SkipSync(r)
      PROVE  TypeOK'
  <2>1. Jobs'
    BY <1>4, <1>J, EndJob DEF SkipSync
  <2>2. faults' \in 0..MaxFaults
    BY <1>4, FaultType DEF SkipSync, CallFails, TypeOK
  <2> QED
    BY <1>4, <2>1, <2>2 DEF SkipSync, TypeOK, Jobs, Unlocked
<1>5. ASSUME NEW r \in Runners, StartSyncRun(r)
      PROVE  TypeOK'
  <2>1. Jobs' /\ job[r] \in Job
    BY <1>5, <1>J, GoBecomes DEF StartSyncRun, Becomes, Phases, Jobs
  <2>2. job[r].id \in 0..MaxRequests
    BY <2>1, Fields
  <2>3. runs' \in [RunIDs -> Statuses]
    BY <1>5 DEF StartSyncRun, TypeOK, Statuses
  <2>4. /\ misses' \in [Runners -> 0..(MaxMisses - 1)]
        /\ beat' \in [Runners -> {"off", "wait", "due"}]
    BY <1>5 DEF StartSyncRun, TypeOK
  <2> QED
    BY <1>5, <2>1, <2>3, <2>4 DEF StartSyncRun, TypeOK, Jobs
<1>6. ASSUME NEW r \in Runners, StartRunFails(r)
      PROVE  TypeOK'
  <2>1. Jobs' /\ job[r] \in Job
    BY <1>6, <1>J, GoBecomes DEF StartRunFails, Becomes, Phases, Jobs
  <2>2. faults' \in 0..MaxFaults
    BY <1>6, FaultType DEF StartRunFails, CallFails, TypeOK
  <2>3. job[r].id \in 0..MaxRequests
    BY <2>1, Fields
  <2>4. runs' \in [RunIDs -> Statuses] /\ orphaned' \in SUBSET (0..MaxRequests)
    BY <1>6, <2>3 DEF StartRunFails, TypeOK, Statuses
  <2> QED
    BY <1>6, <2>1, <2>2, <2>4 DEF StartRunFails, TypeOK, Jobs
<1>7. ASSUME NEW r \in Runners, FinishSyncRun(r)
      PROVE  TypeOK'
  <2>1. Jobs' /\ job[r] \in Job
    BY <1>7, <1>J, GoBecomes DEF FinishSyncRun, Becomes, Phases, Jobs
  <2>2. job[r].id \in 0..MaxRequests
    BY <2>1, Fields
  <2>3. runs' \in [RunIDs -> Statuses]
    BY <1>7 DEF FinishSyncRun, TypeOK, Statuses
  <2>4. faults' \in 0..MaxFaults
    BY <1>7, FaultType DEF FinishSyncRun
  <2> QED
    BY <1>7, <2>1, <2>2, <2>3, <2>4 DEF FinishSyncRun, TypeOK, Jobs, RunIDs
<1>8. ASSUME NEW r \in Runners, SetAccountSyncResult(r)
      PROVE  TypeOK'
  <2>1. Jobs' /\ job[r] \in Job
    BY <1>8, <1>J, GoBecomes DEF SetAccountSyncResult, Becomes, Phases, Jobs
  <2>2. faults' \in 0..MaxFaults
    BY <1>8, FaultType DEF SetAccountSyncResult, CallFails, TypeOK
  <2> QED
    BY <1>8, <2>1, <2>2 DEF SetAccountSyncResult, TypeOK, Jobs
<1>9. ASSUME NEW r \in Runners, StopHeartbeat(r)
      PROVE  TypeOK'
  BY <1>9, <1>J, StopJob DEF StopHeartbeat, TypeOK, Jobs
<1>10. ASSUME NEW r \in Runners, Release(r)
      PROVE  TypeOK'
  <2>1. Jobs'
    BY <1>10, <1>J, EndJob DEF Release
  <2>2. faults' \in 0..MaxFaults
    BY <1>10, FaultType DEF Release, CallFails, TypeOK
  <2> QED
    BY <1>10, <2>1, <2>2 DEF Release, TypeOK, Jobs, Unlocked
<1>11. ASSUME NEW r \in Runners, Tick(r)
      PROVE  TypeOK'
  BY <1>11 DEF Tick, TypeOK
<1>12. ASSUME NEW r \in Runners, Heartbeat(r)
      PROVE  TypeOK'
  <2>1. Jobs'
    BY <1>12, <1>J, HeartbeatJob
  <2>2. /\ misses' \in [Runners -> 0..(MaxMisses - 1)]
        /\ beat' \in [Runners -> {"off", "wait", "due"}]
    BY <1>12 DEF Heartbeat, TypeOK
  <2> QED
    BY <1>12, <2>1, <2>2 DEF Heartbeat, TypeOK, Jobs
<1>13. ASSUME NEW r \in Runners, LateHeartbeat(r)
      PROVE  TypeOK'
  <2>1. CASE Die(ProcessOf[r])
    <3>1. ProcessOf[r] \in Processes /\ faults' \in 0..MaxFaults
      BY <1>13 DEF LateHeartbeat, TypeOK
    <3> QED
      BY <2>1, <3>1, DieType
  <2>2. CASE ~Die(ProcessOf[r])
    <3>1. /\ misses' \in [Runners -> 0..(MaxMisses - 1)]
          /\ beat' \in [Runners -> {"off", "wait", "due"}]
      BY <1>13, <2>2 DEF LateHeartbeat, Ended, TypeOK
    <3> QED
      BY <1>13, <2>2, <3>1 DEF LateHeartbeat, TypeOK
  <2> QED
    BY <2>1, <2>2
<1>14. ASSUME NEW r \in Runners, HeartbeatEnds(r)
      PROVE  TypeOK'
  BY <1>14 DEF HeartbeatEnds, Ended, TypeOK
<1>15. ASSUME NEW r \in Runners, Deadline(r)
      PROVE  TypeOK'
  <2>1. Jobs'
    BY <1>15, <1>J, CancelJob DEF Deadline
  <2> QED
    BY <1>15, <2>1 DEF Deadline, TypeOK, Jobs
<1>16. ASSUME NEW r \in Runners, LoseSession(r)
      PROVE  TypeOK'
  BY <1>16, FaultType DEF LoseSession, TypeOK, Unlocked
<1>17. ASSUME NEW p \in Processes, Crash(p)
      PROVE  TypeOK'
  <2>1. Die(p) /\ Fault
    BY <1>17 DEF Crash
  <2> QED
    BY <2>1, DieType, FaultType
<1>18. ASSUME NEW p \in Processes, StartProcess(p)
      PROVE  TypeOK'
  BY <1>18 DEF StartProcess, TypeOK, Statuses
<1>19. ASSUME NEW p \in Processes, StopProcess(p)
      PROVE  TypeOK'
  <2>1. Jobs'
    BY <1>19, <1>J, ShutdownJobs
  <2> QED
    BY <1>19, <2>1, FaultType DEF StopProcess, TypeOK, Jobs
<1>20. ASSUME NEW p \in Processes, ExitProcess(p)
      PROVE  TypeOK'
  BY <1>20 DEF ExitProcess, TypeOK
<1>21. CASE SetAccountPaused
  BY <1>21, FaultType DEF SetAccountPaused, TypeOK
<1>22. CASE ChangePassword
  BY <1>22, FaultType DEF ChangePassword, TypeOK
<1>23. ASSUME NEW b \in Mailboxes, CreateMailbox(b)
      PROVE  TypeOK'
  BY <1>23, FaultType DEF CreateMailbox, TypeOK
<1>24. ASSUME NEW b \in Mailboxes, DeleteMailbox(b)
      PROVE  TypeOK'
  BY <1>24, FaultType DEF DeleteMailbox, TypeOK
<1>25. CASE UNCHANGED vars
  BY <1>25 DEF vars, TypeOK
<1>26. ASSUME NEW r \in Runners, ReleaseFails(r)
      PROVE  TypeOK'
  <2>1. Jobs'
    BY <1>26, <1>J, EndJob DEF ReleaseFails
  <2>2. /\ misses' \in [Runners -> 0..(MaxMisses - 1)]
        /\ beat' \in [Runners -> {"off", "wait", "due"}]
    BY <1>26 DEF ReleaseFails, TypeOK
  <2>3. kept' \in SUBSET Processes
    BY <1>26 DEF ReleaseFails, TypeOK
  <2> QED
    BY <1>26, <2>1, <2>2, <2>3 DEF ReleaseFails, TypeOK, Jobs
<1>27. ASSUME NEW p \in Processes, Recycle(p)
      PROVE  TypeOK'
  BY <1>27 DEF Recycle, TypeOK
<1> QED
  BY <1>0, <1>1, <1>2, <1>3, <1>4, <1>5, <1>6, <1>7, <1>8, <1>9, <1>10,
     <1>11, <1>12, <1>13, <1>14, <1>15, <1>16, <1>17, <1>18, <1>19, <1>20,
     <1>21, <1>22, <1>23, <1>24, <1>25, <1>26, <1>27
  DEF Next, RunStep, HeartbeatStep

\* Types are kept, for any numbers of processes, runners and mailboxes.
THEOREM TypeCorrect == Spec => []TypeOK
  BY TypeInit, TypeStep, PTL DEF Spec

-----------------------------------------------------------------------------
(* The kinds of steps *)

\* Runner r goes from one phase to another and keeps the rest of its job.
Walks(r, from, to) ==
    /\ Jobs' /\ \A q \in Runners : q # r => job'[q] = job[q]
    /\ job[r].phase = from /\ job'[r].phase = to
    /\ job'[r].failed = job[r].failed /\ job'[r].synced = job[r].synced
    /\ job'[r].err = job[r].err /\ job'[r].id = job[r].id

\* Runner r is done.
Ends(r) ==
    /\ Jobs' /\ \A q \in Runners : q # r => job'[q] = job[q]
    /\ job'[r] = NoJob

\* Jobs are cancelled at most, and nothing else happens that matters below.
Still ==
    /\ Jobs' /\ \A q \in Runners : Like(job'[q], job[q])
    /\ UNCHANGED <<lock, session, runs, authState, mirrored, boxes, history,
                   requests>>

StillOrDies == Still \/ \E p \in Processes : Die(p)

\* What a step of SyncAccount does outside syncAccountLocked.
OuterStep(r) ==
    \/ TryLockAccount(r) /\ Walks(r, "requested", "locked")
    \/ SkipSync(r) /\ Ends(r)
    \/ StartSyncRun(r) /\ Walks(r, "locked", "read")
    \/ StartRunFails(r) /\ Walks(r, "locked", "unlock")
    \/ FinishSyncRun(r) /\ Walks(r, "finish", "record")
    \/ SetAccountSyncResult(r) /\ Walks(r, "record", "stop")
    \/ StopHeartbeat(r) /\ Walks(r, "stop", "unlock")
    \/ Release(r) /\ Ends(r)
    \/ ReleaseFails(r) /\ Ends(r)

\* A step of SyncAccount is one inside or one outside syncAccountLocked.
LEMMA RunKinds ==
    ASSUME TypeOK, NEW r \in Runners, RunStep(r)
    PROVE  (Moves(r) /\ RunOnly) \/ OuterStep(r)
<1>J. Jobs
  BY DEF TypeOK, Jobs
<1> USE DEF Walks, OuterStep, In
<1>1. CASE TryLockAccount(r)
  BY <1>1, <1>J, GoBecomes DEF TryLockAccount, Becomes, Phases
<1>2. CASE SkipSync(r)
  BY <1>2, <1>J, EndJob DEF SkipSync, Ends
<1>3. CASE StartSyncRun(r)
  BY <1>3, <1>J, GoBecomes DEF StartSyncRun, Becomes, Phases
<1>4. CASE StartRunFails(r)
  BY <1>4, <1>J, GoBecomes DEF StartRunFails, Becomes, Phases
<1>5. CASE FinishSyncRun(r)
  BY <1>5, <1>J, GoBecomes DEF FinishSyncRun, Becomes, Phases
<1>6. CASE SetAccountSyncResult(r)
  BY <1>6, <1>J, GoBecomes DEF SetAccountSyncResult, Becomes, Phases
<1>7. CASE StopHeartbeat(r)
  BY <1>7, <1>J, StopJob DEF StopHeartbeat
<1>8. CASE Release(r)
  BY <1>8, <1>J, EndJob DEF Release, Ends
<1>9. CASE LockedStep(r)
  BY <1>9, LockedMoves
<1>10. CASE ReleaseFails(r)
  BY <1>10, <1>J, EndJob DEF ReleaseFails, Ends
<1> QED
  BY <1>1, <1>2, <1>3, <1>4, <1>5, <1>6, <1>7, <1>8, <1>9, <1>10 DEF RunStep

\* The heartbeat goroutine and the deadline cancel the run, or the process
\* dies.
LEMMA HeartbeatKinds ==
    ASSUME TypeOK, NEW r \in Runners, HeartbeatStep(r) \/ Deadline(r)
    PROVE  StillOrDies
<1>J. Jobs
  BY DEF TypeOK, Jobs
<1> USE DEF Still, StillOrDies, Like, account, upstream, history
<1>1. CASE Tick(r)
  BY <1>1, <1>J DEF Tick, Jobs
<1>2. CASE Heartbeat(r)
  BY <1>2, <1>J, HeartbeatJob DEF Heartbeat
<1>3. CASE LateHeartbeat(r)
  <2>1. ProcessOf[r] \in Processes
    OBVIOUS
  <2> QED
    BY <1>3, <1>J, <2>1 DEF LateHeartbeat, Jobs
<1>4. CASE HeartbeatEnds(r)
  BY <1>4, <1>J DEF HeartbeatEnds, Jobs
<1>5. CASE Deadline(r)
  BY <1>5, <1>J, CancelJob DEF Deadline
<1> QED
  BY <1>1, <1>2, <1>3, <1>4, <1>5 DEF HeartbeatStep

\* Every step is one of these kinds.
LEMMA Kinds ==
    ASSUME TypeOK, [Next]_vars
    PROVE  \/ StillOrDies
           \/ \E r \in Runners : \/ Moves(r) /\ RunOnly
                                 \/ OuterStep(r)
                                 \/ Call(r)
                                 \/ LoseSession(r)
           \/ \E p \in Processes : StartProcess(p)
           \/ \E b \in Mailboxes : CreateMailbox(b) \/ DeleteMailbox(b)
<1>J. Jobs
  BY DEF TypeOK, Jobs
<1>1. ASSUME NEW p \in Processes, StopProcess(p)
      PROVE  Still
  BY <1>1, <1>J, ShutdownJobs DEF StopProcess, Still, account, upstream, history
<1>2. ASSUME NEW p \in Processes, ExitProcess(p)
      PROVE  Still
  BY <1>2, <1>J DEF ExitProcess, Jobs, Still, Like, account, upstream, history
<1>3. CASE SetAccountPaused \/ ChangePassword
  BY <1>3, <1>J DEF SetAccountPaused, ChangePassword, Jobs, Still, StillOrDies,
     Like, account, upstream, history
<1>4. CASE UNCHANGED vars
  BY <1>4, <1>J DEF vars, Jobs, Still, StillOrDies, Like, account, upstream,
     history
<1>5. ASSUME NEW p \in Processes, Recycle(p)
      PROVE  Still
  BY <1>5, <1>J DEF Recycle, Jobs, Still, Like, account, upstream, history
<1> QED
  BY <1>1, <1>2, <1>3, <1>4, <1>5, RunKinds, HeartbeatKinds
  DEF Next, StillOrDies, Crash, SyncAll, StartSync

-----------------------------------------------------------------------------
(* The lock *)

\* A session that lives holds the lock, a run under way has a session, and
\* sessions die only where strayed says so.
LockInv ==
    \A r \in Runners :
        /\ session[r] = "alive" => lock = r
        /\ Working(r) <=> session[r] # "none"
        /\ session[r] = "dead" => strayed

\* Two runs are under way at once only if one of them has lost its session.
LEMMA LockGivesOneRun ==
    ASSUME TypeOK, LockInv
    PROVE  OneRun
  BY DEF LockInv, OneRun, TypeOK

\* Nothing holds the lock at the start.
LEMMA LockInit == Init => LockInv
  BY DEF Init, LockInv, Working, NoJob

\* Taking the lock, losing its session, giving it back and dying with it keep
\* the lock, the sessions and the runs together.
LEMMA LockStep == TypeOK /\ LockInv /\ [Next]_vars => LockInv'
<1> SUFFICES ASSUME TypeOK, LockInv, [Next]_vars PROVE LockInv'
  OBVIOUS
<1>T. /\ session \in [Runners -> {"none", "alive", "dead"}]
      /\ lock \in Runners \cup {NoRunner}
  BY DEF TypeOK
<1>1. CASE Still
  BY <1>1 DEF Still, Like, LockInv, Working, history
<1>2. ASSUME NEW p \in Processes, Die(p)
      PROVE  LockInv'
  <2>1. strayed' = strayed
    BY <1>2 DEF Die
  <2> QED
    BY <1>2, <2>1, DeadJobs DEF LockInv, Working, NoJob
<1>3. ASSUME NEW r \in Runners, Moves(r), RunOnly
      PROVE  LockInv'
  BY <1>3 DEF Moves, RunOnly, InRun, LockInv, Working
<1>4. ASSUME NEW r \in Runners, OuterStep(r)
      PROVE  LockInv'
  <2>1. CASE TryLockAccount(r) /\ Walks(r, "requested", "locked")
    BY <1>T, <2>1 DEF TryLockAccount, Walks, LockInv, Working, history
  <2>2. CASE SkipSync(r) /\ Ends(r)
    BY <2>2 DEF SkipSync, In, Ends, NoJob, LockInv, Working, history
  <2>3. CASE StartSyncRun(r) /\ Walks(r, "locked", "read")
    BY <2>3 DEF StartSyncRun, Walks, LockInv, Working, history
  <2>4. CASE StartRunFails(r) /\ Walks(r, "locked", "unlock")
    BY <2>4 DEF StartRunFails, Walks, LockInv, Working, history
  <2>5. CASE FinishSyncRun(r) /\ Walks(r, "finish", "record")
    BY <2>5 DEF FinishSyncRun, Walks, LockInv, Working
  <2>6. CASE SetAccountSyncResult(r) /\ Walks(r, "record", "stop")
    BY <2>6 DEF SetAccountSyncResult, Walks, LockInv, Working, history
  <2>7. CASE StopHeartbeat(r) /\ Walks(r, "stop", "unlock")
    BY <2>7 DEF StopHeartbeat, Walks, LockInv, Working, history
  <2>8. CASE Release(r) /\ Ends(r)
    BY <1>T, <2>8 DEF Release, Ends, NoJob, Unlocked, LockInv, Working, history
  <2>9. CASE ReleaseFails(r) /\ Ends(r)
    BY <1>T, <2>9 DEF ReleaseFails, Ends, NoJob, LockInv, Working, history
  <2> QED
    BY <1>4, <2>1, <2>2, <2>3, <2>4, <2>5, <2>6, <2>7, <2>8, <2>9 DEF OuterStep
<1>5. ASSUME NEW r \in Runners, Call(r)
      PROVE  LockInv'
  BY <1>5, CallJob DEF Call, LockInv, Working, history
<1>6. ASSUME NEW r \in Runners, LoseSession(r)
      PROVE  LockInv'
  BY <1>6, <1>T DEF LoseSession, Unlocked, LockInv, Working
<1>7. ASSUME NEW p \in Processes, StartProcess(p)
      PROVE  LockInv'
  BY <1>7 DEF StartProcess, LockInv, Working, history
<1>8. ASSUME NEW b \in Mailboxes, CreateMailbox(b) \/ DeleteMailbox(b)
      PROVE  LockInv'
  BY <1>8 DEF CreateMailbox, DeleteMailbox, LockInv, Working, history
<1> QED
  BY <1>1, <1>2, <1>3, <1>4, <1>5, <1>6, <1>7, <1>8, Kinds DEF StillOrDies

\* At most one run with a session that lives is under way.
THEOREM OneRunCorrect == Spec => []OneRun
<1>1. TypeOK /\ LockInv /\ [Next]_vars => (TypeOK /\ LockInv)'
  BY TypeStep, LockStep
<1>2. TypeOK /\ LockInv => OneRun
  BY LockGivesOneRun
<1> QED
  BY <1>1, <1>2, TypeInit, LockInit, PTL DEF Spec

\* While no session was lost, two runs under way are the same.
LEMMA Alone ==
    ASSUME TypeOK, LockInv, ~strayed, NEW r \in Runners, NEW q \in Runners,
           Working(r), Working(q)
    PROVE  r = q
  BY LockGivesOneRun DEF LockInv, OneRun

-----------------------------------------------------------------------------
(* A rejected account *)

\* No step signs in to an account that is marked as rejected, and none marks
\* it while another run is signed in.
LEMMA QuietStep ==
    TypeOK /\ LockInv /\ QuietAfterRejection /\ [Next]_vars
        => QuietAfterRejection'
<1> SUFFICES ASSUME TypeOK, LockInv, QuietAfterRejection, [Next]_vars
             PROVE  QuietAfterRejection'
  OBVIOUS
<1> USE DEF QuietAfterRejection, SigningIn
<1>1. CASE Still
  BY <1>1 DEF Still, Like, history
<1>2. ASSUME NEW p \in Processes, Die(p)
      PROVE  QuietAfterRejection'
  <2>1. strayed' = strayed /\ authState' = authState
    BY <1>2 DEF Die, account
  <2> QED
    BY <1>2, <2>1, DeadJobs DEF NoJob
<1>3. ASSUME NEW r \in Runners, Moves(r), RunOnly
      PROVE  QuietAfterRejection'
  BY <1>3 DEF Moves, RunOnly, account
<1>4. ASSUME NEW r \in Runners, OuterStep(r)
      PROVE  QuietAfterRejection'
  <2>1. CASE TryLockAccount(r) /\ Walks(r, "requested", "locked")
    BY <2>1 DEF TryLockAccount, Walks, account, history
  <2>2. CASE SkipSync(r) /\ Ends(r)
    BY <2>2 DEF SkipSync, Ends, NoJob, account, history
  <2>3. CASE StartSyncRun(r) /\ Walks(r, "locked", "read")
    BY <2>3 DEF StartSyncRun, Walks, account, history
  <2>4. CASE StartRunFails(r) /\ Walks(r, "locked", "unlock")
    BY <2>4 DEF StartRunFails, Walks, account, history
  <2>5. CASE FinishSyncRun(r) /\ Walks(r, "finish", "record")
    BY <2>5 DEF FinishSyncRun, Walks, account
  <2>6. CASE SetAccountSyncResult(r) /\ Walks(r, "record", "stop")
    <3>1. ASSUME ~strayed, NEW q \in Runners, q # r
          PROVE  job[q].phase \notin SigningIn
      BY <2>6, <3>1, Alone DEF Walks, Working
    <3> QED
      BY <2>6, <3>1 DEF SetAccountSyncResult, Walks, history
  <2>7. CASE StopHeartbeat(r) /\ Walks(r, "stop", "unlock")
    BY <2>7 DEF StopHeartbeat, Walks, account, history
  <2>8. CASE Release(r) /\ Ends(r)
    BY <2>8 DEF Release, Ends, NoJob, account, history
  <2>9. CASE ReleaseFails(r) /\ Ends(r)
    BY <2>9 DEF ReleaseFails, Ends, NoJob, account, history
  <2> QED
    BY <1>4, <2>1, <2>2, <2>3, <2>4, <2>5, <2>6, <2>7, <2>8, <2>9 DEF OuterStep
<1>5. ASSUME NEW r \in Runners, Call(r)
      PROVE  QuietAfterRejection'
  BY <1>5, CallJob DEF Call, account, history
<1>6. ASSUME NEW r \in Runners, LoseSession(r)
      PROVE  QuietAfterRejection'
  BY <1>6 DEF LoseSession
<1>7. ASSUME NEW p \in Processes, StartProcess(p)
      PROVE  QuietAfterRejection'
  BY <1>7 DEF StartProcess, account, history
<1>8. ASSUME NEW b \in Mailboxes, CreateMailbox(b) \/ DeleteMailbox(b)
      PROVE  QuietAfterRejection'
  BY <1>8 DEF CreateMailbox, DeleteMailbox, account, history
<1> QED
  BY <1>1, <1>2, <1>3, <1>4, <1>5, <1>6, <1>7, <1>8, Kinds DEF StillOrDies

\* While no lock was lost, no run of SyncAccount is signed in to an account that
\* is marked as rejected.
THEOREM QuietCorrect == Spec => []QuietAfterRejection
<1>1. Init => QuietAfterRejection
  BY DEF Init, QuietAfterRejection
<1>2. TypeOK /\ LockInv /\ QuietAfterRejection /\ [Next]_vars
        => (TypeOK /\ LockInv /\ QuietAfterRejection)'
  BY TypeStep, LockStep, QuietStep
<1> QED
  BY <1>1, <1>2, TypeInit, LockInit, PTL DEF Spec

-----------------------------------------------------------------------------
(* The mirrored mailboxes *)

\* A mailbox that has a row and is not upstream, or not in the list that a run
\* is about to prune by, has been missing upstream.
MailboxInv ==
    /\ mirrored \ boxes \subseteq absent
    /\ ~strayed => \A r \in Runners :
          job[r].phase = "prune" => mirrored \ job[r].todo \subseteq absent

\* Steps that start no pruning and leave the mailboxes alone.
LEMMA MailboxFrame ==
    ASSUME MailboxInv, UNCHANGED <<mirrored, boxes, absent>>,
           ~strayed' => ~strayed,
           NEW r \in Runners, \A q \in Runners : q # r => job'[q] = job[q],
           job'[r].phase # "prune"
    PROVE  MailboxInv'
  BY DEF MailboxInv

\* The list a run prunes by does not go stale: nobody else adds mailboxes, and
\* those that go upstream are noted.
LEMMA MailboxStep == TypeOK /\ LockInv /\ MailboxInv /\ [Next]_vars => MailboxInv'
<1> SUFFICES ASSUME TypeOK, LockInv, MailboxInv, [Next]_vars PROVE MailboxInv'
  OBVIOUS
<1>1. CASE Still
  BY <1>1 DEF Still, Like, MailboxInv, history
<1>2. ASSUME NEW p \in Processes, Die(p)
      PROVE  MailboxInv'
  <2>1. UNCHANGED <<mirrored, boxes, absent, strayed>>
    BY <1>2 DEF Die, upstream
  <2> QED
    BY <1>2, <2>1, DeadJobs DEF MailboxInv, NoJob
<1>3. ASSUME NEW r \in Runners, Moves(r), RunOnly
      PROVE  MailboxInv'
  <2>1. boxes' = boxes /\ strayed' = strayed
    BY <1>3 DEF RunOnly, upstream
  <2>2. CASE UNCHANGED <<mirrored, absent>>
    BY <1>3, <2>1, <2>2 DEF Moves, MailboxInv
  <2>3. CASE Pruned(r) /\ ~UNCHANGED <<mirrored, absent>>
    BY <1>3, <2>1, <2>3 DEF Moves, Pruned, MailboxInv
  <2>4. CASE Added(r) /\ ~UNCHANGED <<mirrored, absent>>
    <3>1. PICK b \in Mailboxes :
             /\ mirrored' = mirrored \cup {b}
             /\ absent' = IF b \in mirrored THEN absent
                                            ELSE absent \cup ({b} \ boxes)
      BY <2>4 DEF Added
    <3>2. (mirrored \ boxes)' \subseteq absent'
      BY <2>1, <3>1 DEF MailboxInv
    <3>3. ASSUME ~strayed, NEW q \in Runners, q # r
          PROVE  job[q].phase # "prune"
      BY <1>3, <3>3, Alone DEF Moves, InRun, Working
    <3>4. job'[r].phase # "prune"
      BY <1>3, <2>4 DEF Moves
    <3> QED
      BY <1>3, <2>1, <3>2, <3>3, <3>4 DEF Moves, MailboxInv
  <2> QED
    BY <1>3, <2>2, <2>3, <2>4 DEF Moves
<1>4. ASSUME NEW r \in Runners, OuterStep(r)
      PROVE  MailboxInv'
  <2>1. UNCHANGED <<mirrored, boxes, absent, strayed>>
    BY <1>4 DEF OuterStep, TryLockAccount, SkipSync, StartSyncRun,
       StartRunFails, FinishSyncRun, SetAccountSyncResult, StopHeartbeat,
       Release, ReleaseFails, upstream, history
  <2>2. /\ \A q \in Runners : q # r => job'[q] = job[q]
        /\ job'[r].phase # "prune"
    BY <1>4 DEF OuterStep, Walks, Ends, NoJob
  <2> QED
    BY <2>1, <2>2, MailboxFrame
<1>5. ASSUME NEW r \in Runners, Call(r)
      PROVE  MailboxInv'
  BY <1>5, CallJob, MailboxFrame DEF Call, upstream, history
<1>6. ASSUME NEW r \in Runners, LoseSession(r)
      PROVE  MailboxInv'
  BY <1>6 DEF LoseSession, MailboxInv, upstream
<1>7. ASSUME NEW p \in Processes, StartProcess(p)
      PROVE  MailboxInv'
  BY <1>7 DEF StartProcess, MailboxInv, upstream, history
<1>8. ASSUME NEW b \in Mailboxes, CreateMailbox(b)
      PROVE  MailboxInv'
  BY <1>8 DEF CreateMailbox, MailboxInv, history
<1>9. ASSUME NEW b \in Mailboxes, DeleteMailbox(b)
      PROVE  MailboxInv'
  BY <1>9 DEF DeleteMailbox, MailboxInv
<1> QED
  BY <1>1, <1>2, <1>3, <1>4, <1>5, <1>6, <1>7, <1>8, <1>9, Kinds
  DEF StillOrDies

\* A step that drops a mailbox's row prunes by a list.
LEMMA OnlyPruningDrops ==
    TypeOK /\ LockInv /\ MailboxInv /\ [Next]_vars
        => [~strayed => mirrored \ mirrored' \subseteq absent]_vars
<1> SUFFICES ASSUME TypeOK, LockInv, MailboxInv, [Next]_vars, ~strayed
             PROVE  mirrored \ mirrored' \subseteq absent
  OBVIOUS
<1>1. ASSUME NEW r \in Runners, Moves(r)
      PROVE  mirrored \ mirrored' \subseteq absent
  BY <1>1 DEF Moves, Pruned, Added, MailboxInv
<1>2. ASSUME NEW r \in Runners, OuterStep(r)
      PROVE  mirrored' = mirrored
  BY <1>2 DEF OuterStep, TryLockAccount, SkipSync, StartSyncRun, StartRunFails,
     FinishSyncRun, SetAccountSyncResult, StopHeartbeat, Release, ReleaseFails
<1> QED
  BY <1>1, <1>2, Kinds DEF StillOrDies, Still, Die, Call, LoseSession,
     StartProcess, CreateMailbox, DeleteMailbox

\* No mailbox that has been upstream all along loses its row.
THEOREM DropsCorrect == Spec => DropsOnlyDeleted
<1>1. Init => MailboxInv
  BY DEF Init, MailboxInv
<1>2. TypeOK /\ LockInv /\ MailboxInv /\ [Next]_vars
        => (TypeOK /\ LockInv /\ MailboxInv)'
  BY TypeStep, LockStep, MailboxStep
<1> QED
  BY <1>1, <1>2, TypeInit, LockInit, OnlyPruningDrops, PTL
  DEF Spec, DropsOnlyDeleted

-----------------------------------------------------------------------------
(* Outcomes *)

\* What is known of the errors of the runs, and of their records.
OutcomeInv == \A r \in Runners : Outcome(job[r])

\* Runs have ids of their own; the record of a run that has not opened it does
\* not exist, and that of one that has not closed it is open, or was marked by
\* a process that started.
IdInv ==
    /\ \A i \in RunIDs : i > requests => runs[i] = "none"
    /\ \A r \in Runners :
          /\ job[r].id \in Int
          /\ job[r].phase # "idle" => 1 <= job[r].id /\ job[r].id <= requests
          /\ job[r].phase = "idle" => job[r].id = 0
          /\ job[r].phase \in {"requested", "locked"} => runs[job[r].id] = "none"
          /\ job[r].phase \in InRun => runs[job[r].id] \in {"running", "failed"}
    /\ \A r, q \in Runners : r # q /\ job[r].id # 0 => job[r].id # job[q].id

\* Every step keeps what is known of the errors.
LEMMA OutcomeStep == TypeOK /\ OutcomeInv /\ [Next]_vars => OutcomeInv'
<1> SUFFICES ASSUME TypeOK, OutcomeInv, [Next]_vars PROVE OutcomeInv'
  OBVIOUS
<1> USE DEF OutcomeInv
<1>1. CASE Still
  BY <1>1 DEF Still, Like, Outcome
<1>2. ASSUME NEW p \in Processes, Die(p)
      PROVE  OutcomeInv'
  BY <1>2, DeadJobs DEF Outcome, NoJob
<1>3. ASSUME NEW r \in Runners, Moves(r)
      PROVE  OutcomeInv'
  BY <1>3 DEF Moves
<1>4. ASSUME NEW r \in Runners, OuterStep(r)
      PROVE  OutcomeInv'
  <2>1. CASE Ends(r)
    BY <2>1 DEF Ends, NoJob, Outcome
  <2>2. CASE \/ Walks(r, "requested", "locked") \/ Walks(r, "locked", "read")
             \/ Walks(r, "locked", "unlock") \/ Walks(r, "finish", "record")
             \/ Walks(r, "record", "stop") \/ Walks(r, "stop", "unlock")
    BY <2>2 DEF Walks, Outcome
  <2> QED
    BY <1>4, <2>1, <2>2 DEF OuterStep
<1>5. ASSUME NEW r \in Runners, Call(r)
      PROVE  OutcomeInv'
  BY <1>5, CallJob DEF Outcome
<1>6. ASSUME UNCHANGED job
      PROVE  OutcomeInv'
  BY <1>6
<1> QED
  BY <1>1, <1>2, <1>3, <1>4, <1>5, <1>6, Kinds DEF StillOrDies, LoseSession,
     StartProcess, CreateMailbox, DeleteMailbox

\* Every step keeps the ids apart and the records where they should be.
LEMMA IdStep == TypeOK /\ IdInv /\ [Next]_vars => IdInv'
<1> SUFFICES ASSUME TypeOK, IdInv, [Next]_vars PROVE IdInv'
  OBVIOUS
<1>T. requests \in 0..MaxRequests /\ runs \in [RunIDs -> Statuses]
  BY DEF TypeOK
<1>1. CASE Still
  BY <1>1 DEF Still, Like, IdInv
<1>2. ASSUME NEW p \in Processes, Die(p)
      PROVE  IdInv'
  <2>1. UNCHANGED <<runs, requests>>
    BY <1>2 DEF Die
  <2>2. \A q \in Runners : job'[q] \in {job[q], NoJob}
    BY <1>2, DeadJobs
  <2>3. NoJob.phase = "idle" /\ NoJob.id = 0
    BY DEF NoJob
  <2> QED
    BY <2>1, <2>2, <2>3 DEF IdInv, InRun
<1>3. ASSUME NEW r \in Runners, Moves(r), RunOnly
      PROVE  IdInv'
  BY <1>3 DEF Moves, RunOnly, InRun, IdInv
<1>4. ASSUME NEW r \in Runners, OuterStep(r)
      PROVE  IdInv'
  <2>1. CASE Ends(r) /\ UNCHANGED <<runs, requests>>
    BY <2>1 DEF Ends, NoJob, IdInv, InRun
  <2>2. CASE TryLockAccount(r) /\ Walks(r, "requested", "locked")
    BY <2>2 DEF TryLockAccount, Walks, IdInv, InRun
  <2>3. CASE StartSyncRun(r) /\ Walks(r, "locked", "read")
    <3>1. job[r].id \in RunIDs
      BY <1>T, <2>3 DEF Walks, IdInv, RunIDs
    <3>2. runs'[job[r].id] = "running"
      BY <1>T, <2>3, <3>1 DEF StartSyncRun
    <3>3. \A i \in RunIDs : i # job[r].id => runs'[i] = runs[i]
      BY <1>T, <2>3 DEF StartSyncRun
    <3>4. requests' = requests
      BY <2>3 DEF StartSyncRun
    <3>5. \A q \in Runners : job[q].phase # "idle" => job[q].id \in RunIDs
      BY <1>T DEF IdInv, RunIDs
    <3> QED
      BY <1>T, <2>3, <3>1, <3>2, <3>3, <3>4, <3>5 DEF Walks, IdInv, InRun
  <2>4. CASE StartRunFails(r) /\ Walks(r, "locked", "unlock")
    <3>1. job[r].id \in RunIDs /\ job[r].id <= requests
      BY <1>T, <2>4 DEF Walks, IdInv, RunIDs
    <3>2. \A i \in RunIDs : i # job[r].id => runs'[i] = runs[i]
      BY <1>T, <2>4 DEF StartRunFails
    <3>3. requests' = requests
      BY <2>4 DEF StartRunFails
    <3>4. \A q \in Runners : job[q].phase # "idle" => job[q].id \in RunIDs
      BY <1>T DEF IdInv, RunIDs
    <3> QED
      BY <1>T, <2>4, <3>1, <3>2, <3>3, <3>4 DEF Walks, IdInv, InRun
  <2>5. CASE FinishSyncRun(r) /\ Walks(r, "finish", "record")
    <3>1. job[r].id \in RunIDs /\ job[r].id <= requests
      BY <1>T, <2>5 DEF Walks, IdInv, RunIDs
    <3>2. \A i \in RunIDs : i # job[r].id => runs'[i] = runs[i]
      BY <1>T, <2>5 DEF FinishSyncRun
    <3>3. requests' = requests
      BY <2>5 DEF FinishSyncRun
    <3>4. \A q \in Runners : job[q].phase # "idle" => job[q].id \in RunIDs
      BY <1>T DEF IdInv, RunIDs
    <3> QED
      BY <1>T, <2>5, <3>1, <3>2, <3>3, <3>4 DEF Walks, IdInv, InRun
  <2>6. CASE SetAccountSyncResult(r) /\ Walks(r, "record", "stop")
    BY <2>6 DEF SetAccountSyncResult, Walks, IdInv, InRun
  <2>7. CASE StopHeartbeat(r) /\ Walks(r, "stop", "unlock")
    BY <2>7 DEF StopHeartbeat, Walks, IdInv, InRun
  <2> QED
    BY <1>4, <2>1, <2>2, <2>3, <2>4, <2>5, <2>6, <2>7
    DEF OuterStep, SkipSync, Release, ReleaseFails
<1>5. ASSUME NEW r \in Runners, Call(r)
      PROVE  IdInv'
  <2>1. /\ \A q \in Runners : q # r => job'[q] = job[q]
        /\ job'[r].phase = "requested" /\ job'[r].id = requests + 1
        /\ requests' = requests + 1
    BY <1>5, CallJob
  <2>2. runs' = runs /\ requests + 1 \in RunIDs
    BY <1>T, <1>5 DEF Call, RunIDs
  <2>3. runs[requests + 1] = "none"
    BY <1>T, <2>2 DEF IdInv, RunIDs
  <2>4. \A q \in Runners : job[q].id \in Int /\ job[q].id < requests + 1
    BY <1>T DEF IdInv
  <2>5. \A i \in RunIDs : i > requests' => runs'[i] = "none"
    BY <1>T, <2>1, <2>2 DEF IdInv, RunIDs
  <2>6. ASSUME NEW q \in Runners
        PROVE  /\ job'[q].id \in Int
               /\ job'[q].phase # "idle" => 1 <= job'[q].id /\ job'[q].id <= requests'
               /\ job'[q].phase = "idle" => job'[q].id = 0
               /\ job'[q].phase \in {"requested", "locked"} => runs'[job'[q].id] = "none"
               /\ job'[q].phase \in InRun => runs'[job'[q].id] \in {"running", "failed"}
    <3>1. CASE q = r
      BY <1>T, <2>1, <2>2, <2>3, <3>1 DEF InRun
    <3>2. CASE q # r
      BY <1>T, <2>1, <2>2, <3>2 DEF IdInv
    <3> QED
      BY <3>1, <3>2
  <2>7. \A k, q \in Runners : k # q /\ job'[k].id # 0 => job'[k].id # job'[q].id
    BY <1>T, <2>1, <2>4 DEF IdInv
  <2> QED
    BY <2>5, <2>6, <2>7 DEF IdInv
<1>6. ASSUME NEW p \in Processes, StartProcess(p)
      PROVE  IdInv'
  <2>1. UNCHANGED <<job, requests>>
    BY <1>6 DEF StartProcess
  <2>2. \A i \in RunIDs : \/ runs'[i] = runs[i]
                          \/ runs[i] = "running" /\ runs'[i] = "failed"
    BY <1>6 DEF StartProcess
  <2>3. \A q \in Runners : job[q].phase # "idle" => job[q].id \in RunIDs
    BY <1>T DEF IdInv, RunIDs
  <2> QED
    BY <2>1, <2>2, <2>3 DEF IdInv, InRun
<1>7. ASSUME UNCHANGED <<job, runs, requests>>
      PROVE  IdInv'
  BY <1>7 DEF IdInv
<1> QED
  BY <1>1, <1>2, <1>3, <1>4, <1>5, <1>6, <1>7, Kinds DEF StillOrDies,
     LoseSession, CreateMailbox, DeleteMailbox

\* Only its own FinishSyncRun closes the record of a run, and it has an error
\* to record where every mailbox has failed.
LEMMA NoFalseGreen ==
    TypeOK /\ OutcomeInv /\ IdInv /\ [Next]_vars
        => [\A r \in Runners :
               In(r, "finish") /\ job[r].failed /\ ~job[r].synced =>
                   runs'[job[r].id] # "succeeded"]_vars
<1> SUFFICES ASSUME TypeOK, OutcomeInv, IdInv, [Next]_vars, NEW r \in Runners,
                    In(r, "finish"), job[r].failed, ~job[r].synced
             PROVE  runs'[job[r].id] # "succeeded"
  OBVIOUS
<1>T. requests \in 0..MaxRequests /\ runs \in [RunIDs -> Statuses]
  BY DEF TypeOK
<1>1. job[r].id \in RunIDs /\ runs[job[r].id] \in {"running", "failed"}
  BY <1>T DEF In, IdInv, RunIDs, InRun
<1>2. job[r].err # "nil"
  BY DEF In, OutcomeInv, Outcome
<1>3. CASE UNCHANGED runs
  BY <1>1, <1>3
<1>4. ASSUME NEW q \in Runners, OuterStep(q), ~UNCHANGED runs
      PROVE  runs'[job[r].id] # "succeeded"
  <2>1. CASE StartSyncRun(q)
    BY <1>T, <1>1, <2>1 DEF StartSyncRun
  <2>2. CASE FinishSyncRun(q) /\ q = r
    BY <1>T, <1>1, <1>2, <1>4, <2>2 DEF FinishSyncRun
  <2>3. CASE FinishSyncRun(q) /\ q # r
    <3>1. job[q].id # job[r].id
      BY <1>1, <2>3 DEF IdInv, RunIDs
    <3> QED
      BY <1>T, <1>1, <1>4, <2>3, <3>1 DEF FinishSyncRun
  <2>4. CASE StartRunFails(q)
    BY <1>T, <1>1, <1>4, <2>4 DEF StartRunFails
  <2> QED
    BY <1>4, <2>1, <2>2, <2>3, <2>4 DEF OuterStep, TryLockAccount, SkipSync,
       SetAccountSyncResult, StopHeartbeat, Release, ReleaseFails
<1>5. ASSUME NEW p \in Processes, StartProcess(p)
      PROVE  runs'[job[r].id] # "succeeded"
  BY <1>1, <1>5 DEF StartProcess
<1> QED
  BY <1>3, <1>4, <1>5, Kinds DEF StillOrDies, Still, Die, RunOnly, Call,
     LoseSession, CreateMailbox, DeleteMailbox

\* A run in which every mailbox failed is never recorded as a success.
THEOREM GreenCorrect == Spec => GreenMeansWork
<1>1. Init => OutcomeInv /\ IdInv
  BY DEF Init, OutcomeInv, Outcome, IdInv, InRun, NoJob, RunIDs
<1>2. TypeOK /\ OutcomeInv /\ IdInv /\ [Next]_vars
        => (TypeOK /\ OutcomeInv /\ IdInv)'
  BY TypeStep, OutcomeStep, IdStep
<1> QED
  BY <1>1, <1>2, TypeInit, NoFalseGreen, PTL DEF Spec, GreenMeansWork

=============================================================================
