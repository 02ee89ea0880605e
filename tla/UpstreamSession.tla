-------------------------- MODULE UpstreamSession --------------------------
(***************************************************************************)
(* upstream.Session: one handle to the mirrored server that dials on       *)
(* demand, runs a command, and after a failure drops the connection, waits *)
(* and runs the command again on a new one with its mailbox opened anew.   *)
(*                                                                         *)
(* A body worker selects one mailbox and fetches; the replay loop goes     *)
(* from mailbox to mailbox and stores flags, and keeps its session when a  *)
(* SELECT is refused.  Each blocking call runs under a deadline: when it   *)
(* passes, or the caller's context is cancelled, a goroutine of its own    *)
(* marks the connection poisoned and then closes it, which is what makes   *)
(* the call return.  Nobody waits for that goroutine: it may still be at   *)
(* work when the call has returned with success and the next one begins.   *)
(*                                                                         *)
(* Time is not modelled: a deadline may pass whenever a call is under way, *)
(* and a call to a server that has gone silent ends in no other way.       *)
(***************************************************************************)
EXTENDS Integers, FiniteSets

CONSTANTS
    Mailboxes,
    RetryMax,       \* upstream.retry_max_attempts
    MaxEpoch,       \* bound on the UIDVALIDITYs of the mailboxes
    MaxCommands,    \* bound on the calls of Select and Do
    MaxFaults,      \* bound on the failures of one behaviour
    None            \* no mailbox

ASSUME ConstantsAssumption ==
    /\ RetryMax \in Nat
    /\ MaxEpoch \in Nat \ {0}
    /\ MaxCommands \in Nat
    /\ MaxFaults \in Nat
    /\ None \notin Mailboxes

\* The stages of Connector.Connect, then the commands of a connection.
Stages == {"dial", "tls", "greet", "auth", "caps", "reselect"}
AfterStage == [dial |-> "tls", tls |-> "greet", greet |-> "auth", auth |-> "caps"]

\* What a call may fail with: the transport, its deadline, the caller's
\* cancellation, rejected credentials, a mailbox that does not exist, and
\* any other NO.
Errors == {"net", "deadline", "cancelled", "auth", "nonexistent", "no"}
Phases == Stages \cup {"idle", "try", "run", "wait"}

VARIABLES
    server,         \* epoch of the mailboxes, which exist, whether it accepts the password
    sockets,        \* connections the server has open to this session
    client,         \* s.client: none, or poisoned, closed, fuse and the open mailbox
    selected,       \* s.selected
    readOnly,       \* s.readOnly
    context,        \* the caller's context: live or cancelled
    pc,             \* where Do is
    command,        \* the command of Do
    attempt,        \* the attempt of Do
    flight,         \* the request on the wire: none, sent, or its answer
    late,           \* the context of the call under way is done
    outcome,        \* what the last call of Do returned
    ran,            \* history: where the command took effect, during this Do
    promised,       \* history: the epoch the caller's SELECT reported
    commands,       \* calls so far
    faults          \* failures so far

link == <<sockets, client>>
memory == <<selected, readOnly, promised>>
call == <<command, attempt, outcome>>
wire == <<flight, late>>
vars == <<server, link, memory, context, pc, call, wire, ran, commands, faults>>

\* The client variable has one value while there is no connection: a client
\* that was never opened.
NoClient == [poisoned |-> FALSE, closed |-> TRUE, fuse |-> "out",
             box |-> None, ro |-> FALSE, epoch |-> 0]
NewClient == [NoClient EXCEPT !.closed = FALSE]

Fault == faults < MaxFaults /\ faults' = faults + 1

\* SeverityOf(classify(err)).
Severity(e) == CASE e = "auth" -> "fatal-account"
                 [] e = "nonexistent" -> "fatal-mailbox"
                 [] OTHER -> "retryable"

\* Whether a fresh connection could plausibly succeed.
Recoverable(e) == Severity(e) = "retryable" /\ e \in {"net", "deadline"}

\* Closing the socket; LOGOUT beforehand is a courtesy nobody waits for.
Close == sockets' = IF client.closed THEN sockets ELSE sockets - 1

-----------------------------------------------------------------------------
(* The caller *)

\* Select or a command for the open mailbox enters Do.
Begin(c) ==
    /\ pc = "idle"
    /\ context = "live"
    /\ commands < MaxCommands
    /\ c.kind = "select" \/ selected # None
    /\ commands' = commands + 1
    /\ command' = c
    /\ attempt' = 1
    /\ pc' = "try"
    /\ ran' = {}
    /\ UNCHANGED <<server, link, memory, context, outcome, wire, faults>>

\* SELECT or EXAMINE, and the FETCH of a worker or the STORE of a replay.
Commands == [kind : {"select"}, box : Mailboxes, ro : BOOLEAN]
                \cup [kind : {"work"}, box : {None}, ro : {FALSE}]

\* Do returns; Select then remembers the mailbox.
Return(result) ==
    /\ pc' = "idle"
    /\ outcome' = result
    /\ IF result = "ok" /\ command.kind = "select"
       THEN /\ selected' = command.box
            /\ readOnly' = command.ro
            /\ promised' = client.epoch
       ELSE UNCHANGED memory

\* The run ends: the caller's context is cancelled.
Cancel ==
    /\ context = "live"
    /\ Fault
    /\ context' = "cancelled"
    /\ UNCHANGED <<server, link, memory, pc, call, wire, ran, commands>>

\* Session.Close; the next worker or replay has a session of its own.
SessionClose ==
    /\ pc = "idle"
    /\ Close
    /\ client' = NoClient
    /\ selected' = None
    /\ readOnly' = FALSE
    /\ promised' = 0
    /\ context' = "live"
    /\ UNCHANGED <<server, pc, call, wire, ran, commands, faults>>

-----------------------------------------------------------------------------
(* Do and ensureConnected *)

CommandStage == IF selected = None THEN "run" ELSE "reselect"

\* The top of the loop: a usable client is taken as it is, a poisoned one is
\* closed first, and without one ensureConnected dials.  The read of poisoned
\* is not ordered with the goroutine's write: it may miss it.
Try ==
    /\ pc = "try"
    /\ context = "live"
    /\ \/ client # NoClient /\ pc' = "run" /\ UNCHANGED link
       \/ /\ client = NoClient \/ client.poisoned
          /\ pc' = "dial"
          /\ Close
          /\ client' = NoClient
    /\ flight' = "none"
    /\ late' = FALSE
    /\ UNCHANGED <<server, memory, context, call, ran, commands, faults>>

TryCancelled ==
    /\ pc = "try"
    /\ context = "cancelled"
    /\ Return("cancelled")
    /\ UNCHANGED <<server, link, context, command, attempt, wire, ran,
                   commands, faults>>

\* A mutant of the action below: the last attempt's error is dropped.
WaitBeforeRetry_DropsError ==
    /\ pc = "wait"
    /\ IF context = "cancelled" \/ attempt >= RetryMax
       THEN Return("ok") /\ UNCHANGED attempt
       ELSE /\ attempt' = attempt + 1
            /\ pc' = "try"
            /\ UNCHANGED <<outcome, memory>>
    /\ UNCHANGED <<server, link, context, command, wire, ran, commands, faults>>

\* The loop goes on to wait, or Do gives up after its last attempt; the wait
\* after the last attempt is made all the same.
WaitBeforeRetry ==
    /\ pc = "wait"
    /\ IF context = "cancelled" \/ attempt >= RetryMax
       THEN Return("failed") /\ UNCHANGED attempt
       ELSE /\ attempt' = attempt + 1
            /\ pc' = "try"
            /\ UNCHANGED <<outcome, memory>>
    /\ UNCHANGED <<server, link, context, command, wire, ran, commands, faults>>

-----------------------------------------------------------------------------
(* Connect, and the mailbox opened again *)

\* A stage succeeds.  The password is looked at by the server; after the
\* capabilities the client is complete, and goes to the command unless a
\* mailbox has to be opened again.
Advance ==
    /\ pc \in {"dial", "tls", "greet", "auth", "caps"}
    /\ pc = "auth" => server.accepts
    /\ pc # "dial" => ~client.closed
    /\ IF pc = "dial"
       THEN sockets' = sockets + 1 /\ client' = NewClient
       ELSE UNCHANGED link
    /\ pc' = IF pc = "caps" THEN CommandStage ELSE AfterStage[pc]
    /\ flight' = "none"
    /\ late' = FALSE
    /\ UNCHANGED <<server, memory, context, call, ran, commands, faults>>

\* A mutant of the action below: the mailbox is always opened with SELECT.
Reselect_Writable ==
    /\ pc = "reselect"
    /\ ~client.closed
    /\ selected \in server.boxes
    /\ client' = [client EXCEPT !.box = selected, !.ro = FALSE,
                                !.epoch = server.epoch]
    /\ pc' = "run"
    /\ late' = FALSE
    /\ UNCHANGED <<server, sockets, memory, context, call, flight, ran,
                   commands, faults>>

\* The server opens the remembered mailbox, as it now is, in the remembered mode.
Reselect ==
    /\ pc = "reselect"
    /\ ~client.closed
    /\ selected \in server.boxes
    /\ client' = [client EXCEPT !.box = selected, !.ro = readOnly,
                                !.epoch = server.epoch]
    /\ pc' = "run"
    /\ late' = FALSE
    /\ UNCHANGED <<server, sockets, memory, context, call, flight, ran,
                   commands, faults>>

\* A mutant of the operator below: the socket is left open.
ConnectFails_LeavesSocket(e) ==
    /\ UNCHANGED sockets
    /\ client' = NoClient
    /\ IF Severity(e) = "fatal-account"
       THEN Return(e)
       ELSE pc' = "wait" /\ UNCHANGED <<outcome, memory>>
    /\ UNCHANGED <<server, context, command, attempt, wire, ran, commands>>

\* A failed stage closes what was opened.  ensureConnected reports it, and Do
\* tries again unless the credentials were rejected.
ConnectFails(e) ==
    /\ Close
    /\ client' = NoClient
    /\ IF Severity(e) = "fatal-account"
       THEN Return(e)
       ELSE pc' = "wait" /\ UNCHANGED <<outcome, memory>>
    /\ UNCHANGED <<server, context, command, attempt, wire, ran, commands>>

\* The transport fails, or the server says no, in one of the stages.
StageFails ==
    /\ pc \in Stages
    /\ Fault
    /\ ConnectFails("net")

Rejected ==
    /\ pc = "auth"
    /\ ~client.closed
    /\ ~server.accepts
    /\ ConnectFails("auth")
    /\ UNCHANGED faults

ReselectRefused ==
    /\ pc = "reselect"
    /\ ~client.closed
    /\ selected \notin server.boxes
    /\ ConnectFails("nonexistent")
    /\ UNCHANGED faults

-----------------------------------------------------------------------------
(* A command on a connection *)

\* checkUsable lets a client pass that it does not see as poisoned.
Send ==
    /\ pc = "run"
    /\ flight = "none"
    /\ flight' = "sent"
    /\ UNCHANGED <<server, link, memory, context, pc, call, late, ran,
                   commands, faults>>

\* The server carries out the command, or refuses it.  A SELECT that is
\* refused leaves no mailbox open.
ServerAnswers ==
    /\ pc = "run"
    /\ flight = "sent"
    /\ ~client.closed
    /\ LET isSelect == command.kind = "select"
           granted == IF isSelect THEN command.box \in server.boxes
                                  ELSE client.box # None IN
          /\ flight' = IF granted THEN "done" ELSE "refused"
          /\ client' =
               IF ~isSelect THEN client
               ELSE [client EXCEPT
                        !.box = IF granted THEN command.box ELSE None,
                        !.ro = IF granted THEN command.ro ELSE FALSE,
                        !.epoch = IF granted THEN server.epoch ELSE 0]
          /\ ran' = IF granted
                    THEN ran \cup {[box |-> client'.box, ro |-> client'.ro,
                                    epoch |-> client'.epoch]}
                    ELSE ran
    /\ UNCHANGED <<server, sockets, memory, context, pc, call, late,
                   commands, faults>>

\* The answer is read; a deadline that has passed meanwhile goes unnoticed.
Succeed ==
    /\ pc = "run"
    /\ flight = "done"
    /\ Return("ok")
    /\ flight' = "none"
    /\ late' = FALSE
    /\ UNCHANGED <<server, link, context, command, attempt, ran, commands,
                   faults>>

\* withDeadline names the context as the cause of a failure when it is done.
Cause == IF ~late THEN "net" ELSE IF context = "cancelled" THEN "cancelled" ELSE "deadline"

\* The call fails with e: what a new connection cannot cure is returned and
\* the connection kept, the rest drops it and waits.
RunFails(e) ==
    /\ IF Recoverable(e)
       THEN /\ Close
            /\ client' = NoClient
            /\ pc' = "wait"
            /\ UNCHANGED <<outcome, memory>>
       ELSE Return(e) /\ UNCHANGED link
    /\ flight' = "none"
    /\ late' = FALSE
    /\ UNCHANGED <<server, context, command, attempt, ran, commands>>

Refuse ==
    /\ pc = "run"
    /\ flight = "refused"
    /\ RunFails(CASE late -> Cause
                  [] ~late /\ command.kind = "select" -> "nonexistent"
                  [] OTHER -> "no")
    /\ UNCHANGED faults

\* The deadline's goroutine has closed the connection, or checkUsable refuses
\* the client.
RunBreaks ==
    /\ pc = "run"
    /\ client.closed \/ (client.poisoned /\ flight = "none")
    /\ RunFails(Cause)
    /\ UNCHANGED faults

\* The network loses the connection, and with it the request or its answer.
ConnectionLost ==
    /\ pc = "run"
    /\ Fault
    /\ RunFails(Cause)

-----------------------------------------------------------------------------
(* Deadlines *)

Blocking == pc \in Stages \cup {"run"}

\* The context of a call is done: its deadline passed, or the caller's context
\* was cancelled.  AfterFunc starts the goroutine; before the dial has
\* returned there is nothing to close.
Expire ==
    /\ Blocking
    /\ ~late
    /\ late' = TRUE
    /\ client' = IF client.fuse = "out" /\ client # NoClient
                 THEN [client EXCEPT !.fuse = "lit"] ELSE client
    /\ UNCHANGED <<server, sockets, memory, context, pc, call, flight, ran,
                   commands, faults>>

\* The goroutine: first poisoned, then closed.
Poison ==
    /\ client.fuse = "lit"
    /\ client' = [client EXCEPT !.poisoned = TRUE, !.fuse = "burnt"]
    /\ UNCHANGED <<server, sockets, memory, context, pc, call, wire, ran,
                   commands, faults>>

\* A mutant of the action below: the goroutine leaves the connection open.
CloseAtDeadline_OnlyPoisons ==
    /\ client.fuse = "burnt"
    /\ client' = [client EXCEPT !.fuse = "out"]
    /\ UNCHANGED <<server, sockets, memory, context, pc, call, wire, ran,
                   commands, faults>>

CloseAtDeadline ==
    /\ client.fuse = "burnt"
    /\ Close
    /\ client' = [client EXCEPT !.closed = TRUE, !.fuse = "out"]
    /\ UNCHANGED <<server, memory, context, pc, call, wire, ran, commands,
                   faults>>

\* A stage returns once its connection is closed, which is how its deadline
\* reaches it, and SELECT refuses a poisoned client.
StageExpires ==
    /\ pc \in Stages
    /\ \/ client.closed /\ (late \/ client # NoClient)
       \/ client.poisoned /\ pc = "reselect"
    /\ ConnectFails("deadline")
    /\ UNCHANGED faults

-----------------------------------------------------------------------------
(* The server *)

Renumber ==
    /\ Fault
    /\ server.epoch < MaxEpoch
    /\ server' = [server EXCEPT !.epoch = @ + 1]
    /\ UNCHANGED <<link, memory, context, pc, call, wire, ran, commands>>

\* Somebody deletes a mailbox, or creates it again.
ChangeBox(b) ==
    /\ Fault
    /\ server' = [server EXCEPT !.boxes = IF b \in @ THEN @ \ {b} ELSE @ \cup {b}]
    /\ UNCHANGED <<link, memory, context, pc, call, wire, ran, commands>>

ChangePassword ==
    /\ Fault
    /\ server' = [server EXCEPT !.accepts = ~@]
    /\ UNCHANGED <<link, memory, context, pc, call, wire, ran, commands>>

-----------------------------------------------------------------------------
Init ==
    /\ server = [epoch |-> 1, boxes |-> Mailboxes, accepts |-> TRUE]
    /\ sockets = 0
    /\ client = NoClient
    /\ selected = None
    /\ readOnly = FALSE
    /\ promised = 0
    /\ context = "live"
    /\ pc = "idle"
    /\ command = [kind |-> "work", box |-> None, ro |-> FALSE]
    /\ attempt = 1
    /\ outcome = "ok"
    /\ flight = "none"
    /\ late = FALSE
    /\ ran = {}
    /\ commands = 0
    /\ faults = 0

\* What Do does by itself; the answers of the server are not its to make.
DoStep ==
    \/ Try \/ TryCancelled \/ WaitBeforeRetry
    \/ StageExpires \/ Send \/ Succeed \/ Refuse \/ RunBreaks

Next ==
    \/ \E c \in Commands : Begin(c)
    \/ DoStep
    \/ Advance \/ Reselect \/ Rejected \/ ReselectRefused \/ ServerAnswers
    \/ StageFails \/ ConnectionLost
    \/ Expire \/ Poison \/ CloseAtDeadline
    \/ Cancel \/ SessionClose
    \/ Renumber \/ ChangePassword
    \/ \E b \in Mailboxes : ChangeBox(b)

Spec == Init /\ [][Next]_vars

\* A goroutine runs on, and every deadline passes.  Nothing is asked of the
\* server: it may be silent for ever.
Fairness ==
    /\ WF_vars(DoStep)
    /\ WF_vars(Expire)
    /\ WF_vars(Poison)
    /\ WF_vars(CloseAtDeadline)

FairSpec == Spec /\ Fairness

-----------------------------------------------------------------------------
(* Properties *)

Clients == [poisoned : BOOLEAN, closed : BOOLEAN, fuse : {"out", "lit", "burnt"},
            box : Mailboxes \cup {None}, ro : BOOLEAN, epoch : 0 .. MaxEpoch]

\* The type of every variable.
TypeOK ==
    /\ server \in [epoch : 1 .. MaxEpoch, boxes : SUBSET Mailboxes, accepts : BOOLEAN]
    /\ sockets \in Int
    /\ client \in Clients
    /\ selected \in Mailboxes \cup {None}
    /\ readOnly \in BOOLEAN
    /\ promised \in 0 .. MaxEpoch
    /\ context \in {"live", "cancelled"}
    /\ pc \in Phases
    /\ command \in Commands
    /\ attempt \in Nat \ {0}
    /\ outcome \in Errors \cup {"ok", "failed"}
    /\ flight \in {"none", "sent", "done", "refused"}
    /\ late \in BOOLEAN
    /\ ran \subseteq [box : Mailboxes, ro : BOOLEAN, epoch : 0 .. MaxEpoch]
    /\ commands \in Nat
    /\ faults \in Nat

\* Whatever connection a command ends up on, and however often it is repeated
\* there, it works on the mailbox the caller selected, opened in the mode the
\* caller asked for: flags are never stored in the mailbox of an earlier
\* SELECT, and a worker that asked for EXAMINE never reads with SELECT.
RightMailbox ==
    pc # "idle" /\ command.kind # "select" =>
        \A r \in ran : r.box = selected /\ r.ro = readOnly

\* A session never has more than one connection at the server, and none that
\* it does not know of: on every way out of Connect and of a failed command
\* the socket is closed before the next dial, also when the deadline's
\* goroutine is closing it at the same time.
OneSocket == sockets = IF client.closed THEN 0 ELSE 1

\* When Do reports success, the command has taken effect during that call: the
\* success is never the late answer to something older, and no path through a
\* reconnection returns without having run the command.
SuccessIsEffect == pc = "idle" /\ outcome = "ok" /\ commands > 0 => ran # {}

\* Every call returns, even from a server that accepts the connection and then
\* says nothing: each stage of the connection, the SELECT that reopens the
\* mailbox and the command have a deadline that ends them, and the attempts
\* are counted.
EveryCallReturns == pc # "idle" ~> pc = "idle"

\* A reconnection is invisible to the caller: its commands work on the mailbox
\* as its SELECT reported it, under the UIDVALIDITY that gave the UIDs in them
\* their meaning.
SameNumbering ==
    pc # "idle" /\ command.kind # "select" => \A r \in ran : r.epoch = promised
=============================================================================
