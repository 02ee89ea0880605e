----------------------- MODULE UpstreamSessionProofs -----------------------
(***************************************************************************)
(* The safety properties of UpstreamSession for any number of mailboxes,   *)
(* attempts, calls and faults.                                             *)
(***************************************************************************)
EXTENDS UpstreamSession, TLAPS

USE ConstantsAssumption

\* Connect starts from nothing: whoever dials has no client.
DialInv == pc = "dial" => client = NoClient

\* A request is on the wire only while a command runs.
WireInv == flight # "none" => pc = "run"

\* A SELECT has been granted and Do does not know it yet.
Granted == command.kind = "select" /\ flight = "done"

\* What the connection has open is what the session remembers, or nothing.
\* While a granted SELECT is on its way back it is what the caller asked for;
\* if the caller is cancelled at that moment the two part, and no command
\* follows before the session is closed.
OpenInv ==
    /\ Granted => client.box = command.box /\ client.ro = command.ro
    /\ /\ ~Granted
       /\ context = "live" \/ (pc # "idle" /\ command.kind = "work")
       /\ client.box # None
       => client.box = selected /\ client.ro = readOnly

\* An answer that grants the command is an effect.
EffectInv == flight = "done" => ran # {}

IInv == TypeOK /\ DialInv /\ OneSocket /\ WireInv /\ OpenInv /\ RightMailbox
            /\ EffectInv /\ SuccessIsEffect

-----------------------------------------------------------------------------
(* Types *)

\* Return leaves the session's memory and the outcome in their types.
LEMMA ReturnType ==
    ASSUME TypeOK, NEW e \in Errors \cup {"ok", "failed"}, Return(e)
    PROVE  /\ pc' = "idle" /\ outcome' = e
           /\ selected' \in Mailboxes \cup {None}
           /\ readOnly' \in BOOLEAN
           /\ promised' \in 0 .. MaxEpoch
<1>1. CASE e = "ok" /\ command.kind = "select"
  <2>1. command.box \in Mailboxes /\ command.ro \in BOOLEAN
    BY <1>1 DEF TypeOK, Commands
  <2>2. client.epoch \in 0 .. MaxEpoch
    BY DEF TypeOK, Clients
  <2> QED
    BY <1>1, <2>1, <2>2 DEF Return, memory
<1>2. CASE ~(e = "ok" /\ command.kind = "select")
  BY <1>2 DEF Return, memory, TypeOK
<1> QED
  BY <1>1, <1>2

\* UIDVALIDITYs, and the value for none.
LEMMA EpochTypes == 0 \in 0 .. MaxEpoch /\ \A e \in 1 .. MaxEpoch : e \in 0 .. MaxEpoch
  OBVIOUS

\* The two values of client that are not made from another one.
LEMMA ClientTypes == NoClient \in Clients /\ NewClient \in Clients
<1>1. NoClient \in Clients
  BY EpochTypes DEF NoClient, Clients
<1>2. NewClient \in Clients
  BY <1>1 DEF NewClient, Clients
<1> QED
  BY <1>1, <1>2

\* Do goes to its wait, or returns.
LEMMA ConnectFailsType ==
    ASSUME TypeOK, NEW e \in Errors, ConnectFails(e), faults' \in Nat
    PROVE  TypeOK'
<1>1. sockets' \in Int /\ client' \in Clients
  BY ClientTypes DEF ConnectFails, Close, TypeOK
<1>2. CASE Severity(e) = "fatal-account"
  <2>1. Return(e)
    BY <1>2 DEF ConnectFails
  <2> QED
    BY <1>1, <2>1, ReturnType DEF ConnectFails, TypeOK, Phases, wire
<1>3. CASE Severity(e) # "fatal-account"
  BY <1>1, <1>3 DEF ConnectFails, TypeOK, Phases, memory, wire
<1> QED
  BY <1>2, <1>3

\* Do goes round again, waits or returns, within the types.
LEMMA RunFailsType ==
    ASSUME TypeOK, NEW e \in Errors, RunFails(e), faults' \in Nat
    PROVE  TypeOK'
<1>1. CASE Recoverable(e)
  <2>1. sockets' \in Int /\ client' \in Clients
    BY <1>1, ClientTypes DEF RunFails, Close, TypeOK
  <2> QED
    BY <1>1, <2>1 DEF RunFails, TypeOK, Phases, memory
<1>2. CASE ~Recoverable(e)
  <2>1. Return(e) /\ UNCHANGED <<sockets, client>>
    BY <1>2 DEF RunFails, link
  <2>2. /\ flight' = "none" /\ late' = FALSE
        /\ UNCHANGED <<server, context, command, attempt, ran, commands>>
    BY DEF RunFails
  <2>3. /\ pc' \in Phases /\ outcome' \in Errors \cup {"ok", "failed"}
        /\ selected' \in Mailboxes \cup {None} /\ readOnly' \in BOOLEAN
        /\ promised' \in 0 .. MaxEpoch
    BY <2>1, ReturnType DEF Phases
  <2> QED
    BY <2>1, <2>2, <2>3 DEF TypeOK
<1> QED
  BY <1>1, <1>2

\* The errors that Do sees.
LEMMA CauseType == Cause \in Errors
  BY DEF Cause, Errors

\* The type invariant is inductive by itself.
LEMMA TypeStep == TypeOK /\ [Next]_vars => TypeOK'
<1> SUFFICES ASSUME TypeOK, [Next]_vars PROVE TypeOK'
  OBVIOUS
<1>1. ASSUME NEW c \in Commands, Begin(c)
      PROVE  TypeOK'
  BY <1>1 DEF Begin, TypeOK, link, memory, call, wire, Phases
<1>2. CASE Try
  <2>1. sockets' \in Int /\ client' \in Clients
    BY <1>2, ClientTypes DEF Try, Close, TypeOK, link
  <2>2. pc' \in Phases
    BY <1>2 DEF Try, Phases, Stages
  <2> QED
    BY <1>2, <2>1, <2>2 DEF Try, TypeOK, memory, call
<1>3. CASE TryCancelled
  BY <1>3, ReturnType DEF TryCancelled, TypeOK, link, wire, Phases, Errors
<1>4. CASE WaitBeforeRetry
  <2>1. CASE context = "cancelled" \/ attempt >= RetryMax
    <3>1. Return("failed") /\ UNCHANGED attempt
      BY <1>4, <2>1 DEF WaitBeforeRetry
    <3> QED
      BY <1>4, <3>1, ReturnType DEF WaitBeforeRetry, TypeOK, link, wire, Phases
  <2>2. CASE ~(context = "cancelled" \/ attempt >= RetryMax)
    BY <1>4, <2>2 DEF WaitBeforeRetry, TypeOK, link, wire, memory, Phases
  <2> QED
    BY <2>1, <2>2
<1>5. CASE StageExpires
  BY <1>5, ConnectFailsType DEF StageExpires, Errors, TypeOK
<1>6. CASE Send
  BY <1>6 DEF Send, TypeOK, link, memory, call, wire, Phases
<1>7. CASE Succeed
  BY <1>7, ReturnType DEF Succeed, TypeOK, link, Phases
<1>8. CASE Refuse
  <2>1. PICK e \in Errors : RunFails(e)
    BY <1>8, CauseType DEF Refuse, Errors
  <2> QED
    BY <1>8, <2>1, RunFailsType DEF Refuse, TypeOK
<1>9. CASE RunBreaks
  BY <1>9, CauseType, RunFailsType DEF RunBreaks, TypeOK
<1>10. CASE Advance
  <2>1. sockets' \in Int /\ client' \in Clients
    BY <1>10, ClientTypes DEF Advance, TypeOK, link
  <2>2. pc' \in Phases
    BY <1>10 DEF Advance, CommandStage, AfterStage, Phases, Stages
  <2> QED
    BY <1>10, <2>1, <2>2 DEF Advance, TypeOK, memory, call
<1>11. CASE Reselect
  <2>1. client' \in Clients
    <3>1. server.epoch \in 0 .. MaxEpoch
      BY EpochTypes DEF TypeOK
    <3> QED
      BY <1>11, <3>1 DEF Reselect, TypeOK, Clients
  <2> QED
    BY <1>11, <2>1 DEF Reselect, TypeOK, memory, call, Phases
<1>12. CASE Rejected
  BY <1>12, ConnectFailsType DEF Rejected, Errors, TypeOK
<1>13. CASE ReselectRefused
  BY <1>13, ConnectFailsType DEF ReselectRefused, Errors, TypeOK
<1>14. CASE ServerAnswers
  <2>1. CASE command.kind = "select"
    <3>1. command.box \in Mailboxes /\ command.ro \in BOOLEAN
      BY <2>1 DEF TypeOK, Commands
    <3>2. CASE command.box \in server.boxes
      <4>1. /\ client' = [client EXCEPT !.box = command.box, !.ro = command.ro,
                                        !.epoch = server.epoch]
            /\ ran' = ran \cup {[box |-> client'.box, ro |-> client'.ro, epoch |-> client'.epoch]}
            /\ flight' = "done"
        BY <1>14, <2>1, <3>2 DEF ServerAnswers
      <4>2. client' \in Clients /\ client'.box \in Mailboxes
        <5>1. server.epoch \in 0 .. MaxEpoch
          BY EpochTypes DEF TypeOK
        <5> QED
          BY <3>1, <4>1, <5>1 DEF TypeOK, Clients
      <4>3. ran' \subseteq [box : Mailboxes, ro : BOOLEAN, epoch : 0 .. MaxEpoch]
        <5>1. client'.ro \in BOOLEAN /\ client'.epoch \in 0 .. MaxEpoch
          BY <4>2 DEF Clients
        <5> QED
          BY <4>1, <4>2, <5>1 DEF TypeOK
      <4> QED
        BY <1>14, <4>1, <4>2, <4>3 DEF ServerAnswers, TypeOK, memory, call
    <3>3. CASE command.box \notin server.boxes
      <4>1. /\ client' = [client EXCEPT !.box = None, !.ro = FALSE, !.epoch = 0]
            /\ ran' = ran
            /\ flight' = "refused"
        BY <1>14, <2>1, <3>3 DEF ServerAnswers
      <4>2. client' \in Clients
        BY <4>1, EpochTypes DEF TypeOK, Clients
      <4> QED
        BY <1>14, <4>1, <4>2 DEF ServerAnswers, TypeOK, memory, call
    <3> QED
      BY <3>2, <3>3
  <2>2. CASE command.kind # "select"
    <3>1. /\ client' = client
          /\ flight' \in {"done", "refused"}
          /\ ran' = IF client.box # None
                    THEN ran \cup {[box |-> client.box, ro |-> client.ro, epoch |-> client.epoch]}
                    ELSE ran
      BY <1>14, <2>2 DEF ServerAnswers
    <3>2. ran' \subseteq [box : Mailboxes, ro : BOOLEAN, epoch : 0 .. MaxEpoch]
      BY <3>1 DEF TypeOK, Clients
    <3> QED
      BY <1>14, <3>1, <3>2 DEF ServerAnswers, TypeOK, memory, call
  <2> QED
    BY <2>1, <2>2
<1>15. CASE StageFails
  BY <1>15, ConnectFailsType DEF StageFails, Errors, Fault, TypeOK
<1>16. CASE ConnectionLost
  BY <1>16, CauseType, RunFailsType DEF ConnectionLost, Fault, TypeOK
<1>17. CASE Expire
  <2>1. client' \in Clients
    BY <1>17 DEF Expire, TypeOK, Clients
  <2> QED
    BY <1>17, <2>1 DEF Expire, TypeOK, memory, call
<1>18. CASE Poison
  <2>1. client' \in Clients
    BY <1>18 DEF Poison, TypeOK, Clients
  <2> QED
    BY <1>18, <2>1 DEF Poison, TypeOK, memory, call, wire
<1>19. CASE CloseAtDeadline
  <2>1. client' \in Clients /\ sockets' \in Int
    <3>1. client' \in Clients
      BY <1>19 DEF CloseAtDeadline, TypeOK, Clients
    <3> QED
      BY <1>19, <3>1 DEF CloseAtDeadline, Close, TypeOK
  <2> QED
    BY <1>19, <2>1 DEF CloseAtDeadline, TypeOK, memory, call, wire
<1>20. CASE Cancel
  BY <1>20 DEF Cancel, Fault, TypeOK, link, memory, call, wire
<1>21. CASE SessionClose
  <2>1. client' \in Clients /\ sockets' \in Int
    BY <1>21, ClientTypes DEF SessionClose, Close, TypeOK
  <2> QED
    BY <1>21, <2>1, EpochTypes DEF SessionClose, TypeOK, call, wire
<1>22. CASE Renumber
  BY <1>22 DEF Renumber, Fault, TypeOK, link, memory, call, wire
<1>23. CASE ChangePassword
  <2>1. server' \in [epoch : 1 .. MaxEpoch, boxes : SUBSET Mailboxes, accepts : BOOLEAN]
    BY <1>23 DEF ChangePassword, TypeOK
  <2> QED
    BY <1>23, <2>1 DEF ChangePassword, Fault, TypeOK, link, memory, call, wire
<1>24. ASSUME NEW b \in Mailboxes, ChangeBox(b)
      PROVE  TypeOK'
  BY <1>24 DEF ChangeBox, Fault, TypeOK, link, memory, call, wire
<1>25. CASE UNCHANGED vars
  BY <1>25 DEF vars, TypeOK, link, memory, call, wire
<1> QED
  BY <1>1, <1>2, <1>3, <1>4, <1>5, <1>6, <1>7, <1>8, <1>9, <1>10, <1>11, <1>12,
     <1>13, <1>14, <1>15, <1>16, <1>17, <1>18, <1>19, <1>20, <1>21, <1>22, <1>23,
     <1>24, <1>25 DEF Next, DoStep

-----------------------------------------------------------------------------
(* Sockets *)

SocketInv == DialInv /\ OneSocket

\* Closing and forgetting the client leaves no socket.
LEMMA Dropped ==
    ASSUME OneSocket, Close, client' = NoClient
    PROVE  SocketInv'
  BY DEF OneSocket, Close, NoClient, SocketInv, DialInv

\* A step that keeps the link and does not dial.
LEMMA LinkKept ==
    ASSUME SocketInv, UNCHANGED <<sockets, client>>, pc' = "dial" => pc = "dial"
    PROVE  SocketInv'
  BY DEF SocketInv, DialInv, OneSocket

\* However Do goes on after an error of a command, the sockets are right.
LEMMA RunFailsSockets ==
    ASSUME SocketInv, NEW e, RunFails(e)
    PROVE  SocketInv'
<1>1. CASE Recoverable(e)
  BY <1>1, Dropped DEF RunFails, SocketInv
<1>2. CASE ~Recoverable(e)
  <2>1. UNCHANGED <<sockets, client>> /\ pc' = "idle"
    BY <1>2 DEF RunFails, Return, link
  <2> QED
    BY <2>1, LinkKept
<1> QED
  BY <1>1, <1>2

\* No step dials with a client in hand or leaves a second socket.
LEMMA SocketStep == TypeOK /\ SocketInv /\ [Next]_vars => SocketInv'
<1> SUFFICES ASSUME TypeOK, SocketInv, [Next]_vars PROVE SocketInv'
  OBVIOUS
<1>1. ASSUME NEW c \in Commands, Begin(c)
      PROVE  SocketInv'
  BY <1>1, LinkKept DEF Begin, link
<1>2. CASE Try
  <2>1. CASE client # NoClient /\ pc' = "run" /\ UNCHANGED link
    BY <2>1, LinkKept DEF link
  <2>2. CASE Close /\ client' = NoClient
    BY <2>2, Dropped DEF SocketInv
  <2> QED
    BY <1>2, <2>1, <2>2 DEF Try
<1>3. CASE TryCancelled
  BY <1>3, LinkKept DEF TryCancelled, Return, link
<1>4. CASE WaitBeforeRetry
  BY <1>4, LinkKept DEF WaitBeforeRetry, Return, link
<1>5. CASE StageExpires
  BY <1>5, Dropped DEF StageExpires, ConnectFails, SocketInv
<1>6. CASE Send
  BY <1>6, LinkKept DEF Send, link
<1>7. CASE Succeed
  BY <1>7, LinkKept DEF Succeed, Return, link
<1>8. CASE Refuse
  BY <1>8, RunFailsSockets DEF Refuse
<1>9. CASE RunBreaks
  BY <1>9, RunFailsSockets DEF RunBreaks
<1>10. CASE Advance
  <2>1. pc' # "dial"
    BY <1>10 DEF Advance, CommandStage, AfterStage
  <2>2. CASE pc = "dial"
    BY <1>10, <2>1, <2>2 DEF Advance, SocketInv, DialInv, OneSocket, NewClient, NoClient
  <2>3. CASE pc # "dial"
    BY <1>10, <2>1, <2>3, LinkKept DEF Advance, link
  <2> QED
    BY <2>2, <2>3
<1>11. CASE Reselect
  <2>1. client'.closed = client.closed
    BY <1>11 DEF Reselect, TypeOK, Clients
  <2> QED
    BY <1>11, <2>1 DEF Reselect, SocketInv, DialInv, OneSocket
<1>12. CASE Rejected
  BY <1>12, Dropped DEF Rejected, ConnectFails, SocketInv
<1>13. CASE ReselectRefused
  BY <1>13, Dropped DEF ReselectRefused, ConnectFails, SocketInv
<1>14. CASE ServerAnswers
  <2>1. client'.closed = client.closed
    BY <1>14 DEF ServerAnswers, TypeOK, Clients
  <2> QED
    BY <1>14, <2>1 DEF ServerAnswers, SocketInv, DialInv, OneSocket
<1>15. CASE StageFails
  BY <1>15, Dropped DEF StageFails, ConnectFails, SocketInv
<1>16. CASE ConnectionLost
  BY <1>16, RunFailsSockets DEF ConnectionLost
<1>17. CASE Expire
  <2>1. client'.closed = client.closed /\ (client = NoClient => client' = client)
    BY <1>17 DEF Expire, TypeOK, Clients
  <2> QED
    BY <1>17, <2>1 DEF Expire, SocketInv, DialInv, OneSocket
<1>18. CASE Poison
  <2>1. client'.closed = client.closed /\ client # NoClient
    BY <1>18 DEF Poison, TypeOK, Clients, NoClient
  <2> QED
    BY <1>18, <2>1 DEF Poison, SocketInv, DialInv, OneSocket
<1>19. CASE CloseAtDeadline
  <2>1. client'.closed = TRUE /\ client # NoClient
    BY <1>19 DEF CloseAtDeadline, TypeOK, Clients, NoClient
  <2> QED
    BY <1>19, <2>1 DEF CloseAtDeadline, Close, SocketInv, DialInv, OneSocket
<1>20. CASE Cancel
  BY <1>20, LinkKept DEF Cancel, link
<1>21. CASE SessionClose
  BY <1>21, Dropped DEF SessionClose, SocketInv
<1>22. CASE Renumber
  BY <1>22, LinkKept DEF Renumber, link
<1>23. CASE ChangePassword
  BY <1>23, LinkKept DEF ChangePassword, link
<1>24. ASSUME NEW b \in Mailboxes, ChangeBox(b)
      PROVE  SocketInv'
  BY <1>24, LinkKept DEF ChangeBox, link
<1>25. CASE UNCHANGED vars
  BY <1>25, LinkKept DEF vars, link
<1> QED
  BY <1>1, <1>2, <1>3, <1>4, <1>5, <1>6, <1>7, <1>8, <1>9, <1>10, <1>11, <1>12,
     <1>13, <1>14, <1>15, <1>16, <1>17, <1>18, <1>19, <1>20, <1>21, <1>22, <1>23,
     <1>24, <1>25 DEF Next, DoStep

-----------------------------------------------------------------------------
(* Mailboxes *)

MailboxInv == WireInv /\ OpenInv /\ RightMailbox

\* A command is a SELECT or work on the open mailbox.
LEMMA CommandKinds ==
    ASSUME TypeOK
    PROVE  command.kind \in {"select", "work"}
  BY DEF TypeOK, Commands

\* Whatever forgets the client and is not at a command leaves nothing open.
LEMMA NothingOpen ==
    ASSUME MailboxInv, client' = NoClient, flight' = "none",
           UNCHANGED <<selected, readOnly, command, ran>>, pc' # "idle" => pc # "idle"
    PROVE  MailboxInv'
  BY DEF MailboxInv, WireInv, OpenInv, RightMailbox, Granted, NoClient

\* Return of an error, on a connection that is kept.
LEMMA ReturnKeeps ==
    ASSUME MailboxInv, NEW e, e # "ok", Return(e), flight' = "none",
           UNCHANGED <<client, command, context, ran>>,
           flight = "done" => context = "cancelled"
    PROVE  MailboxInv'
<1>1. pc' = "idle" /\ UNCHANGED <<selected, readOnly>>
  BY DEF Return, memory
<1>2. WireInv' /\ RightMailbox'
  BY <1>1 DEF WireInv, RightMailbox
<1>3. OpenInv'
  BY <1>1 DEF MailboxInv, OpenInv, Granted
<1> QED
  BY <1>2, <1>3 DEF MailboxInv

\* A connection that fails leaves nothing open that the session forgot.
LEMMA ConnectFailsMailbox ==
    ASSUME TypeOK, MailboxInv, NEW e \in Errors, ConnectFails(e), pc \in Stages
    PROVE  MailboxInv'
<1>1. flight = "none" /\ flight' = "none" /\ pc # "idle"
  BY DEF MailboxInv, WireInv, Stages, ConnectFails, wire
<1>2. CASE Severity(e) = "fatal-account"
  <2>1. UNCHANGED <<selected, readOnly>> /\ pc' = "idle"
    BY <1>2 DEF ConnectFails, Return, memory, Errors
  <2> QED
    BY <1>1, <2>1, NothingOpen DEF ConnectFails
<1>3. CASE Severity(e) # "fatal-account"
  BY <1>1, <1>3, NothingOpen DEF ConnectFails, memory
<1> QED
  BY <1>2, <1>3

\* A SELECT that was granted and breaks off is repeated, or its caller is gone.
LEMMA RunFailsMailbox ==
    ASSUME TypeOK, MailboxInv, pc = "run",
           NEW e \in Errors, RunFails(e),
           flight = "done" => e = Cause
    PROVE  MailboxInv'
<1>1. CASE Recoverable(e)
  BY <1>1, NothingOpen DEF RunFails, memory
<1>2. CASE ~Recoverable(e)
  <2>1. flight = "done" => context = "cancelled"
    BY <1>2 DEF Recoverable, Severity, Cause
  <2>2. e # "ok"
    BY DEF Errors
  <2> QED
    BY <1>2, <2>1, <2>2, ReturnKeeps DEF RunFails, link
<1> QED
  BY <1>1, <1>2

\* Every step keeps what the connection has open and what the session
\* remembers together, and with them the mailbox of every effect.
LEMMA MailboxStep == TypeOK /\ MailboxInv /\ [Next]_vars => MailboxInv'
<1> SUFFICES ASSUME TypeOK, MailboxInv, [Next]_vars PROVE MailboxInv'
  OBVIOUS
<1> USE CommandKinds
<1>1. ASSUME NEW c \in Commands, Begin(c)
      PROVE  MailboxInv'
  BY <1>1
     DEF Begin, MailboxInv, WireInv, OpenInv, RightMailbox, Granted, link, memory,
         wire
<1>2. CASE Try
  <2>0. flight = "none"
    BY <1>2 DEF Try, MailboxInv, WireInv
  <2>1. CASE client # NoClient /\ pc' = "run" /\ UNCHANGED link
    BY <1>2, <2>0, <2>1
       DEF Try, link, memory, call, MailboxInv, WireInv, OpenInv, RightMailbox,
           Granted
  <2>2. CASE client' = NoClient
    BY <1>2, <2>2, NothingOpen DEF Try, memory, call
  <2> QED
    BY <1>2, <2>1, <2>2 DEF Try
<1>3. CASE TryCancelled
  <2>1. flight = "none"
    BY <1>3 DEF TryCancelled, MailboxInv, WireInv
  <2> QED
    BY <1>3, <2>1, ReturnKeeps DEF TryCancelled, link, wire
<1>4. CASE WaitBeforeRetry
  <2>0. flight = "none" /\ flight' = "none"
    BY <1>4 DEF WaitBeforeRetry, MailboxInv, WireInv, wire
  <2>1. CASE context = "cancelled" \/ attempt >= RetryMax
    <3>1. Return("failed")
      BY <1>4, <2>1 DEF WaitBeforeRetry
    <3> QED
      BY <1>4, <2>0, <3>1, ReturnKeeps DEF WaitBeforeRetry, link
  <2>2. CASE ~(context = "cancelled" \/ attempt >= RetryMax)
    BY <1>4, <2>0, <2>2
       DEF WaitBeforeRetry, link, memory, MailboxInv, WireInv, OpenInv, RightMailbox,
           Granted
  <2> QED
    BY <2>1, <2>2
<1>5. CASE StageExpires
  BY <1>5, ConnectFailsMailbox DEF StageExpires, Errors
<1>6. CASE Send
  BY <1>6
     DEF Send, MailboxInv, WireInv, OpenInv, RightMailbox, Granted, link, memory, call
<1>7. CASE Succeed
  <2>1. CASE command.kind = "select"
    <3>1. selected' = command.box /\ readOnly' = command.ro /\ pc' = "idle"
      BY <1>7, <2>1 DEF Succeed, Return
    <3>2. client.box = command.box /\ client.ro = command.ro
      BY <1>7, <2>1 DEF Succeed, MailboxInv, OpenInv, Granted
    <3> QED
      BY <1>7, <3>1, <3>2
         DEF Succeed, link, MailboxInv, WireInv, OpenInv, RightMailbox, Granted
  <2>2. CASE command.kind # "select"
    BY <1>7, <2>2
       DEF Succeed, Return, link, memory, MailboxInv, WireInv, OpenInv, RightMailbox,
           Granted
  <2> QED
    BY <2>1, <2>2
<1>8. CASE Refuse
  <2>1. PICK e \in Errors : RunFails(e)
    BY <1>8, CauseType DEF Refuse, Errors
  <2> QED
    BY <1>8, <2>1, RunFailsMailbox DEF Refuse
<1>9. CASE RunBreaks
  BY <1>9, CauseType, RunFailsMailbox DEF RunBreaks
<1>10. CASE Advance
  <2>0. flight = "none" /\ pc # "idle" /\ pc' # "idle"
    BY <1>10 DEF Advance, MailboxInv, WireInv, CommandStage, AfterStage
  <2>1. (client'.box = client.box /\ client'.ro = client.ro) \/ client'.box = None
    BY <1>10 DEF Advance, link, NewClient, NoClient
  <2> QED
    BY <1>10, <2>0, <2>1
       DEF Advance, memory, call, MailboxInv, WireInv, OpenInv, RightMailbox, Granted
<1>11. CASE Reselect
  <2>1. client'.box = selected /\ client'.ro = readOnly
    BY <1>11 DEF Reselect, TypeOK, Clients
  <2>2. flight = "none"
    BY <1>11 DEF Reselect, MailboxInv, WireInv
  <2> QED
    BY <1>11, <2>1, <2>2
       DEF Reselect, memory, call, MailboxInv, WireInv, OpenInv, RightMailbox, Granted
<1>12. CASE Rejected
  BY <1>12, ConnectFailsMailbox DEF Rejected, Errors, Stages
<1>13. CASE ReselectRefused
  BY <1>13, ConnectFailsMailbox DEF ReselectRefused, Errors, Stages
<1>14. CASE ServerAnswers
  <2>1. CASE command.kind = "select"
    <3>1. \/ flight' = "done" /\ client'.box = command.box /\ client'.ro = command.ro
          \/ flight' = "refused" /\ client'.box = None
      BY <1>14, <2>1 DEF ServerAnswers, TypeOK, Clients
    <3> QED
      BY <1>14, <2>1, <3>1
         DEF ServerAnswers, memory, call, MailboxInv, WireInv, OpenInv, RightMailbox,
             Granted
  <2>2. CASE command.kind = "work"
    <3>1. /\ client' = client
          /\ \A r \in ran' : r \in ran \/ (r.box = client.box /\ r.ro = client.ro /\ client.box # None)
      BY <1>14, <2>2 DEF ServerAnswers
    <3>2. ~Granted /\ client.box # None => client.box = selected /\ client.ro = readOnly
      BY <1>14, <2>2 DEF ServerAnswers, MailboxInv, OpenInv
    <3>3. ~Granted /\ ~Granted'
      BY <1>14, <2>2 DEF ServerAnswers, call, Granted
    <3>4. RightMailbox'
      BY <1>14, <2>2, <3>1, <3>2, <3>3
         DEF ServerAnswers, memory, call, MailboxInv, RightMailbox
    <3> QED
      BY <1>14, <2>2, <3>1, <3>2, <3>3, <3>4
         DEF ServerAnswers, memory, call, MailboxInv, WireInv, OpenInv
  <2> QED
    BY <2>1, <2>2
<1>15. CASE StageFails
  BY <1>15, ConnectFailsMailbox DEF StageFails, Errors
<1>16. CASE ConnectionLost
  BY <1>16, CauseType, RunFailsMailbox DEF ConnectionLost
<1>17. CASE Expire
  <2>1. client'.box = client.box /\ client'.ro = client.ro
    BY <1>17 DEF Expire, TypeOK, Clients
  <2> QED
    BY <1>17, <2>1
       DEF Expire, memory, call, MailboxInv, WireInv, OpenInv, RightMailbox, Granted
<1>18. CASE Poison
  <2>1. client'.box = client.box /\ client'.ro = client.ro
    BY <1>18 DEF Poison, TypeOK, Clients
  <2> QED
    BY <1>18, <2>1
       DEF Poison, memory, call, wire, MailboxInv, WireInv, OpenInv, RightMailbox,
           Granted
<1>19. CASE CloseAtDeadline
  <2>1. client'.box = client.box /\ client'.ro = client.ro
    BY <1>19 DEF CloseAtDeadline, TypeOK, Clients
  <2> QED
    BY <1>19, <2>1
       DEF CloseAtDeadline, memory, call, wire, MailboxInv, WireInv, OpenInv,
           RightMailbox, Granted
<1>20. CASE Cancel
  BY <1>20
     DEF Cancel, MailboxInv, WireInv, OpenInv, RightMailbox, Granted, link, memory,
         call, wire
<1>21. CASE SessionClose
  <2>1. flight = "none" /\ flight' = "none" /\ pc' = "idle"
    BY <1>21 DEF SessionClose, MailboxInv, WireInv, wire
  <2> QED
    BY <1>21, <2>1
       DEF SessionClose, call, NoClient, MailboxInv, WireInv, OpenInv, RightMailbox,
           Granted
<1>22. CASE Renumber
  BY <1>22
     DEF Renumber, MailboxInv, WireInv, OpenInv, RightMailbox, Granted, link, memory,
         call, wire
<1>23. CASE ChangePassword
  BY <1>23
     DEF ChangePassword, MailboxInv, WireInv, OpenInv, RightMailbox, Granted, link,
         memory, call, wire
<1>24. ASSUME NEW b \in Mailboxes, ChangeBox(b)
      PROVE  MailboxInv'
  BY <1>24
     DEF ChangeBox, MailboxInv, WireInv, OpenInv, RightMailbox, Granted, link,
         memory, call, wire
<1>25. CASE UNCHANGED vars
  BY <1>25
     DEF vars, link, memory, call, wire, MailboxInv, WireInv, OpenInv, RightMailbox,
         Granted
<1> QED
  BY <1>1, <1>2, <1>3, <1>4, <1>5, <1>6, <1>7, <1>8, <1>9, <1>10, <1>11, <1>12,
     <1>13, <1>14, <1>15, <1>16, <1>17, <1>18, <1>19, <1>20, <1>21, <1>22, <1>23,
     <1>24, <1>25 DEF Next, DoStep

-----------------------------------------------------------------------------
(* Effects *)

\* An error is not a success.
LEMMA ReturnError ==
    ASSUME NEW e \in Errors, Return(e)
    PROVE  outcome' # "ok" /\ pc' = "idle"
  BY DEF Return, Errors

\* Success is claimed only where there was an effect.
LEMMA EffectStep == TypeOK /\ EffectInv /\ SuccessIsEffect /\ WireInv /\ [Next]_vars
                        => EffectInv' /\ SuccessIsEffect'
<1> SUFFICES ASSUME TypeOK, EffectInv, SuccessIsEffect, WireInv, [Next]_vars
             PROVE  EffectInv' /\ SuccessIsEffect'
  OBVIOUS
<1>1. ASSUME NEW c \in Commands, Begin(c)
      PROVE  EffectInv' /\ SuccessIsEffect'
  BY <1>1 DEF Begin, EffectInv, SuccessIsEffect, wire, WireInv
<1>2. CASE Try
  BY <1>2 DEF Try, EffectInv, SuccessIsEffect, call, wire
<1>3. CASE TryCancelled
  BY <1>3 DEF TryCancelled, EffectInv, SuccessIsEffect, Return, wire
<1>4. CASE WaitBeforeRetry
  BY <1>4 DEF WaitBeforeRetry, EffectInv, SuccessIsEffect, Return, wire
<1>5. CASE StageExpires
  BY <1>5, ReturnError
     DEF StageExpires, ConnectFails, wire, Errors, Stages, WireInv, EffectInv,
         SuccessIsEffect
<1>6. CASE Send
  BY <1>6 DEF Send, EffectInv, SuccessIsEffect, call, wire
<1>7. CASE Succeed
  BY <1>7 DEF Succeed, EffectInv, SuccessIsEffect, Return
<1>8. CASE Refuse
  <2>1. PICK e \in Errors : RunFails(e)
    BY <1>8, CauseType DEF Refuse, Errors
  <2> QED
    BY <1>8, <2>1, ReturnError DEF Refuse, RunFails, EffectInv, SuccessIsEffect
<1>9. CASE RunBreaks
  BY <1>9, CauseType, ReturnError DEF RunBreaks, RunFails, EffectInv, SuccessIsEffect
<1>10. CASE Advance
  BY <1>10 DEF Advance, EffectInv, SuccessIsEffect, AfterStage, CommandStage
<1>11. CASE Reselect
  BY <1>11 DEF Reselect, EffectInv, SuccessIsEffect, call, wire
<1>12. CASE Rejected
  BY <1>12, ReturnError
     DEF Rejected, ConnectFails, wire, Errors, Stages, WireInv, EffectInv,
         SuccessIsEffect
<1>13. CASE ReselectRefused
  BY <1>13, ReturnError
     DEF ReselectRefused, ConnectFails, wire, Errors, Stages, WireInv, EffectInv,
         SuccessIsEffect
<1>14. CASE ServerAnswers
  BY <1>14 DEF ServerAnswers, EffectInv, SuccessIsEffect, call, wire
<1>15. CASE StageFails
  BY <1>15, ReturnError
     DEF StageFails, ConnectFails, wire, Errors, Stages, WireInv, EffectInv,
         SuccessIsEffect
<1>16. CASE ConnectionLost
  BY <1>16, CauseType, ReturnError
     DEF ConnectionLost, RunFails, EffectInv, SuccessIsEffect
<1>17. CASE Expire
  BY <1>17 DEF Expire, EffectInv, SuccessIsEffect, call, wire
<1>18. CASE Poison
  BY <1>18 DEF Poison, EffectInv, SuccessIsEffect, call, wire
<1>19. CASE CloseAtDeadline
  BY <1>19 DEF CloseAtDeadline, EffectInv, SuccessIsEffect, call, wire
<1>20. CASE Cancel
  BY <1>20 DEF Cancel, EffectInv, SuccessIsEffect, call, wire
<1>21. CASE SessionClose
  BY <1>21 DEF SessionClose, EffectInv, SuccessIsEffect, call, wire
<1>22. CASE Renumber
  BY <1>22 DEF Renumber, EffectInv, SuccessIsEffect, call, wire
<1>23. CASE ChangePassword
  BY <1>23 DEF ChangePassword, EffectInv, SuccessIsEffect, call, wire
<1>24. ASSUME NEW b \in Mailboxes, ChangeBox(b)
      PROVE  EffectInv' /\ SuccessIsEffect'
  BY <1>24 DEF ChangeBox, EffectInv, SuccessIsEffect, call, wire
<1>25. CASE UNCHANGED vars
  BY <1>25 DEF vars, call, wire, EffectInv, SuccessIsEffect
<1> QED
  BY <1>1, <1>2, <1>3, <1>4, <1>5, <1>6, <1>7, <1>8, <1>9, <1>10, <1>11, <1>12,
     <1>13, <1>14, <1>15, <1>16, <1>17, <1>18, <1>19, <1>20, <1>21, <1>22, <1>23,
     <1>24, <1>25 DEF Next, DoStep

-----------------------------------------------------------------------------
(* Theorems *)

\* A new session satisfies the invariant.
LEMMA InitInv == Init => IInv
<1> SUFFICES ASSUME Init PROVE IInv
  OBVIOUS
<1>1. TypeOK
  <2>1. server \in [epoch : 1 .. MaxEpoch, boxes : SUBSET Mailboxes, accepts : BOOLEAN]
    BY DEF Init
  <2>2. command \in Commands
    BY DEF Init, Commands
  <2>3. /\ sockets \in Int /\ attempt \in Nat \ {0} /\ commands \in Nat /\ faults \in Nat
        /\ promised \in 0 .. MaxEpoch
    BY DEF Init
  <2>4. /\ client \in Clients /\ selected \in Mailboxes \cup {None} /\ readOnly \in BOOLEAN
        /\ context \in {"live", "cancelled"} /\ late \in BOOLEAN
        /\ flight \in {"none", "sent", "done", "refused"}
        /\ ran \subseteq [box : Mailboxes, ro : BOOLEAN, epoch : 0 .. MaxEpoch]
    BY ClientTypes DEF Init
  <2>5. pc \in Phases /\ outcome \in Errors \cup {"ok", "failed"}
    BY DEF Init, Phases
  <2> QED
    BY <2>1, <2>2, <2>3, <2>4, <2>5 DEF TypeOK
<1>2. DialInv /\ OneSocket /\ WireInv /\ OpenInv /\ RightMailbox /\ EffectInv /\ SuccessIsEffect
  BY DEF Init, DialInv, OneSocket, WireInv, OpenInv, Granted, RightMailbox, EffectInv,
         SuccessIsEffect, NoClient
<1> QED
  BY <1>1, <1>2 DEF IInv

\* The invariant holds throughout.
LEMMA Inductive == Spec => []IInv
<1>1. IInv /\ [Next]_vars => IInv'
  BY TypeStep, SocketStep, MailboxStep, EffectStep DEF IInv, SocketInv, MailboxInv
<1> QED
  BY InitInv, <1>1, PTL DEF Spec

\* Every variable of the session keeps its type, and the attempts are counted
\* from one.
THEOREM TypeCorrect == Spec => []TypeOK
<1>1. IInv => TypeOK
  BY DEF IInv
<1> QED
  BY Inductive, <1>1, PTL

\* A session has the one socket it knows of, whatever the deadline's goroutine
\* closes beside Connect, Do and Close.
THEOREM OneSocketCorrect == Spec => []OneSocket
<1>1. IInv => OneSocket
  BY DEF IInv
<1> QED
  BY Inductive, <1>1, PTL

\* However often a command of the caller is repeated and reconnected, it takes
\* effect only in the mailbox and mode of the caller's last SELECT.
THEOREM RightMailboxCorrect == Spec => []RightMailbox
<1>1. IInv => RightMailbox
  BY DEF IInv
<1> QED
  BY Inductive, <1>1, PTL

\* Do returns success only from a call during which its command took effect.
THEOREM SuccessCorrect == Spec => []SuccessIsEffect
<1>1. IInv => SuccessIsEffect
  BY DEF IInv
<1> QED
  BY Inductive, <1>1, PTL
=============================================================================
