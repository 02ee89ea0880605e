------------------------- MODULE ImapSessionProofs -------------------------
(***************************************************************************)
(* The safety properties of ImapSession for any number of mailboxes,       *)
(* messages, commands and faults.                                          *)
(***************************************************************************)
EXTENDS ImapSession, FiniteSetTheorems, WellFoundedInduction, TLAPS

USE ConstantsAssumption

\* Lists have a length.
FiniteInv == IsFiniteSet(rows) /\ IsFiniteSet(snapshot)

\* A UID that was given lies below the mailbox's counter, its row there or not.
GivenInv ==
    \A m \in Messages : given[m] # <<None, 0>> => given[m][2] < uidNext[given[m][1]]

\* From the moment a SELECT has read UIDNEXT the counter has not fallen below it.
PromiseInv ==
    /\ pc = "select" => conn = "authenticated"
    /\ pc = "select" \/ conn = "selected" =>
          mailbox \in Mailboxes /\ promised <= uidNext[mailbox]

\* A STORE has at most one change that is written and not queued, that of the
\* row it has come to.
QueueInv ==
    /\ pc \notin {"ready", "enqueue"} => unqueued = {}
    /\ pc = "enqueue" => unqueued = {NextRow.uid}

IInv == /\ TypeOK /\ FiniteInv
        /\ GivenInv /\ UIDsPermanent
        /\ PromiseInv /\ UIDNextHolds
        /\ QueueInv /\ NoSilentDivergence

-----------------------------------------------------------------------------
(* Types *)

\* Every set of rows has a first one, the one STORE comes to.
LEMMA FirstRow ==
    ASSUME todo \subseteq Rows, todo # {}
    PROVE  NextRow \in todo
<1> DEFINE U == UIDsOf(todo)
<1>1. U \subseteq Nat /\ U # {}
   BY DEF UIDsOf, Rows
<1>2. \E x \in U : \A y \in U : ~(<<y, x>> \in OpToRel(<, Nat))
   BY <1>1, NatLessThanWellFounded, WFMin
<1>3. PICK x \in U : \A y \in U : ~(<<y, x>> \in OpToRel(<, Nat))
   BY <1>2
<1>4. \A y \in U : x <= y
  <2>1. \A y, z \in Nat : y < z => <<y, z>> \in OpToRel(<, Nat)
     BY Zenon DEF OpToRel
  <2>2. \A y \in U : ~(y < x)
     BY <1>1, <1>3, <2>1, Zenon
  <2>3. QED
     BY <1>1, <2>2
<1>5. PICK r \in todo : r.uid = x
   BY <1>3 DEF UIDsOf
<1>6. \A q \in todo : r.uid <= q.uid
   BY <1>4, <1>5 DEF UIDsOf
<1>7. QED
   BY <1>6 DEF NextRow

\* What FETCH and STORE tell of a list are numbers and UIDs.
LEMMA PairsType ==
    ASSUME NEW S, S \subseteq Rows, IsFiniteSet(S), NEW T, T \subseteq S
    PROVE  Pairs(S, T) \subseteq Nat \X (1 .. MaxUID)
<1>1. \A r \in T : Position(S, r) \in Nat
  <2> TAKE r \in T
  <2>1. {q \in S : q.uid <= r.uid} \in SUBSET S
     OBVIOUS
  <2>2. IsFiniteSet({q \in S : q.uid <= r.uid})
     BY <2>1, FS_Subset
  <2>3. QED
     BY <2>2, FS_CardinalityType DEF Position
<1>2. \A r \in T : r.uid \in 1 .. MaxUID
   BY DEF Rows
<1>3. QED
   BY <1>1, <1>2 DEF Pairs

\* The rows of a mailbox are a finite list, and its UIDs are UIDs.
LEMMA ListType ==
    ASSUME TypeOK, FiniteInv, NEW b
    PROVE  /\ RowsOf(b) \subseteq Rows
           /\ IsFiniteSet(RowsOf(b))
           /\ Cardinality(RowsOf(b)) \in Nat
           /\ UIDsOf(RowsOf(b)) \subseteq 1 .. MaxUID
<1>1. RowsOf(b) \in SUBSET rows
   BY DEF RowsOf
<1>2. IsFiniteSet(RowsOf(b))
   BY <1>1, FS_Subset DEF FiniteInv
<1>3. RowsOf(b) \subseteq Rows
   BY <1>1 DEF TypeOK
<1>4. Cardinality(RowsOf(b)) \in Nat
   BY <1>2, FS_CardinalityType
<1>5. UIDsOf(RowsOf(b)) \subseteq 1 .. MaxUID
   BY <1>3 DEF UIDsOf, Rows
<1>6. QED
   BY <1>2, <1>3, <1>4, <1>5

\* A refresh leaves a finite list of rows, and a length.
LEMMA RefreshType ==
    ASSUME TypeOK, FiniteInv, Refresh
    PROVE  /\ snapshot' \subseteq Rows
           /\ IsFiniteSet(snapshot')
           /\ exists' \in Nat
<1>1. CASE mailbox = None
   BY <1>1 DEF Refresh, TypeOK, FiniteInv
<1>2. CASE mailbox # None
  <2>1. /\ RowsOf(mailbox) \subseteq Rows
        /\ IsFiniteSet(RowsOf(mailbox))
        /\ Cardinality(RowsOf(mailbox)) \in Nat
     BY ListType
  <2>2. snapshot' = RowsOf(mailbox) /\ exists' \in {exists, Cardinality(snapshot')}
     BY <1>2 DEF Refresh
  <2>3. QED
     BY <2>1, <2>2 DEF TypeOK
<1>3. QED
   BY <1>1, <1>2

\* The type invariant is inductive with the finiteness of the lists.
LEMMA TypeStep == TypeOK /\ FiniteInv /\ [Next]_vars => TypeOK' /\ FiniteInv'
<1> SUFFICES ASSUME TypeOK, FiniteInv, [Next]_vars
             PROVE  TypeOK' /\ FiniteInv'
   OBVIOUS
<1>1. ASSUME NEW b \in Mailboxes, NEW m \in Messages,
             Deliver(b, m)
      PROVE  TypeOK' /\ FiniteInv'
  <2>1. Allocate(b) \in 1 .. MaxUID /\ uidNext[b] + 1 \in 1 .. MaxUID + 1
     BY <1>1 DEF Deliver, Allocate, TypeOK
  <2>2. rows' \subseteq Rows
     BY <1>1, <2>1 DEF Deliver, TypeOK, Rows
  <2>3. IsFiniteSet(rows')
     BY <1>1, FS_AddElement DEF Deliver, FiniteInv
  <2>4. uidNext' \in [Mailboxes -> 1 .. MaxUID + 1]
     BY <1>1, <2>1 DEF Deliver, TypeOK
  <2>5. given' \in [Messages -> (Mailboxes \X (1 .. MaxUID)) \cup {<<None, 0>>}]
     BY <1>1, <2>1 DEF Deliver, TypeOK
  <2>6. QED
     BY <1>1, <2>2, <2>3, <2>4, <2>5
        DEF Deliver, session, storing, client, TypeOK, FiniteInv
<1>2. ASSUME NEW r \in rows,
             Relist(r)
      PROVE  TypeOK' /\ FiniteInv'
  <2>1. r.box \in Mailboxes
     BY <1>2 DEF TypeOK, Rows
  <2>2. uidNext' \in [Mailboxes -> 1 .. MaxUID + 1]
     BY <1>2, <2>1 DEF Relist, TypeOK
  <2>3. QED
     BY <1>2, <2>2 DEF Relist, session, storing, client, TypeOK, FiniteInv
<1>3. ASSUME NEW r \in rows,
             Remove(r)
      PROVE  TypeOK' /\ FiniteInv'
  <2>1. IsFiniteSet(rows')
     BY <1>3, FS_RemoveElement DEF Remove, FiniteInv
  <2>2. QED
     BY <1>3, <2>1 DEF Remove, session, storing, client, TypeOK, FiniteInv
<1>4. CASE Connect
  <2>1. IsFiniteSet(snapshot')
     BY <1>4, FS_EmptySet DEF Connect, FiniteInv
  <2>2. QED
     BY <1>4, <2>1 DEF Connect, database, storing, client, TypeOK, FiniteInv
<1>5. CASE Login
   BY <1>5 DEF Login, database, session, storing, client, TypeOK, FiniteInv
<1>6. CASE LoginFails
   BY <1>6 DEF LoginFails, No, database, session, storing, client, TypeOK, FiniteInv
<1>7. ASSUME NEW b \in Mailboxes, NEW ro \in BOOLEAN,
             Select(b, ro)
      PROVE  TypeOK' /\ FiniteInv'
  <2>1. IsFiniteSet(snapshot')
     BY <1>7, FS_EmptySet DEF Select, Unselected, FiniteInv
  <2>2. QED
     BY <1>7, <2>1 DEF Select, Command, Unselected, database, TypeOK, FiniteInv
<1>8. CASE SelectFails
  <2>1. IsFiniteSet(snapshot')
     BY <1>8, FS_EmptySet DEF SelectFails, Unselected, FiniteInv
  <2>2. QED
     BY <1>8, <2>1
        DEF SelectFails, Command, Fault, No, Unselected, database, client, TypeOK,
            FiniteInv
<1>9. CASE Unselect
  <2>1. IsFiniteSet(snapshot')
     BY <1>9, FS_EmptySet DEF Unselect, FiniteInv
  <2>2. QED
     BY <1>9, <2>1 DEF Unselect, Command, database, client, TypeOK, FiniteInv
<1>10. CASE Noop
   BY <1>10 DEF Noop, Reads, Command, database, session, client, TypeOK, FiniteInv
<1>11. CASE List
   BY <1>11
      DEF List, Reads, Command, No, Fault, database, session, client, TypeOK,
          FiniteInv
<1>12. CASE Status
   BY <1>12
      DEF Status, Reads, Command, No, database, session, client, TypeOK, FiniteInv
<1>13. CASE Search
   BY <1>13 DEF Search, Reads, Command, database, session, client, TypeOK, FiniteInv
<1>14. CASE FetchFails
  <2>1. PICK sent \in SUBSET snapshot : shown' = Pairs(snapshot, sent)
     BY <1>14 DEF FetchFails
  <2>2. shown' \subseteq Nat \X (1 .. MaxUID)
     BY <2>1, PairsType DEF TypeOK, FiniteInv
  <2>3. QED
     BY <1>14, <2>2
        DEF FetchFails, Command, Fault, No, database, session, TypeOK, FiniteInv
<1>15. CASE Unsupported
   BY <1>15
      DEF Unsupported, Reads, Command, No, database, session, client, TypeOK,
          FiniteInv
<1>16. CASE StoreRefused
   BY <1>16
      DEF StoreRefused, Command, No, database, session, client, TypeOK, FiniteInv
<1>17. ASSUME NEW kind \in {"seq", "uid"}, NEW set \in NumSets,
             Fetch(kind, set)
      PROVE  TypeOK' /\ FiniteInv'
  <2>1. Resolve(kind, set) \subseteq snapshot
     BY DEF Resolve
  <2>2. Pairs(snapshot, Resolve(kind, set)) \subseteq Nat \X (1 .. MaxUID)
     BY <2>1, PairsType DEF TypeOK, FiniteInv
  <2>3. QED
     BY <1>17, <2>1, <2>2 DEF Fetch, Command, database, session, TypeOK, FiniteInv
<1>18. ASSUME NEW kind \in {"seq", "uid"}, NEW set \in NumSets,
             Store(kind, set)
      PROVE  TypeOK' /\ FiniteInv'
  <2>1. Resolve(kind, set) \subseteq snapshot
     BY DEF Resolve
  <2>2. Pairs(snapshot, Resolve(kind, set)) \subseteq Nat \X (1 .. MaxUID)
     BY <2>1, PairsType DEF TypeOK, FiniteInv
  <2>3. QED
     BY <1>18, <2>1, <2>2
        DEF Store, Command, database, session, client, TypeOK, FiniteInv
<1>19. CASE Idle
   BY <1>19 DEF Idle, Reads, Command, database, session, client, TypeOK, FiniteInv
<1>20. CASE Done
   BY <1>20 DEF Done, database, session, storing, client, TypeOK, FiniteInv
<1>21. CASE Disconnect
   BY <1>21
      DEF Disconnect, Fault, Hangup, database, session, client, TypeOK, FiniteInv
<1>22. CASE SelectSnapshot
  <2>1. /\ RowsOf(mailbox) \subseteq Rows
        /\ IsFiniteSet(RowsOf(mailbox))
        /\ Cardinality(RowsOf(mailbox)) \in Nat
        /\ UIDsOf(RowsOf(mailbox)) \subseteq 1 .. MaxUID
     BY ListType
  <2>2. QED
     BY <1>22, <2>1 DEF SelectSnapshot, database, storing, TypeOK, FiniteInv
<1>23. CASE SelectSnapshotFails
   BY <1>23
      DEF SelectSnapshotFails, Fault, No, database, session, storing, client, TypeOK,
          FiniteInv
<1>24. CASE SetFlags
  <2>1. NextRow \in Rows
     BY <1>24, FirstRow DEF SetFlags, TypeOK
  <2>2. NextRow.uid \in 1 .. MaxUID
     BY <2>1 DEF Rows
  <2>3. QED
     BY <1>24, <2>2 DEF SetFlags, database, session, client, TypeOK, FiniteInv
<1>25. CASE EnqueueMutation
   BY <1>25 DEF EnqueueMutation, database, session, TypeOK, FiniteInv
<1>26. CASE StoreFails
   BY <1>26 DEF StoreFails, Fault, No, database, session, client, TypeOK, FiniteInv
<1>27. CASE StoreEnds
  <2>1. /\ RowsOf(mailbox) \subseteq Rows
        /\ IsFiniteSet(RowsOf(mailbox))
        /\ Cardinality(RowsOf(mailbox)) \in Nat
        /\ UIDsOf(RowsOf(mailbox)) \subseteq 1 .. MaxUID
     BY ListType
  <2>2. QED
     BY <1>27, <2>1 DEF StoreEnds, database, client, TypeOK, FiniteInv
<1>28. CASE Poll
  <2>1. snapshot' \subseteq Rows /\ IsFiniteSet(snapshot') /\ exists' \in Nat
     BY <1>28, RefreshType DEF Poll
  <2>2. QED
     BY <1>28, <2>1 DEF Poll, database, storing, TypeOK, FiniteInv
<1>29. CASE PollFails
   BY <1>29 DEF PollFails, Fault, Hangup, database, session, client, TypeOK, FiniteInv
<1>30. CASE IdleEnds
   BY <1>30 DEF IdleEnds, Fault, database, session, storing, client, TypeOK, FiniteInv
<1>31. CASE Tick
  <2>1. snapshot' \subseteq Rows /\ IsFiniteSet(snapshot') /\ exists' \in Nat
     BY <1>31, RefreshType DEF Tick
  <2>2. QED
     BY <1>31, <2>1 DEF Tick, database, storing, TypeOK, FiniteInv
<1>32. CASE UNCHANGED vars
   BY <1>32 DEF vars, database, session, storing, client, TypeOK, FiniteInv
<1>33. QED
   BY <1>1, <1>2, <1>3, <1>4, <1>5, <1>6, <1>7, <1>8, <1>9, <1>10, <1>11,
      <1>12, <1>13, <1>14, <1>15, <1>16, <1>17, <1>18, <1>19, <1>20, <1>21,
      <1>22, <1>23, <1>24, <1>25, <1>26, <1>27, <1>28, <1>29, <1>30, <1>31,
      <1>32
   DEF Next, SyncStep, ClientStep, SessionStep

-----------------------------------------------------------------------------
(* UIDs *)

\* A message is only ever given the counter's value, which nobody has.
LEMMA GivenStep ==
    TypeOK /\ GivenInv /\ UIDsPermanent /\ [Next]_vars => GivenInv' /\ UIDsPermanent'
<1> SUFFICES ASSUME TypeOK, GivenInv, UIDsPermanent, [Next]_vars
             PROVE  GivenInv' /\ UIDsPermanent'
   OBVIOUS
<1>1. ASSUME NEW b \in Mailboxes, NEW m \in Messages,
             Deliver(b, m)
      PROVE  GivenInv' /\ UIDsPermanent'
  <2>1. /\ uidNext' = [uidNext EXCEPT ![b] = uidNext[b] + 1]
        /\ given' = [given EXCEPT ![m] = <<b, uidNext[b]>>]
     BY <1>1 DEF Deliver, Allocate
  <2>2. \A c \in Mailboxes :
           uidNext[c] \in Nat /\ uidNext'[c] \in Nat /\ uidNext'[c] >= uidNext[c]
     BY <2>1 DEF TypeOK
  <2>3. given'[m] = <<b, uidNext[b]>> /\ uidNext'[b] = uidNext[b] + 1
     BY <2>1 DEF TypeOK
  <2>4. \A n \in Messages \ {m} : given'[n] = given[n]
     BY <2>1 DEF TypeOK
  <2>5. \A n \in Messages : given[n] # <<None, 0>> =>
           given[n][1] \in Mailboxes /\ given[n][2] \in Nat
     BY DEF TypeOK
  <2>6. GivenInv'
    <3> SUFFICES ASSUME NEW n \in Messages, given'[n] # <<None, 0>>
                 PROVE  given'[n][2] < uidNext'[given'[n][1]]
       BY DEF GivenInv
    <3>1. CASE n = m
       BY <3>1, <2>2, <2>3
    <3>2. CASE n # m
      <4>1. given'[n] = given[n] /\ given[n][2] < uidNext[given[n][1]]
         BY <3>2, <2>4 DEF GivenInv
      <4>2. given[n][1] \in Mailboxes /\ given[n][2] \in Nat
         BY <4>1, <2>5
      <4>3. QED
         BY <4>1, <4>2, <2>2
    <3>3. QED
       BY <3>1, <3>2
  <2>7. \A n \in Messages \ {m} : given'[n] # given'[m]
    <3> TAKE n \in Messages \ {m}
    <3>1. CASE given[n] = <<None, 0>>
       BY <3>1, <2>3, <2>4
    <3>2. CASE given[n] # <<None, 0>>
      <4>1. given[n][2] < uidNext[given[n][1]]
         BY <3>2 DEF GivenInv
      <4>2. given[n] # <<b, uidNext[b]>>
         BY <4>1, <2>2
      <4>3. QED
         BY <4>2, <2>3, <2>4
    <3>3. QED
       BY <3>1, <3>2
  <2>8. UIDsPermanent'
     BY <2>4, <2>7 DEF UIDsPermanent
  <2>9. QED
     BY <2>6, <2>8
<1>2. ASSUME NEW r \in rows,
             Relist(r)
      PROVE  GivenInv' /\ UIDsPermanent'
  <2>1. r.box \in Mailboxes
     BY <1>2 DEF TypeOK, Rows
  <2>2. \A c \in Mailboxes :
           uidNext[c] \in Nat /\ uidNext'[c] \in Nat /\ uidNext'[c] >= uidNext[c]
     BY <1>2, <2>1 DEF Relist, TypeOK
  <2>3. \A n \in Messages : given[n] # <<None, 0>> =>
           given[n][1] \in Mailboxes /\ given[n][2] \in Nat
     BY DEF TypeOK
  <2>4. QED
     BY <1>2, <2>2, <2>3 DEF Relist, GivenInv, UIDsPermanent
<1>3. ASSUME NEW r \in rows,
             Remove(r)
      PROVE  GivenInv' /\ UIDsPermanent'
   BY <1>3 DEF Remove, session, storing, client, GivenInv, UIDsPermanent
<1>4. CASE Connect
   BY <1>4 DEF Connect, database, storing, client, GivenInv, UIDsPermanent
<1>5. CASE Login
   BY <1>5 DEF Login, database, session, storing, client, GivenInv, UIDsPermanent
<1>6. CASE LoginFails
   BY <1>6
      DEF LoginFails, No, database, session, storing, client, GivenInv, UIDsPermanent
<1>7. ASSUME NEW b \in Mailboxes, NEW ro \in BOOLEAN,
             Select(b, ro)
      PROVE  GivenInv' /\ UIDsPermanent'
   BY <1>7 DEF Select, Command, Unselected, database, GivenInv, UIDsPermanent
<1>8. CASE SelectFails
   BY <1>8
      DEF SelectFails, Command, Fault, No, Unselected, database, client, GivenInv,
          UIDsPermanent
<1>9. CASE Unselect
   BY <1>9 DEF Unselect, Command, database, client, GivenInv, UIDsPermanent
<1>10. CASE Noop
   BY <1>10
      DEF Noop, Reads, Command, database, session, client, GivenInv, UIDsPermanent
<1>11. CASE List
   BY <1>11
      DEF List, Reads, Command, No, Fault, database, session, client, GivenInv,
          UIDsPermanent
<1>12. CASE Status
   BY <1>12
      DEF Status, Reads, Command, No, database, session, client, GivenInv,
          UIDsPermanent
<1>13. CASE Search
   BY <1>13
      DEF Search, Reads, Command, database, session, client, GivenInv, UIDsPermanent
<1>14. CASE FetchFails
   BY <1>14
      DEF FetchFails, Command, Fault, No, database, session, GivenInv, UIDsPermanent
<1>15. CASE Unsupported
   BY <1>15
      DEF Unsupported, Reads, Command, No, database, session, client, GivenInv,
          UIDsPermanent
<1>16. CASE StoreRefused
   BY <1>16
      DEF StoreRefused, Command, No, database, session, client, GivenInv,
          UIDsPermanent
<1>17. ASSUME NEW kind \in {"seq", "uid"}, NEW set \in NumSets,
             Fetch(kind, set)
      PROVE  GivenInv' /\ UIDsPermanent'
   BY <1>17 DEF Fetch, Command, database, session, GivenInv, UIDsPermanent
<1>18. ASSUME NEW kind \in {"seq", "uid"}, NEW set \in NumSets,
             Store(kind, set)
      PROVE  GivenInv' /\ UIDsPermanent'
   BY <1>18 DEF Store, Command, database, session, client, GivenInv, UIDsPermanent
<1>19. CASE Idle
   BY <1>19
      DEF Idle, Reads, Command, database, session, client, GivenInv, UIDsPermanent
<1>20. CASE Done
   BY <1>20 DEF Done, database, session, storing, client, GivenInv, UIDsPermanent
<1>21. CASE Disconnect
   BY <1>21
      DEF Disconnect, Fault, Hangup, database, session, client, GivenInv,
          UIDsPermanent
<1>22. CASE SelectSnapshot
   BY <1>22 DEF SelectSnapshot, database, storing, GivenInv, UIDsPermanent
<1>23. CASE SelectSnapshotFails
   BY <1>23
      DEF SelectSnapshotFails, Fault, No, database, session, storing, client,
          GivenInv, UIDsPermanent
<1>24. CASE SetFlags
   BY <1>24 DEF SetFlags, database, session, client, GivenInv, UIDsPermanent
<1>25. CASE EnqueueMutation
   BY <1>25 DEF EnqueueMutation, database, session, GivenInv, UIDsPermanent
<1>26. CASE StoreFails
   BY <1>26
      DEF StoreFails, Fault, No, database, session, client, GivenInv, UIDsPermanent
<1>27. CASE StoreEnds
   BY <1>27 DEF StoreEnds, database, client, GivenInv, UIDsPermanent
<1>28. CASE Poll
   BY <1>28 DEF Poll, database, storing, GivenInv, UIDsPermanent
<1>29. CASE PollFails
   BY <1>29
      DEF PollFails, Fault, Hangup, database, session, client, GivenInv, UIDsPermanent
<1>30. CASE IdleEnds
   BY <1>30
      DEF IdleEnds, Fault, database, session, storing, client, GivenInv, UIDsPermanent
<1>31. CASE Tick
   BY <1>31 DEF Tick, database, storing, GivenInv, UIDsPermanent
<1>32. CASE UNCHANGED vars
   BY <1>32 DEF vars, database, session, storing, client, GivenInv, UIDsPermanent
<1>33. QED
   BY <1>1, <1>2, <1>3, <1>4, <1>5, <1>6, <1>7, <1>8, <1>9, <1>10, <1>11,
      <1>12, <1>13, <1>14, <1>15, <1>16, <1>17, <1>18, <1>19, <1>20, <1>21,
      <1>22, <1>23, <1>24, <1>25, <1>26, <1>27, <1>28, <1>29, <1>30, <1>31,
      <1>32
   DEF Next, SyncStep, ClientStep, SessionStep

\* What joins an open mailbox has a UID of at least the UIDNEXT promised.
LEMMA PromiseStep ==
    TypeOK /\ PromiseInv /\ UIDNextHolds /\ [Next]_vars => PromiseInv' /\ UIDNextHolds'
<1> SUFFICES ASSUME TypeOK, PromiseInv, UIDNextHolds, [Next]_vars
             PROVE  PromiseInv' /\ UIDNextHolds'
   OBVIOUS
<1>1. ASSUME NEW b \in Mailboxes, NEW m \in Messages,
             Deliver(b, m)
      PROVE  PromiseInv' /\ UIDNextHolds'
  <2>1. /\ uidNext' = [uidNext EXCEPT ![b] = uidNext[b] + 1]
        /\ rows' = rows \cup {[box |-> b, uid |-> uidNext[b], msg |-> m]}
     BY <1>1 DEF Deliver, Allocate
  <2>2. \A c \in Mailboxes :
           uidNext[c] \in Nat /\ uidNext'[c] \in Nat /\ uidNext'[c] >= uidNext[c]
     BY <2>1 DEF TypeOK
  <2>3. PromiseInv'
     BY <1>1, <2>2 DEF Deliver, session, client, PromiseInv, TypeOK
  <2>4. ASSUME conn = "selected", NEW r \in rows', r.box = mailbox, r.uid < promised
        PROVE  r.uid \in base
    <3>1. promised <= uidNext[mailbox] /\ mailbox \in Mailboxes
       BY <2>4 DEF PromiseInv
    <3>2. r # [box |-> b, uid |-> uidNext[b], msg |-> m]
       BY <3>1, <2>2, <2>4 DEF TypeOK
    <3>3. QED
       BY <3>2, <2>1, <2>4 DEF UIDNextHolds, RowsOf
  <2>5. QED
     BY <1>1, <2>3, <2>4 DEF Deliver, session, client, UIDNextHolds, RowsOf
<1>2. ASSUME NEW r \in rows,
             Relist(r)
      PROVE  PromiseInv' /\ UIDNextHolds'
  <2>1. \A c \in Mailboxes :
           uidNext[c] \in Nat /\ uidNext'[c] \in Nat /\ uidNext'[c] >= uidNext[c]
     BY <1>2 DEF Relist, TypeOK, Rows
  <2>2. QED
     BY <1>2, <2>1 DEF Relist, session, client, PromiseInv, UIDNextHolds, RowsOf, TypeOK
<1>3. ASSUME NEW r \in rows,
             Remove(r)
      PROVE  PromiseInv' /\ UIDNextHolds'
   BY <1>3 DEF Remove, session, storing, client, PromiseInv, UIDNextHolds, RowsOf
<1>4. CASE Connect
   BY <1>4 DEF Connect, database, storing, client, PromiseInv, UIDNextHolds, RowsOf
<1>5. CASE Login
   BY <1>5
      DEF Login, database, session, storing, client, PromiseInv, UIDNextHolds, RowsOf
<1>6. CASE LoginFails
   BY <1>6
      DEF LoginFails, No, database, session, storing, client, PromiseInv,
          UIDNextHolds, RowsOf
<1>7. ASSUME NEW b \in Mailboxes, NEW ro \in BOOLEAN,
             Select(b, ro)
      PROVE  PromiseInv' /\ UIDNextHolds'
   BY <1>7
      DEF Select, Command, Unselected, database, PromiseInv, UIDNextHolds, RowsOf,
          TypeOK
<1>8. CASE SelectFails
   BY <1>8
      DEF SelectFails, Command, Fault, No, Unselected, database, client, PromiseInv,
          UIDNextHolds, RowsOf
<1>9. CASE Unselect
   BY <1>9 DEF Unselect, Command, database, client, PromiseInv, UIDNextHolds, RowsOf
<1>10. CASE Noop
   BY <1>10
      DEF Noop, Reads, Command, database, session, client, PromiseInv, UIDNextHolds,
          RowsOf
<1>11. CASE List
   BY <1>11
      DEF List, Reads, Command, No, Fault, database, session, client, PromiseInv,
          UIDNextHolds, RowsOf
<1>12. CASE Status
   BY <1>12
      DEF Status, Reads, Command, No, database, session, client, PromiseInv,
          UIDNextHolds, RowsOf
<1>13. CASE Search
   BY <1>13
      DEF Search, Reads, Command, database, session, client, PromiseInv,
          UIDNextHolds, RowsOf
<1>14. CASE FetchFails
   BY <1>14
      DEF FetchFails, Command, Fault, No, database, session, PromiseInv,
          UIDNextHolds, RowsOf
<1>15. CASE Unsupported
   BY <1>15
      DEF Unsupported, Reads, Command, No, database, session, client, PromiseInv,
          UIDNextHolds, RowsOf
<1>16. CASE StoreRefused
   BY <1>16
      DEF StoreRefused, Command, No, database, session, client, PromiseInv,
          UIDNextHolds, RowsOf
<1>17. ASSUME NEW kind \in {"seq", "uid"}, NEW set \in NumSets,
             Fetch(kind, set)
      PROVE  PromiseInv' /\ UIDNextHolds'
   BY <1>17 DEF Fetch, Command, database, session, PromiseInv, UIDNextHolds, RowsOf
<1>18. ASSUME NEW kind \in {"seq", "uid"}, NEW set \in NumSets,
             Store(kind, set)
      PROVE  PromiseInv' /\ UIDNextHolds'
   BY <1>18
      DEF Store, Command, database, session, client, PromiseInv, UIDNextHolds, RowsOf
<1>19. CASE Idle
   BY <1>19
      DEF Idle, Reads, Command, database, session, client, PromiseInv, UIDNextHolds,
          RowsOf
<1>20. CASE Done
   BY <1>20
      DEF Done, database, session, storing, client, PromiseInv, UIDNextHolds, RowsOf
<1>21. CASE Disconnect
   BY <1>21
      DEF Disconnect, Fault, Hangup, database, session, client, PromiseInv,
          UIDNextHolds, RowsOf
<1>22. CASE SelectSnapshot
   BY <1>22
      DEF SelectSnapshot, database, storing, PromiseInv, UIDNextHolds, RowsOf, UIDsOf
<1>23. CASE SelectSnapshotFails
   BY <1>23
      DEF SelectSnapshotFails, Fault, No, database, session, storing, client,
          PromiseInv, UIDNextHolds, RowsOf
<1>24. CASE SetFlags
   BY <1>24 DEF SetFlags, database, session, client, PromiseInv, UIDNextHolds, RowsOf
<1>25. CASE EnqueueMutation
   BY <1>25 DEF EnqueueMutation, database, session, PromiseInv, UIDNextHolds, RowsOf
<1>26. CASE StoreFails
   BY <1>26
      DEF StoreFails, Fault, No, database, session, client, PromiseInv, UIDNextHolds,
          RowsOf
<1>27. CASE StoreEnds
   BY <1>27 DEF StoreEnds, database, client, PromiseInv, UIDNextHolds, RowsOf
<1>28. CASE Poll
   BY <1>28 DEF Poll, database, storing, PromiseInv, UIDNextHolds, RowsOf
<1>29. CASE PollFails
   BY <1>29
      DEF PollFails, Fault, Hangup, database, session, client, PromiseInv,
          UIDNextHolds, RowsOf
<1>30. CASE IdleEnds
   BY <1>30
      DEF IdleEnds, Fault, database, session, storing, client, PromiseInv,
          UIDNextHolds, RowsOf
<1>31. CASE Tick
   BY <1>31 DEF Tick, database, storing, PromiseInv, UIDNextHolds, RowsOf
<1>32. CASE UNCHANGED vars
   BY <1>32
      DEF vars, database, session, storing, client, PromiseInv, UIDNextHolds, RowsOf
<1>33. QED
   BY <1>1, <1>2, <1>3, <1>4, <1>5, <1>6, <1>7, <1>8, <1>9, <1>10, <1>11,
      <1>12, <1>13, <1>14, <1>15, <1>16, <1>17, <1>18, <1>19, <1>20, <1>21,
      <1>22, <1>23, <1>24, <1>25, <1>26, <1>27, <1>28, <1>29, <1>30, <1>31,
      <1>32
   DEF Next, SyncStep, ClientStep, SessionStep

-----------------------------------------------------------------------------
(* STORE *)

\* A change is queued before the next one is made, or its STORE fails.
LEMMA QueueStep ==
    QueueInv /\ NoSilentDivergence /\ [Next]_vars => QueueInv' /\ NoSilentDivergence'
<1> SUFFICES ASSUME QueueInv, NoSilentDivergence, [Next]_vars
             PROVE  QueueInv' /\ NoSilentDivergence'
   OBVIOUS
<1>1. ASSUME NEW b \in Mailboxes, NEW m \in Messages,
             Deliver(b, m)
      PROVE  QueueInv' /\ NoSilentDivergence'
   BY <1>1
      DEF Deliver, session, storing, client, QueueInv, NoSilentDivergence, NextRow
<1>2. ASSUME NEW r \in rows,
             Relist(r)
      PROVE  QueueInv' /\ NoSilentDivergence'
   BY <1>2 DEF Relist, session, storing, client, QueueInv, NoSilentDivergence, NextRow
<1>3. ASSUME NEW r \in rows,
             Remove(r)
      PROVE  QueueInv' /\ NoSilentDivergence'
   BY <1>3 DEF Remove, session, storing, client, QueueInv, NoSilentDivergence, NextRow
<1>4. CASE Connect
   BY <1>4
      DEF Connect, database, storing, client, QueueInv, NoSilentDivergence, NextRow
<1>5. CASE Login
   BY <1>5
      DEF Login, database, session, storing, client, QueueInv, NoSilentDivergence,
          NextRow
<1>6. CASE LoginFails
   BY <1>6
      DEF LoginFails, No, database, session, storing, client, QueueInv,
          NoSilentDivergence, NextRow
<1>7. ASSUME NEW b \in Mailboxes, NEW ro \in BOOLEAN,
             Select(b, ro)
      PROVE  QueueInv' /\ NoSilentDivergence'
   BY <1>7
      DEF Select, Command, Unselected, database, QueueInv, NoSilentDivergence, NextRow
<1>8. CASE SelectFails
   BY <1>8
      DEF SelectFails, Command, Fault, No, Unselected, database, client, QueueInv,
          NoSilentDivergence, NextRow
<1>9. CASE Unselect
   BY <1>9
      DEF Unselect, Command, database, client, QueueInv, NoSilentDivergence, NextRow
<1>10. CASE Noop
   BY <1>10
      DEF Noop, Reads, Command, database, session, client, QueueInv,
          NoSilentDivergence, NextRow
<1>11. CASE List
   BY <1>11
      DEF List, Reads, Command, No, Fault, database, session, client, QueueInv,
          NoSilentDivergence, NextRow
<1>12. CASE Status
   BY <1>12
      DEF Status, Reads, Command, No, database, session, client, QueueInv,
          NoSilentDivergence, NextRow
<1>13. CASE Search
   BY <1>13
      DEF Search, Reads, Command, database, session, client, QueueInv,
          NoSilentDivergence, NextRow
<1>14. CASE FetchFails
   BY <1>14
      DEF FetchFails, Command, Fault, No, database, session, QueueInv,
          NoSilentDivergence, NextRow
<1>15. CASE Unsupported
   BY <1>15
      DEF Unsupported, Reads, Command, No, database, session, client, QueueInv,
          NoSilentDivergence, NextRow
<1>16. CASE StoreRefused
   BY <1>16
      DEF StoreRefused, Command, No, database, session, client, QueueInv,
          NoSilentDivergence, NextRow
<1>17. ASSUME NEW kind \in {"seq", "uid"}, NEW set \in NumSets,
             Fetch(kind, set)
      PROVE  QueueInv' /\ NoSilentDivergence'
   BY <1>17
      DEF Fetch, Command, database, session, QueueInv, NoSilentDivergence, NextRow
<1>18. ASSUME NEW kind \in {"seq", "uid"}, NEW set \in NumSets,
             Store(kind, set)
      PROVE  QueueInv' /\ NoSilentDivergence'
   BY <1>18
      DEF Store, Command, database, session, client, QueueInv, NoSilentDivergence,
          NextRow
<1>19. CASE Idle
   BY <1>19
      DEF Idle, Reads, Command, database, session, client, QueueInv,
          NoSilentDivergence, NextRow
<1>20. CASE Done
   BY <1>20
      DEF Done, database, session, storing, client, QueueInv, NoSilentDivergence,
          NextRow
<1>21. CASE Disconnect
   BY <1>21
      DEF Disconnect, Fault, Hangup, database, session, client, QueueInv,
          NoSilentDivergence, NextRow
<1>22. CASE SelectSnapshot
   BY <1>22
      DEF SelectSnapshot, database, storing, QueueInv, NoSilentDivergence, NextRow
<1>23. CASE SelectSnapshotFails
   BY <1>23
      DEF SelectSnapshotFails, Fault, No, database, session, storing, client,
          QueueInv, NoSilentDivergence, NextRow
<1>24. CASE SetFlags
   BY <1>24
      DEF SetFlags, database, session, client, QueueInv, NoSilentDivergence, NextRow
<1>25. CASE EnqueueMutation
   BY <1>25
      DEF EnqueueMutation, database, session, QueueInv, NoSilentDivergence, NextRow
<1>26. CASE StoreFails
   BY <1>26
      DEF StoreFails, Fault, No, database, session, client, QueueInv,
          NoSilentDivergence, NextRow
<1>27. CASE StoreEnds
   BY <1>27 DEF StoreEnds, database, client, QueueInv, NoSilentDivergence, NextRow
<1>28. CASE Poll
   BY <1>28 DEF Poll, database, storing, QueueInv, NoSilentDivergence, NextRow
<1>29. CASE PollFails
   BY <1>29
      DEF PollFails, Fault, Hangup, database, session, client, QueueInv,
          NoSilentDivergence, NextRow
<1>30. CASE IdleEnds
   BY <1>30
      DEF IdleEnds, Fault, database, session, storing, client, QueueInv,
          NoSilentDivergence, NextRow
<1>31. CASE Tick
   BY <1>31 DEF Tick, database, storing, QueueInv, NoSilentDivergence, NextRow
<1>32. CASE UNCHANGED vars
   BY <1>32
      DEF vars, database, session, storing, client, QueueInv, NoSilentDivergence,
          NextRow
<1>33. QED
   BY <1>1, <1>2, <1>3, <1>4, <1>5, <1>6, <1>7, <1>8, <1>9, <1>10, <1>11,
      <1>12, <1>13, <1>14, <1>15, <1>16, <1>17, <1>18, <1>19, <1>20, <1>21,
      <1>22, <1>23, <1>24, <1>25, <1>26, <1>27, <1>28, <1>29, <1>30, <1>31,
      <1>32
   DEF Next, SyncStep, ClientStep, SessionStep

-----------------------------------------------------------------------------
(* Theorems *)

\* Nobody is connected, and nothing is listed.
LEMMA InitInv == Init => IInv
<1> SUFFICES ASSUME Init PROVE IInv
   OBVIOUS
<1>1. TypeOK
  <2>1. /\ uidNext \in [Mailboxes -> 1 .. MaxUID + 1]
        /\ given \in [Messages -> (Mailboxes \X (1 .. MaxUID)) \cup {<<None, 0>>}]
     BY DEF Init
  <2>2. QED
     BY <2>1 DEF Init, TypeOK
<1>2. FiniteInv
   BY FS_EmptySet DEF Init, FiniteInv
<1>3. GivenInv /\ UIDsPermanent
   BY DEF Init, GivenInv, UIDsPermanent
<1>4. PromiseInv /\ UIDNextHolds /\ QueueInv /\ NoSilentDivergence
   BY DEF Init, PromiseInv, UIDNextHolds, QueueInv, NoSilentDivergence
<1>5. QED
   BY <1>1, <1>2, <1>3, <1>4 DEF IInv

\* The invariant holds throughout.
LEMMA Inductive == Spec => []IInv
<1>1. IInv /\ [Next]_vars => IInv'
   BY TypeStep, GivenStep, PromiseStep, QueueStep DEF IInv
<1>2. QED
   BY InitInv, <1>1, PTL DEF Spec

\* Every variable of the session and of the tables it reads keeps its type.
THEOREM TypeCorrect == Spec => []TypeOK
<1>1. IInv => TypeOK
   BY DEF IInv
<1>2. QED
   BY <1>1, Inductive, PTL

\* No local UID is ever given to two messages, however rows come and go and
\* whatever upserts lose UIDs.
THEOREM UIDsPermanentCorrect == Spec => []UIDsPermanent
<1>1. IInv => UIDsPermanent
   BY DEF IInv
<1>2. QED
   BY <1>1, Inductive, PTL

\* The UIDNEXT that SELECT answers bounds everything that joins the mailbox
\* after the snapshot, although the two are read by two statements.
THEOREM UIDNextCorrect == Spec => []UIDNextHolds
<1>1. IInv => UIDNextHolds
   BY DEF IInv
<1>2. QED
   BY <1>1, Inductive, PTL

\* A STORE that is answered with OK has queued every change it made, wherever
\* statements fail and connections end.
THEOREM DivergenceCorrect == Spec => []NoSilentDivergence
<1>1. IInv => NoSilentDivergence
   BY DEF IInv
<1>2. QED
   BY <1>1, Inductive, PTL
=============================================================================
