------------------------- MODULE MessageStoreProofs -------------------------
(***************************************************************************)
(* The safety properties of MessageStore for any number of messages,       *)
(* workers, renumberings and faults.                                       *)
(***************************************************************************)
EXTENDS MessageStore, TLAPS

USE ConstantsAssumption DEF Ids, UIDs, NoUID, late

\* Rows and messages rows have ids that were given, and a UID lists one row.
RowInv ==
    /\ \A r \in Live :
          /\ r <= lastRow
          /\ rows[r].mid \in 1 .. lastRow
          /\ rows[r].state # "none"
          /\ rows[r].epoch <= epoch
    /\ \A r, q \in Live : rows[r].uid = rows[q].uid /\ rows[r].uid # NoUID => r = q

\* A stored row points at a body; a listed one without a body, and one that was
\* reaped in a worker's hand, at the placeholder of its UID, unless a body was
\* attached for a reaped row.
LinkInv ==
    \A r \in Live :
        /\ rows[r].state = "stored" \/ rows[r].mid \in doubtful =>
              messages[rows[r].mid].digest # None
        /\ /\ rows[r].state # "stored" \/ r \in reaped
           /\ rows[r].uid # NoUID
           /\ rows[r].mid \notin doubtful
           => /\ messages[rows[r].mid].digest = None
              /\ messages[rows[r].mid].uid = rows[r].uid

\* Under one numbering a UID means one message.
ServerInv == \A r \in Ids : Current(r) => upstream[rows[r].uid] \in {rows[r].of, None}

\* A digest is that of a blob that is there, and what was parsed is that blob.
MessageInv ==
    \A i \in Ids :
        /\ i > lastRow => messages[i] = NoMessage
        /\ messages[i].digest # None =>
              /\ messages[i].blob = messages[i].digest
              /\ messages[i].digest \in blobs
        /\ messages[i].digest = None => messages[i].parsed = None
        /\ i \notin doubtful => messages[i].parsed \in {None, messages[i].digest}
        /\ i \in doubtful =>
              i <= lastRow /\ (messages[i].digest # None \/ messages[i] = NoMessage)
        /\ messages[i].parsed \in Contents \ Untitled =>
              messages[i].subject = messages[i].parsed /\ messages[i].envelope = messages[i].parsed

\* A row is in the hands of one worker and until its body is recorded it is
\* claimed, as long as it is not reaped meanwhile; while it is locked it is
\* there, and locked by one.
HoldInv ==
    /\ \A w \in Workers :
          /\ worker[w].step = "free" => worker[w] = Free
          /\ worker[w].step # "free" =>
                Running /\ worker[w].row \in 1 .. lastRow /\ worker[w].uid # NoUID
          /\ worker[w].step = "attach" => worker[w].row \in Live
          /\ worker[w].step \notin {"free", "ingest"} /\ worker[w].row \in Live =>
                /\ worker[w].row \notin reaped => rows[worker[w].row].state = "fetching"
                /\ rows[worker[w].row].uid = worker[w].uid
          /\ worker[w].step = "ingest" /\ worker[w].row \in Live \ reaped =>
                rows[worker[w].row].state = "stored"
    /\ \A w, v \in Workers :
          /\ worker[w].step # "free" /\ worker[w].row = worker[v].row
          /\ worker[w].row \notin reaped
          => w = v
    /\ \A w, v \in Workers :
          /\ worker[w].step = "attach" /\ worker[v].step = "attach"
          /\ worker[w].row = worker[v].row
          => w = v

\* What a worker has in hand is the body of its row, unless the numbering has
\* changed since the row was listed; what it has written and found stays, unless
\* a body was attached there for a reaped row.
ContentInv ==
    \A w \in Workers :
        /\ worker[w].step \in {"put", "look", "attach", "ingest"} =>
              worker[w].content \in Contents
        /\ worker[w].step \in {"look", "attach", "ingest"} =>
              worker[w].content \in blobs
        /\ /\ worker[w].step \in {"put", "look", "attach"}
           /\ worker[w].row \in Live
           /\ rows[worker[w].row].epoch = epoch
           => worker[w].content = rows[worker[w].row].of
        /\ worker[w].step = "attach" /\ worker[w].existing # 0 =>
              /\ worker[w].existing # rows[worker[w].row].mid
              /\ \/ worker[w].existing \in doubtful
                 \/ messages[worker[w].existing].digest = worker[w].content
        /\ worker[w].step = "ingest" /\ worker[w].row \in Live =>
              \/ rows[worker[w].row].mid \in doubtful
              \/ messages[rows[worker[w].row].mid].digest = worker[w].content

\* A current row shows its own message: its body, or before that its subject.
MatchInv ==
    \A r \in Ids : Current(r) /\ rows[r].mid \notin doubtful =>
        /\ rows[r].state = "stored" => messages[rows[r].mid].digest = rows[r].of
        /\ rows[r].state # "stored" => messages[rows[r].mid].subject = rows[r].of

IInv == /\ TypeOK /\ RowInv /\ LinkInv /\ ServerInv /\ MessageInv
        /\ HoldInv /\ ContentInv /\ MatchInv

-----------------------------------------------------------------------------
(* Rows and workers *)

\* The types of the three tables.
RowType == [uid : UIDs \cup {NoUID}, mid : Ids \cup {0},
            state : {"none", "pending", "fetching", "stored"},
            of : Contents \cup {None}, epoch : 0 .. MaxEpoch]
MessageType == [digest : Contents \cup {None}, uid : UIDs \cup {NoUID},
                subject : Contents \cup {None}, envelope : Contents \cup {None},
                received : Contents \cup {None}, blob : Contents \cup {None},
                parsed : Contents \cup {None}]
WorkerType == [step : {"free", "fetch", "put", "look", "attach", "ingest"},
               row : Ids \cup {0}, uid : UIDs \cup {NoUID},
               content : Contents \cup {None}, existing : Ids \cup {0}]

\* They are those of TypeOK, and the empty records belong to them.
LEMMA Types ==
    /\ TypeOK => /\ rows \in [Ids -> RowType]
                 /\ messages \in [Ids -> MessageType]
                 /\ worker \in [Workers -> WorkerType]
    /\ NoRow \in RowType
    /\ NoMessage \in MessageType
    /\ Free \in WorkerType
<1>1. TypeOK => /\ rows \in [Ids -> RowType]
                /\ messages \in [Ids -> MessageType]
                /\ worker \in [Workers -> WorkerType]
   BY DEF TypeOK, RowType, MessageType, WorkerType
<1>2. NoRow \in RowType
   BY DEF NoRow, RowType
<1>3. NoMessage \in MessageType
   BY DEF NoMessage, MessageType
<1>4. Free \in WorkerType
   BY DEF Free, WorkerType
<1>5. QED
   BY <1>1, <1>2, <1>3, <1>4

\* A row without a body of its own that is claimed, given back or reaped.
LEMMA StateChange ==
    ASSUME IInv, NEW r \in Live, rows[r].state # "stored" \/ rows[r].mid \in doubtful,
           NEW s \in {"pending", "fetching"},
           rows' = [rows EXCEPT ![r].state = s],
           UNCHANGED <<upstream, epoch, messages, lastRow, doubtful>>,
           reaped' \subseteq reaped \cup {r}
    PROVE  /\ rows' \in [Ids -> RowType]
           /\ Live' = Live
           /\ \A q \in Ids : /\ rows'[q].uid = rows[q].uid
                             /\ rows'[q].mid = rows[q].mid
                             /\ rows'[q].of = rows[q].of
                             /\ rows'[q].epoch = rows[q].epoch
                             /\ rows'[q].state = IF q = r THEN s ELSE rows[q].state
           /\ RowInv' /\ LinkInv' /\ ServerInv' /\ MatchInv'
<1>1. rows \in [Ids -> RowType] /\ r \in Ids
   BY Types DEF IInv, Live
<1>2. \A q \in Ids : rows'[q] = IF q = r THEN [rows[r] EXCEPT !.state = s] ELSE rows[q]
   BY <1>1
<1>3. rows' \in [Ids -> RowType]
   BY <1>1 DEF RowType
<1>4. \A q \in Ids : /\ rows'[q].uid = rows[q].uid
                     /\ rows'[q].mid = rows[q].mid
                     /\ rows'[q].of = rows[q].of
                     /\ rows'[q].epoch = rows[q].epoch
                     /\ rows'[q].state = IF q = r THEN s ELSE rows[q].state
   BY <1>1, <1>2 DEF RowType
<1>5. Live' = Live
  <2>1. NoRow.state = "none"
     BY DEF NoRow
  <2>2. rows'[r] # NoRow
     BY <1>1, <1>4, <2>1
  <2>3. QED
     BY <1>1, <1>2, <2>2 DEF Live
<1>6. RowInv'
   BY <1>4, <1>5 DEF IInv, RowInv, Live
<1>7. LinkInv'
   BY <1>4, <1>5 DEF IInv, LinkInv, Live
<1>8. \A q \in Ids : Current(q)' <=> Current(q)
   BY <1>4, <1>5 DEF Current
<1>9. ServerInv'
   BY <1>4, <1>8 DEF IInv, ServerInv
<1>10. MatchInv'
   BY <1>4, <1>8 DEF IInv, MatchInv
<1>11. QED
   BY <1>3, <1>4, <1>5, <1>6, <1>7, <1>9, <1>10

-----------------------------------------------------------------------------
(* Steps *)

\* The server loses a message.
LEMMA ExpungeStep ==
    ASSUME IInv, NEW u \in UIDs, Expunge(u)
    PROVE  IInv'
<1>1. TypeOK'
   BY DEF IInv, Expunge, TypeOK
<1>2. ServerInv'
   BY DEF IInv, Expunge, TypeOK, ServerInv, Current, Live
<1>3. /\ RowInv' /\ LinkInv' /\ MessageInv' /\ HoldInv'
      /\ ContentInv' /\ MatchInv'
   BY DEF IInv, Expunge, RowInv, Live, LinkInv, MessageInv, HoldInv, Running,
          ContentInv, MatchInv, Current
<1>4. QED
   BY <1>1, <1>2, <1>3 DEF IInv

\* No row is current after a renumbering.
LEMMA RenumberStep ==
    ASSUME IInv, Renumber
    PROVE  IInv'
<1>1. /\ epoch' = epoch + 1 /\ epoch' \in 1 .. MaxEpoch
      /\ upstream' \in [UIDs -> Contents \cup {None}]
   BY DEF IInv, TypeOK, Renumber
<1>2. \A r \in Live : rows[r].epoch \in Nat /\ rows[r].epoch < epoch'
   BY <1>1, Types DEF IInv, TypeOK, RowInv, Live, RowType
<1>3. Live' = Live
   BY DEF Renumber, Live
<1>4. \A r \in Ids : ~Current(r)'
   BY <1>1, <1>2, <1>3 DEF Renumber, Current
<1>5. TypeOK'
   BY <1>1 DEF IInv, TypeOK, Renumber
<1>6. RowInv'
   BY DEF IInv, Renumber, TypeOK, RowInv, Live
<1>7. ServerInv'
   BY <1>4 DEF ServerInv
<1>8. ContentInv'
   BY <1>2, <1>3 DEF IInv, Renumber, ContentInv
<1>9. MatchInv'
   BY <1>4 DEF MatchInv
<1>10. LinkInv' /\ MessageInv' /\ HoldInv'
   BY DEF IInv, Renumber, LinkInv, Live, MessageInv, HoldInv, Running
<1>11. QED
   BY <1>5, <1>6, <1>7, <1>8, <1>9, <1>10 DEF IInv

\* A pass starts with workers that have nothing, and may forget all UIDs.
LEMMA StartPassStep ==
    ASSUME IInv, StartPass
    PROVE  IInv'
<1> DEFINE reset == validity \notin {0, epoch}
<1>1. \A w \in Workers : worker[w].step = "free"
   BY DEF IInv, HoldInv, StartPass
<1>2. CASE ~reset
  <2>1. UNCHANGED rows
     BY <1>2 DEF StartPass
  <2>2. TypeOK'
     BY <1>2, <2>1 DEF IInv, TypeOK, StartPass
  <2>3. HoldInv'
     BY <1>1, <2>1 DEF IInv, StartPass, HoldInv, Live
  <2>4. RowInv' /\ LinkInv' /\ ServerInv' /\ MessageInv' /\ ContentInv' /\ MatchInv'
     BY <2>1 DEF IInv, StartPass, RowInv, LinkInv, ServerInv, MessageInv, ContentInv,
                 MatchInv, Current, Live
  <2>5. QED
     BY <2>2, <2>3, <2>4 DEF IInv
<1>3. CASE reset
  <2>1. rows' = [r \in Ids |-> IF r \in Live THEN [rows[r] EXCEPT !.uid = NoUID]
                                             ELSE rows[r]]
     BY <1>3 DEF StartPass, ResetForUIDValidityChange
  <2>2. rows \in [Ids -> RowType]
     BY Types DEF IInv
  <2>3. rows' \in [Ids -> RowType]
     BY <2>1, <2>2 DEF RowType
  <2>4. \A q \in Ids : /\ rows'[q].mid = rows[q].mid
                       /\ rows'[q].of = rows[q].of
                       /\ rows'[q].epoch = rows[q].epoch
                       /\ rows'[q].state = rows[q].state
                       /\ q \in Live => rows'[q].uid = NoUID
     BY <2>1, <2>2 DEF RowType
  <2>5. Live' = Live
    <3>1. NoRow.state = "none"
       BY DEF NoRow
    <3>2. \A q \in Live : rows'[q] # NoRow
       BY <2>4, <3>1 DEF IInv, RowInv, Live
    <3>3. \A q \in Ids \ Live : rows'[q] = rows[q]
       BY <2>1
    <3>4. QED
       BY <3>2, <3>3 DEF Live
  <2>6. TypeOK'
    <3>1. /\ selected' = epoch /\ validity' = epoch
          /\ UNCHANGED <<upstream, epoch, messages, lastRow, blobs, worker, reaped,
                         doubtful, faults>>
       BY <1>3 DEF StartPass
    <3>2. epoch \in 1 .. MaxEpoch /\ epoch \in 0 .. MaxEpoch
       BY DEF IInv, TypeOK
    <3>3. QED
       BY <2>3, <3>1, <3>2 DEF IInv, TypeOK, RowType
  <2>7. RowInv'
     BY <2>4, <2>5 DEF IInv, RowInv, StartPass, Live
  <2>8. LinkInv'
     BY <2>4, <2>5 DEF IInv, LinkInv, StartPass, Live
  <2>9. ServerInv' /\ MatchInv'
     BY <2>4, <2>5 DEF ServerInv, MatchInv, Current
  <2>10. HoldInv'
     BY <1>1 DEF IInv, StartPass, HoldInv
  <2>11. ContentInv' /\ MessageInv'
     BY <1>1 DEF IInv, StartPass, ContentInv, MessageInv
  <2>12. QED
     BY <2>6, <2>7, <2>8, <2>9, <2>10, <2>11 DEF IInv
<1>4. QED
   BY <1>2, <1>3

\* A checkpoint is taken.
LEMMA SaveCheckpointStep ==
    ASSUME IInv, SaveCheckpoint
    PROVE  IInv'
<1>1. TypeOK'
   BY DEF IInv, SaveCheckpoint, Running, TypeOK
<1>2. /\ RowInv' /\ LinkInv' /\ ServerInv' /\ MessageInv'
      /\ HoldInv' /\ ContentInv' /\ MatchInv'
   BY DEF IInv, SaveCheckpoint, RowInv, Live, LinkInv, ServerInv, Current,
          MessageInv, HoldInv, Running, ContentInv, MatchInv
<1>3. QED
   BY <1>1, <1>2 DEF IInv

\* A new row, with a placeholder that is new or that an unlisted row has left.
LEMMA UpsertMetadataStep ==
    ASSUME IInv, NEW u \in UIDs, UpsertMetadata(u)
    PROVE  IInv'
<1> DEFINE l == lastRow + 1
<1>1. rows \in [Ids -> RowType] /\ messages \in [Ids -> MessageType]
   BY Types DEF IInv
<1>2. l \in Ids /\ lastRow' = l /\ lastRow \in Nat /\ lastRow < l
   BY DEF IInv, TypeOK, UpsertMetadata
<1>3. l \notin Live /\ messages[l] = NoMessage
   BY <1>2 DEF IInv, RowInv, MessageInv
<1>4. upstream[u] \in Contents /\ epoch \in 0 .. MaxEpoch
   BY DEF IInv, TypeOK, UpsertMetadata
<1>5. \A r \in Live : r \in Ids /\ rows[r].mid \in Ids /\ rows[r].mid # l /\ rows[r].uid # u
  <2>1. \A r \in Live : rows[r].uid # u
     BY DEF UpsertMetadata, Listed
  <2>2. QED
     BY <1>2, <2>1 DEF IInv, TypeOK, RowInv, Live
\* A messages row changes only if it is the new one or a placeholder of the
\* UID, and only in its subject.
<1>6. PICK m \in 1 .. l :
         /\ rows' = [rows EXCEPT ![l] = [uid |-> u, mid |-> m, state |-> "pending",
                                         of |-> upstream[u], epoch |-> epoch]]
         /\ messages'[m].digest = None /\ messages'[m].uid = u
         /\ messages'[m].subject = upstream[u] /\ m \notin doubtful
         /\ messages' \in [Ids -> MessageType]
         /\ \A j \in Ids :
               /\ messages'[j].digest = messages[j].digest
               /\ messages'[j].blob = messages[j].blob
               /\ messages'[j].parsed = messages[j].parsed
               /\ j # l => messages'[j].uid = messages[j].uid
               /\ messages'[j] # messages[j] =>
                     j <= l /\ messages[j].digest = None
               /\ messages'[j] # messages[j] /\ j # l => messages[j].uid = u
  <2>1. CASE Placeholder(u) = {}
    <3>1. /\ rows' = [rows EXCEPT ![l] = [uid |-> u, mid |-> l, state |-> "pending",
                                          of |-> upstream[u], epoch |-> epoch]]
          /\ messages' = [messages EXCEPT ![l] = Described(u)]
       BY <2>1 DEF UpsertMetadata, UpsertMessage
    <3>2. /\ \A j \in Ids \ {l} : messages'[j] = messages[j]
          /\ messages'[l] = Described(u)
       BY <1>1, <1>2, <3>1
    <3>3. /\ messages'[l].digest = None /\ messages'[l].uid = u
          /\ messages'[l].subject = upstream[u]
          /\ messages'[l].blob = None /\ messages'[l].parsed = None
          /\ messages[l].digest = None /\ messages[l].blob = None
          /\ messages[l].parsed = None
       BY <1>3, <3>2 DEF NoMessage, Described
    <3>4. messages' \in [Ids -> MessageType]
       BY <1>1, <1>2, <1>4, <3>1 DEF NoMessage, MessageType, Described
    <3>5. l \in 1 .. l /\ l <= l /\ l \notin doubtful
       BY <1>2 DEF IInv, MessageInv
    <3> HIDE DEF l
    <3>6. QED
       BY <3>1, <3>2, <3>3, <3>4, <3>5
  <2>2. CASE Placeholder(u) # {}
    <3> DEFINE m == CHOOSE i \in Placeholder(u) : TRUE
    <3>1. m \in Placeholder(u)
       BY <2>2
    <3>2. /\ rows' = [rows EXCEPT ![l] = [uid |-> u, mid |-> m, state |-> "pending",
                                          of |-> upstream[u], epoch |-> epoch]]
          /\ messages' = [i \in Ids |-> IF i \in Placeholder(u)
                                        THEN [messages[i] EXCEPT !.subject = upstream[u]]
                                        ELSE messages[i]]
       BY <2>2 DEF UpsertMetadata, UpsertMessage
    <3> HIDE DEF m
    <3>3. \A i \in Placeholder(u) : /\ i \in Ids /\ i <= lastRow
                                     /\ messages[i].digest = None /\ messages[i].uid = u
      <4>1. \A i \in Placeholder(u) : /\ i \in Ids /\ messages[i] # NoMessage
                                       /\ messages[i].digest = None /\ messages[i].uid = u
         BY DEF Placeholder, LiveMessages
      <4>2. QED
         BY <1>2, <4>1 DEF IInv, MessageInv
    <3>4. messages' \in [Ids -> MessageType]
      <4>1. \A i \in Ids : [messages[i] EXCEPT !.subject = upstream[u]] \in MessageType
         BY <1>1, <1>4 DEF MessageType
      <4>2. QED
         BY <1>1, <3>2, <4>1
    <3>5. \A j \in Ids : /\ messages'[j].digest = messages[j].digest
                         /\ messages'[j].blob = messages[j].blob
                         /\ messages'[j].parsed = messages[j].parsed
                         /\ messages'[j].uid = messages[j].uid
                         /\ j \notin Placeholder(u) => messages'[j] = messages[j]
                         /\ j \in Placeholder(u) => messages'[j].subject = upstream[u]
       BY <1>1, <3>2 DEF MessageType
    <3>6. m \in 1 .. l /\ \A i \in Placeholder(u) : i <= l
       BY <1>2, <3>1, <3>3
    <3>8. m \notin doubtful
       BY <3>1, <3>3 DEF IInv, MessageInv, Placeholder, LiveMessages
    <3> HIDE DEF l
    <3>7. QED
       BY <3>1, <3>2, <3>3, <3>4, <3>5, <3>6, <3>8
  <2>3. QED
     BY <2>1, <2>2
<1> HIDE DEF l
<1>7. m \in Ids
   BY <1>2
<1>8. /\ rows' \in [Ids -> RowType]
      /\ \A q \in Ids \ {l} : rows'[q] = rows[q]
      /\ rows'[l].uid = u /\ rows'[l].mid = m /\ rows'[l].state = "pending"
      /\ rows'[l].of = upstream[u] /\ rows'[l].epoch = epoch
   BY <1>1, <1>2, <1>4, <1>6, <1>7 DEF RowType
<1>9. Live' = Live \cup {l}
  <2>1. rows'[l] # NoRow
     BY <1>8 DEF NoRow
  <2>2. QED
     BY <1>2, <1>8, <2>1 DEF Live
<1>10. UNCHANGED <<upstream, epoch, validity, selected, blobs, worker, reaped, doubtful, faults>>
   BY DEF UpsertMetadata
<1>11. TypeOK'
  <2>1. rows' \in [Ids -> RowType] /\ messages' \in [Ids -> MessageType]
        /\ lastRow' \in 0 .. MaxRows
     BY <1>2, <1>6, <1>8
  <2>2. QED
     BY <1>10, <2>1 DEF IInv, TypeOK, RowType, MessageType
<1>12. \A q \in Live : q # l /\ rows'[q] = rows[q]
   BY <1>3, <1>5, <1>8
<1>13. RowInv'
  <2>1. \A q \in Live : q <= l /\ rows[q].mid \in 1 .. l
     BY <1>2 DEF IInv, RowInv, TypeOK, Live
  <2>2. epoch <= epoch /\ l <= l
     BY <1>2, <1>4
  <2>3. \A q \in Live' : /\ q <= l /\ rows'[q].mid \in 1 .. l
                         /\ rows'[q].state # "none" /\ rows'[q].epoch <= epoch
     BY <1>6, <1>8, <1>9, <1>12, <2>1, <2>2 DEF IInv, RowInv
  <2>4. \A q, p \in Live' : rows'[q].uid = rows'[p].uid /\ rows'[q].uid # NoUID => q = p
     BY <1>5, <1>8, <1>9, <1>12 DEF IInv, RowInv
  <2>5. QED
     BY <1>2, <1>10, <2>3, <2>4 DEF RowInv
<1>14. LinkInv'
  <2> SUFFICES ASSUME NEW q \in Live'
               PROVE  /\ rows'[q].state = "stored" \/ rows'[q].mid \in doubtful =>
                            messages'[rows'[q].mid].digest # None
                      /\ /\ rows'[q].state # "stored" \/ q \in reaped
                         /\ rows'[q].uid # NoUID
                         /\ rows'[q].mid \notin doubtful
                         => /\ messages'[rows'[q].mid].digest = None
                            /\ messages'[rows'[q].mid].uid = rows'[q].uid
     BY <1>10 DEF LinkInv
  <2>1. CASE q = l
     BY <1>6, <1>8, <2>1
  <2>2. CASE q # l
    <3>1. q \in Live /\ rows'[q] = rows[q]
       BY <1>9, <1>12, <2>2
    <3>2. /\ messages'[rows[q].mid].digest = messages[rows[q].mid].digest
          /\ messages'[rows[q].mid].uid = messages[rows[q].mid].uid
       BY <1>5, <1>6, <3>1
    <3>3. QED
       BY <3>1, <3>2 DEF IInv, LinkInv
  <2>3. QED
     BY <2>1, <2>2
<1>15. \A q \in Ids : Current(q)' <=> Current(q) \/ q = l
   BY <1>2, <1>3, <1>8, <1>9, <1>10, <1>12 DEF Current
<1>16. ServerInv'
   BY <1>8, <1>10, <1>12, <1>15 DEF IInv, ServerInv, Current
<1>17. MessageInv'
  <2> SUFFICES ASSUME NEW j \in Ids
               PROVE  /\ j > l => messages'[j] = NoMessage
                      /\ messages'[j].digest # None =>
                            /\ messages'[j].blob = messages'[j].digest
                            /\ messages'[j].digest \in blobs
                      /\ messages'[j].digest = None => messages'[j].parsed = None
                      /\ j \notin doubtful =>
                            messages'[j].parsed \in {None, messages'[j].digest}
                      /\ j \in doubtful =>
                            j <= l /\ (messages'[j].digest # None \/ messages'[j] = NoMessage)
                      /\ messages'[j].parsed \in Contents \ Untitled =>
                            /\ messages'[j].subject = messages'[j].parsed
                            /\ messages'[j].envelope = messages'[j].parsed
     BY <1>2, <1>10 DEF MessageInv
  <2>1. /\ j > l => messages'[j] = messages[j] /\ j > lastRow
        /\ j <= lastRow => j <= l
     BY <1>2, <1>6
  <2>2. CASE messages'[j] = messages[j]
     BY <2>1, <2>2 DEF IInv, MessageInv
  <2>3. CASE messages'[j] # messages[j]
    <3>1. messages[j].digest = None
       BY <1>6, <2>3
    <3>2. messages[j].parsed = None
       BY <3>1 DEF IInv, MessageInv
    <3>4. j \notin doubtful
      <4>1. j \in doubtful => j <= lastRow /\ messages[j] = NoMessage
         BY <3>1 DEF IInv, MessageInv
      <4>2. j # l => messages[j] # NoMessage
         BY <1>4, <1>6, <2>3 DEF NoMessage
      <4>3. QED
         BY <1>2, <4>1, <4>2
    <3>3. QED
       BY <1>6, <2>1, <2>3, <3>1, <3>2, <3>4
  <2>4. QED
     BY <2>2, <2>3
<1>18. HoldInv'
  <2>1. \A v \in Workers : worker[v].step # "free" =>
           worker[v].row \in 1 .. lastRow /\ worker[v].row \in 1 .. l /\ worker[v].row # l
     BY <1>2 DEF IInv, HoldInv
  <2>2. \A v \in Workers : worker[v].row \in Live' /\ worker[v].step # "free" =>
           worker[v].row \in Live /\ rows'[worker[v].row] = rows[worker[v].row]
     BY <1>9, <1>12, <2>1
  <2>3. \A v \in Workers : worker[v].row \in Live => worker[v].row \in Live'
     BY <1>9
  <2>4. QED
     BY <1>2, <1>10, <2>1, <2>2, <2>3 DEF IInv, HoldInv, Running
<1>19. ContentInv'
  <2>1. \A v \in Workers : worker[v].row \in Live' /\ worker[v].step # "free" =>
           worker[v].row \in Live /\ rows'[worker[v].row] = rows[worker[v].row]
    <3>1. \A v \in Workers : worker[v].step # "free" => worker[v].row # l
       BY <1>2 DEF IInv, HoldInv
    <3>2. QED
       BY <1>9, <1>12, <3>1
  <2>2. \A v \in Workers : worker[v].existing # 0 => worker[v].existing \in Ids
     BY Types DEF IInv, WorkerType
  <2>3. \A v \in Workers : worker[v].row \in Live => rows[worker[v].row].mid \in Ids
     BY <1>5
  <2>4. QED
     BY <1>6, <1>10, <2>1, <2>2, <2>3 DEF IInv, ContentInv
<1>20. MatchInv'
  <2> SUFFICES ASSUME NEW q \in Ids, Current(q)', rows'[q].mid \notin doubtful
               PROVE  /\ rows'[q].state = "stored" =>
                            messages'[rows'[q].mid].digest = rows'[q].of
                      /\ rows'[q].state # "stored" =>
                            messages'[rows'[q].mid].subject = rows'[q].of
     BY <1>10 DEF MatchInv
  <2>1. CASE q = l
     BY <1>6, <1>8, <2>1
  <2>2. CASE q # l
    <3>1. Current(q) /\ q \in Live /\ rows'[q] = rows[q] /\ rows[q].uid # NoUID
       BY <1>12, <1>15, <2>2 DEF Current
    <3>2. rows[q].mid \in Ids /\ rows[q].mid # l /\ rows[q].uid # u
       BY <1>5, <3>1
    <3>3. CASE rows[q].state = "stored"
       BY <1>6, <3>1, <3>2, <3>3 DEF IInv, MatchInv
    <3>4. CASE rows[q].state # "stored"
      <4>1. messages[rows[q].mid].uid = rows[q].uid
         BY <3>1, <3>4 DEF IInv, LinkInv
      <4>2. messages'[rows[q].mid] = messages[rows[q].mid]
         BY <1>6, <3>2, <4>1
      <4>3. QED
         BY <3>1, <3>4, <4>2 DEF IInv, MatchInv
    <3>5. QED
       BY <3>3, <3>4
  <2>3. QED
     BY <2>1, <2>2
<1>21. QED
   BY <1>11, <1>13, <1>14, <1>16, <1>17, <1>18, <1>19, <1>20 DEF IInv

\* Rows go, no locked one among them.
LEMMA DeleteMissingStep ==
    ASSUME IInv, DeleteMissing
    PROVE  IInv'
<1>1. TypeOK'
  <2>1. PICK missing \in SUBSET Live :
           rows' = [r \in Ids |-> IF r \in missing THEN NoRow ELSE rows[r]]
     BY DEF DeleteMissing
  <2>2. rows' \in [Ids -> RowType]
     BY <2>1, Types DEF IInv
  <2>3. QED
     BY <2>2 DEF IInv, DeleteMissing, TypeOK, RowType
<1>2. RowInv'
   BY DEF IInv, DeleteMissing, Locked, TypeOK, RowInv, Live
<1>3. LinkInv'
   BY DEF IInv, DeleteMissing, Locked, TypeOK, LinkInv, Live
<1>4. ServerInv'
   BY DEF IInv, DeleteMissing, Locked, TypeOK, ServerInv, Current, Live
<1>5. HoldInv'
   BY DEF IInv, DeleteMissing, Locked, TypeOK, HoldInv, Live, Running
<1>6. ContentInv'
  <2>1. PICK missing \in SUBSET Live :
           /\ missing \cap Locked = {}
           /\ rows' = [r \in Ids |-> IF r \in missing THEN NoRow ELSE rows[r]]
     BY DEF DeleteMissing
  <2>2. Live' = Live \ missing /\ \A r \in Live' : rows'[r] = rows[r]
     BY <2>1 DEF Live
  <2>3. \A w \in Workers : worker[w].step = "attach" =>
           rows'[worker[w].row] = rows[worker[w].row]
     BY <2>1 DEF IInv, HoldInv, Locked, Live
  <2>4. UNCHANGED <<epoch, messages, blobs, worker, doubtful>>
     BY DEF DeleteMissing
  <2>5. QED
     BY <2>2, <2>3, <2>4 DEF IInv, ContentInv
<1>7. MatchInv'
   BY DEF IInv, DeleteMissing, Locked, TypeOK, MatchInv, Current, Live
<1>8. MessageInv'
   BY DEF IInv, DeleteMissing, MessageInv
<1>9. QED
   BY <1>1, <1>2, <1>3, <1>4, <1>5, <1>6, <1>7, <1>8 DEF IInv

\* A pass ends when its workers have nothing.
LEMMA EndPassStep ==
    ASSUME IInv, EndPass
    PROVE  IInv'
<1>1. TypeOK'
   BY DEF IInv, EndPass, Running, Free, TypeOK
<1>2. HoldInv'
   BY DEF IInv, EndPass, Running, Free, TypeOK, HoldInv, Live
<1>3. /\ RowInv' /\ LinkInv' /\ ServerInv' /\ MessageInv'
      /\ ContentInv' /\ MatchInv'
   BY DEF IInv, EndPass, RowInv, Live, LinkInv, ServerInv, Current, MessageInv,
          ContentInv, MatchInv
<1>4. QED
   BY <1>1, <1>2, <1>3 DEF IInv

\* After a crash the workers have nothing.
LEMMA CrashStep ==
    ASSUME IInv, Crash
    PROVE  IInv'
<1>1. TypeOK'
   BY DEF IInv, Crash, Free, Fault, Running, TypeOK
<1>2. HoldInv'
   BY DEF IInv, Crash, Free, Fault, Running, TypeOK, HoldInv, Live
<1>3. ContentInv'
   BY DEF IInv, Crash, Free, Fault, Running, TypeOK, ContentInv, Live
<1>4. RowInv' /\ LinkInv' /\ ServerInv' /\ MessageInv' /\ MatchInv'
   BY DEF IInv, Crash, RowInv, Live, LinkInv, ServerInv, Current, MessageInv, MatchInv
<1>5. QED
   BY <1>1, <1>2, <1>3, <1>4 DEF IInv

\* A worker takes a row that no other has, unless it was reaped.
LEMMA ClaimStep ==
    ASSUME IInv, NEW w \in Workers, NEW r \in Ids, Claim(w, r)
    PROVE  IInv'
<1>1. worker \in [Workers -> WorkerType] /\ rows \in [Ids -> RowType]
   BY Types DEF IInv
<1>2. r \in Live /\ rows[r].state # "stored"
   BY DEF Claim, Live, NoRow
<1>3. /\ rows' \in [Ids -> RowType]
      /\ Live' = Live
      /\ \A q \in Ids : /\ rows'[q].uid = rows[q].uid
                        /\ rows'[q].mid = rows[q].mid
                        /\ rows'[q].of = rows[q].of
                        /\ rows'[q].epoch = rows[q].epoch
                        /\ rows'[q].state = IF q = r THEN "fetching" ELSE rows[q].state
      /\ RowInv' /\ LinkInv' /\ ServerInv' /\ MatchInv'
   BY <1>2, StateChange DEF Claim
<1>4. worker' \in [Workers -> WorkerType]
   BY <1>1 DEF Claim, Free, WorkerType, RowType
<1>5. /\ \A v \in Workers \ {w} : worker'[v] = worker[v]
      /\ worker'[w].step = "fetch" /\ worker'[w].row = r
      /\ worker'[w].uid = rows[r].uid
   BY <1>1 DEF Claim, Free
<1>6. \A v \in Workers : worker[v].row = r => r \in reaped /\ worker[v].step # "attach"
  <2> SUFFICES ASSUME NEW v \in Workers, worker[v].row = r
               PROVE  r \in reaped /\ worker[v].step # "attach"
     OBVIOUS
  <2>1. worker[v].step # "free"
     BY DEF IInv, HoldInv, Free
  <2>2. r \in reaped
     BY <1>2, <2>1 DEF IInv, HoldInv, Claim
  <2>3. worker[v].step # "attach"
     BY DEF Claim, Locked
  <2>4. QED
     BY <2>2, <2>3
<1>7. TypeOK'
   BY <1>3, <1>4 DEF IInv, Claim, TypeOK, WorkerType, RowType
<1>8. RowInv'
   BY <1>3
<1>9. LinkInv'
   BY <1>3
<1>10. ServerInv'
   BY <1>3
<1>11. HoldInv'
  <2>1. r \in 1 .. lastRow
     BY <1>2 DEF IInv, TypeOK, RowInv, Live
  <2>2. \A v \in Workers \ {w} : worker[v].row \in Live \ reaped =>
           rows'[worker[v].row].state = rows[worker[v].row].state
     BY <1>3, <1>6 DEF Live
  <2>4. reaped' = reaped /\ rows'[r].state = "fetching" /\ r \in Ids
     BY <1>3 DEF Claim
  <2>3. QED
     BY <1>3, <1>5, <1>6, <2>1, <2>2, <2>4 DEF IInv, HoldInv, Claim, Running, Live
<1>12. ContentInv'
   BY <1>3, <1>5, <1>6 DEF IInv, ContentInv, Claim, Live
<1>13. MatchInv'
   BY <1>3
<1>14. MessageInv'
   BY DEF IInv, Claim, MessageInv
<1>15. QED
   BY <1>7, <1>8, <1>9, <1>10, <1>11, <1>12, <1>13, <1>14 DEF IInv

\* The body under the claimed UID is that of the row, if it is current.
LEMMA FetchBodyStep ==
    ASSUME IInv, NEW w \in Workers, FetchBody(w)
    PROVE  IInv'
<1>1. worker[w].uid \in UIDs /\ upstream[worker[w].uid] \in Contents
   BY DEF IInv, TypeOK, HoldInv, FetchBody
<1>2. worker \in [Workers -> WorkerType]
   BY Types DEF IInv
<1>3. \A v \in Workers \ {w} : worker'[v] = worker[v]
   BY <1>2 DEF FetchBody
<1>4. /\ worker'[w].step = "put" /\ worker'[w].row = worker[w].row
      /\ worker'[w].content = upstream[worker[w].uid]
   BY <1>2 DEF FetchBody, WorkerType
<1>5. worker' \in [Workers -> WorkerType]
  <2> DEFINE new == [worker[w] EXCEPT !.step = "put",
                                      !.content = upstream[worker[w].uid]]
  <2>1. new \in WorkerType
     BY <1>1, <1>2 DEF WorkerType
  <2>2. worker' = [worker EXCEPT ![w] = new]
     BY <1>2 DEF FetchBody
  <2> HIDE DEF new
  <2>3. QED
     BY <1>2, <2>1, <2>2
<1>6. TypeOK'
   BY <1>5 DEF IInv, FetchBody, TypeOK, WorkerType
<1>7. HoldInv'
   BY DEF IInv, FetchBody, TypeOK, HoldInv, Live, Running
<1>8. ContentInv'
  <2>1. ASSUME worker[w].row \in Live, rows[worker[w].row].epoch = epoch
        PROVE  upstream[worker[w].uid] = rows[worker[w].row].of
    <3>1. rows[worker[w].row].uid = worker[w].uid /\ worker[w].uid # NoUID
       BY <2>1 DEF IInv, HoldInv, FetchBody
    <3>2. Current(worker[w].row) /\ worker[w].row \in Ids
       BY <2>1, <3>1 DEF Current, Live
    <3>3. QED
       BY <3>1, <3>2, <1>1 DEF IInv, ServerInv
  <2>2. Live' = Live /\ UNCHANGED <<rows, epoch, blobs, messages, doubtful>>
     BY DEF FetchBody, Live
  <2>3. worker'[w].content \in Contents
     BY <1>1, <1>4
  <2>4. worker[w].row \in Live /\ rows[worker[w].row].epoch = epoch =>
           worker'[w].content = rows[worker[w].row].of
     BY <1>4, <2>1
  <2>5. QED
     BY <1>3, <1>4, <2>2, <2>3, <2>4 DEF IInv, ContentInv
<1>9. RowInv' /\ LinkInv' /\ ServerInv' /\ MessageInv' /\ MatchInv'
   BY DEF IInv, FetchBody, RowInv, Live, LinkInv, ServerInv, Current, MessageInv,
          MatchInv
<1>10. QED
   BY <1>6, <1>7, <1>8, <1>9 DEF IInv

\* The worker lets go of its row.
LEMMA FetchNothingStep ==
    ASSUME IInv, NEW w \in Workers, FetchNothing(w)
    PROVE  IInv'
<1>1. TypeOK'
   BY DEF IInv, FetchNothing, Free, TypeOK
<1>2. HoldInv'
   BY DEF IInv, FetchNothing, Free, TypeOK, HoldInv, Live, Running
<1>3. ContentInv'
   BY DEF IInv, FetchNothing, Free, TypeOK, ContentInv, Live
<1>4. RowInv' /\ LinkInv' /\ ServerInv' /\ MessageInv' /\ MatchInv'
   BY DEF IInv, FetchNothing, RowInv, Live, LinkInv, ServerInv, Current, MessageInv,
          MatchInv
<1>5. QED
   BY <1>1, <1>2, <1>3, <1>4 DEF IInv

\* Blobs are added.
LEMMA PutStep ==
    ASSUME IInv, NEW w \in Workers, Put(w)
    PROVE  IInv'
<1>1. worker \in [Workers -> WorkerType]
   BY Types DEF IInv
<1>2. worker' \in [Workers -> WorkerType]
   BY <1>1 DEF Put, WorkerType
<1>3. blobs' \subseteq Contents
   BY DEF IInv, TypeOK, ContentInv, Put
<1>4. TypeOK'
   BY <1>2, <1>3 DEF IInv, Put, TypeOK, WorkerType
<1>5. MessageInv'
   BY DEF IInv, Put, TypeOK, MessageInv
<1>6. HoldInv'
   BY DEF IInv, Put, TypeOK, HoldInv, Live, Running
<1>7. ContentInv'
   BY DEF IInv, Put, TypeOK, ContentInv, Live
<1>8. RowInv' /\ LinkInv' /\ ServerInv' /\ MatchInv'
   BY DEF IInv, Put, RowInv, Live, LinkInv, ServerInv, Current, MatchInv
<1>9. QED
   BY <1>4, <1>5, <1>6, <1>7, <1>8 DEF IInv

\* The look-up finds a messages row with the digest, or none.
LEMMA AttachLookStep ==
    ASSUME IInv, NEW w \in Workers, AttachLook(w)
    PROVE  IInv'
<1> DEFINE found == WithDigest(worker[w].content) \ {rows[worker[w].row].mid}
           e == IF found = {} THEN 0 ELSE CHOOSE i \in found : TRUE
<1>1. worker \in [Workers -> WorkerType]
   BY Types DEF IInv
<1>2. e # 0 => /\ e \in Ids /\ messages[e].digest = worker[w].content
               /\ e # rows[worker[w].row].mid
   BY DEF WithDigest, LiveMessages
<1> HIDE DEF e
<1>3. worker' = [worker EXCEPT ![w].step = "attach", ![w].existing = e]
   BY DEF AttachLook, e
<1>4. worker' \in [Workers -> WorkerType]
  <2>1. e \in Ids \cup {0}
     BY <1>2
  <2>2. [worker[w] EXCEPT !.step = "attach", !.existing = e] \in WorkerType
     BY <1>1, <2>1 DEF WorkerType
  <2>3. worker' = [worker EXCEPT ![w] = [worker[w] EXCEPT !.step = "attach", !.existing = e]]
     BY <1>1, <1>3
  <2>4. QED
     BY <1>1, <2>2, <2>3
<1>5. /\ \A v \in Workers \ {w} : worker'[v] = worker[v]
      /\ worker'[w].step = "attach" /\ worker'[w].existing = e
      /\ worker'[w].row = worker[w].row /\ worker'[w].content = worker[w].content
   BY <1>1, <1>3 DEF WorkerType
<1>6. TypeOK'
   BY <1>4 DEF IInv, AttachLook, TypeOK, WorkerType
<1>7. HoldInv'
  <2>1. Live' = Live /\ Running' = Running /\ UNCHANGED <<rows, lastRow, reaped>>
     BY DEF AttachLook, Live, Running
  <2>2. /\ worker[w].step = "look" /\ worker[w].row \in Live
        /\ \A v \in Workers : worker[v].step = "attach" => worker[v].row # worker[w].row
     BY DEF AttachLook, Locked
  <2>3. worker'[w].uid = worker[w].uid
     BY <1>1, <1>3 DEF WorkerType
  <2>4. QED
     BY <1>5, <2>1, <2>2, <2>3 DEF IInv, HoldInv
<1>8. ContentInv'
  <2>1. Live' = Live /\ UNCHANGED <<rows, epoch, blobs, messages, doubtful>>
     BY DEF AttachLook, Live
  <2>2. worker[w].step = "look"
     BY DEF AttachLook
  <2>3. QED
     BY <1>2, <1>5, <2>1, <2>2 DEF IInv, ContentInv
<1>9. RowInv' /\ LinkInv' /\ ServerInv' /\ MessageInv' /\ MatchInv'
   BY DEF IInv, AttachLook, RowInv, Live, LinkInv, ServerInv, Current, MessageInv,
          MatchInv
<1>10. QED
   BY <1>6, <1>7, <1>8, <1>9 DEF IInv

\* The row gets the body the worker has.
LEMMA AttachBodyStep ==
    ASSUME IInv, NEW w \in Workers, AttachBody(w)
    PROVE  IInv'
<1> DEFINE r == worker[w].row
           c == worker[w].content
           i == rows[r].mid
<1>1. /\ worker \in [Workers -> WorkerType] /\ rows \in [Ids -> RowType]
      /\ messages \in [Ids -> MessageType]
   BY Types DEF IInv
<1>2. r \in Live /\ r \in Ids /\ rows[r].uid # NoUID
   BY DEF IInv, HoldInv, AttachBody, Live
<1>3. /\ i \in Ids /\ i <= lastRow
      /\ i \in doubtful \/ (messages[i].digest = None /\ messages[i].uid = rows[r].uid)
  <2>1. rows[r].state # "stored" \/ r \in reaped
     BY <1>2 DEF IInv, HoldInv, AttachBody
  <2>2. QED
     BY <1>2, <2>1 DEF IInv, TypeOK, RowInv, LinkInv
<1>4. c \in Contents /\ c \in blobs /\ (rows[r].epoch = epoch => c = rows[r].of)
   BY <1>2 DEF IInv, ContentInv, AttachBody
<1>5. i \notin doubtful => messages[i].parsed = None
   BY <1>3 DEF IInv, MessageInv
<1>6. /\ worker' \in [Workers -> WorkerType]
      /\ \A v \in Workers \ {w} :
            /\ worker'[v] = worker[v]
            /\ worker[v].row = r => r \in reaped /\ worker[v].step # "attach"
      /\ worker'[w].step = "ingest" /\ worker'[w].row = r /\ worker'[w].content = c
      /\ worker'[w].uid = worker[w].uid
  <2>1. worker' = [worker EXCEPT ![w].step = "ingest", ![w].existing = 0]
     BY DEF AttachBody
  <2>2. \A v \in Workers \ {w} : worker[v].row = r => r \in reaped /\ worker[v].step # "attach"
     BY DEF IInv, HoldInv, AttachBody
  <2>3. QED
     BY <1>1, <2>1, <2>2 DEF WorkerType
\* The row is stored, with a messages row that has the body; only the messages
\* row it had changes, or goes.
<1>7. /\ rows' \in [Ids -> RowType] /\ messages' \in [Ids -> MessageType]
      /\ \A q \in Ids \ {r} : rows'[q] = rows[q]
      /\ rows'[r].state = "stored" /\ rows'[r].mid \in 1 .. lastRow
      /\ rows'[r].uid = rows[r].uid /\ rows'[r].of = rows[r].of
      /\ rows'[r].epoch = rows[r].epoch
      /\ messages'[rows'[r].mid].digest # None
      /\ messages'[rows'[r].mid].digest = c \/ rows'[r].mid \in doubtful
      /\ \A j \in Ids \ {i} : messages'[j] = messages[j]
      /\ \/ messages'[i] = messages[i]
         \/ messages'[i] = NoMessage /\ PointingAt(i) \ {r} = {}
         \/ /\ messages'[i].digest = c /\ messages'[i].blob = c
            /\ messages'[i].parsed = messages[i].parsed
            /\ messages'[i].subject = messages[i].subject
            /\ messages'[i].envelope = messages[i].envelope
  <2>1. CASE worker[w].existing # 0
    <3> DEFINE n == worker[w].existing
    <3>0. n \in Ids /\ n # i /\ (n \in doubtful \/ messages[n].digest = c)
       BY <1>1, <2>1 DEF WorkerType, IInv, ContentInv, AttachBody
    <3>1. n \in Ids /\ messages[n].digest # None
      <4>1. messages[n] # NoMessage
         BY <2>1 DEF AttachBody, Attachable, LiveMessages
      <4>2. QED
         BY <1>4, <3>0, <4>1 DEF IInv, MessageInv
    <3>2. n # i /\ n <= lastRow
       BY <3>0, <3>1 DEF IInv, TypeOK, MessageInv, NoMessage
    <3>3. /\ rows' = [rows EXCEPT ![r].mid = n, ![r].state = "stored"]
          /\ messages' = IF PointingAt(i) \ {r} = {} THEN [messages EXCEPT ![i] = NoMessage]
                                                    ELSE messages
       BY <2>1 DEF AttachBody, Relink, Orphaned
    <3> HIDE DEF r, c, i, n
    <3>4. /\ rows' \in [Ids -> RowType]
          /\ \A q \in Ids \ {r} : rows'[q] = rows[q]
          /\ rows'[r].state = "stored" /\ rows'[r].mid = n
          /\ rows'[r].uid = rows[r].uid /\ rows'[r].of = rows[r].of
          /\ rows'[r].epoch = rows[r].epoch
       BY <1>1, <1>2, <3>1, <3>3 DEF RowType
    <3>5. /\ messages' \in [Ids -> MessageType]
          /\ \A j \in Ids \ {i} : messages'[j] = messages[j]
          /\ \/ messages'[i] = messages[i]
             \/ messages'[i] = NoMessage /\ PointingAt(i) \ {r} = {}
       BY <1>1, <1>3, <3>3, Types
    <3>6. n \in 1 .. lastRow
       BY <3>1, <3>2 DEF IInv, TypeOK
    <3>7. /\ messages'[rows'[r].mid].digest # None
          /\ messages'[rows'[r].mid].digest = c \/ rows'[r].mid \in doubtful
       BY <3>0, <3>1, <3>2, <3>4, <3>5
    <3>8. QED
       BY <3>4, <3>5, <3>6, <3>7
  <2>2. CASE worker[w].existing = 0
    <3>1. /\ rows' = [rows EXCEPT ![r].state = "stored"]
          /\ messages' = [messages EXCEPT ![i].digest = c, ![i].blob = c]
       BY <2>2 DEF AttachBody, Record
    <3>2. i \in 1 .. lastRow
       BY <1>3 DEF IInv, TypeOK
    <3>3. i = rows[r].mid
       OBVIOUS
    <3> HIDE DEF r, c, i
    <3>4. /\ rows' \in [Ids -> RowType]
          /\ \A q \in Ids \ {r} : rows'[q] = rows[q]
          /\ rows'[r].state = "stored" /\ rows'[r].mid = i
          /\ rows'[r].uid = rows[r].uid /\ rows'[r].of = rows[r].of
          /\ rows'[r].epoch = rows[r].epoch
       BY <1>1, <1>2, <3>1, <3>3 DEF RowType
    <3>5. /\ messages' \in [Ids -> MessageType]
          /\ \A j \in Ids \ {i} : messages'[j] = messages[j]
          /\ messages'[i].digest = c /\ messages'[i].blob = c
          /\ messages'[i].parsed = messages[i].parsed
          /\ messages'[i].subject = messages[i].subject
          /\ messages'[i].envelope = messages[i].envelope
      <4> DEFINE x == [messages[i] EXCEPT !.digest = c, !.blob = c]
      <4>1. messages' = [messages EXCEPT ![i] = x]
         BY <1>1, <1>3, <3>1
      <4>2. /\ x \in MessageType /\ x.digest = c /\ x.blob = c
            /\ x.parsed = messages[i].parsed /\ x.subject = messages[i].subject
            /\ x.envelope = messages[i].envelope
         BY <1>1, <1>3, <1>4 DEF MessageType
      <4> HIDE DEF x
      <4>3. QED
         BY <1>1, <1>3, <4>1, <4>2
    <3>6. QED
       BY <1>4, <3>2, <3>4, <3>5
  <2>3. QED
     BY <2>1, <2>2
\* A row that was reaped makes its messages row doubtful.
<1>0. /\ reaped' = reaped
      /\ doubtful \subseteq doubtful' /\ doubtful' \subseteq doubtful \cup {rows'[r].mid}
      /\ r \in reaped => rows'[r].mid \in doubtful'
   BY DEF AttachBody
<1> HIDE DEF r, c, i
<1>8. Live' = Live
  <2>1. NoRow.state = "none"
     BY DEF NoRow
  <2>2. rows'[r] # NoRow
     BY <1>7, <2>1
  <2>3. QED
     BY <1>2, <1>7, <2>2 DEF Live
\* What else points at the placeholder is not listed any more.
<1>9. ASSUME NEW q \in Live \ {r}, rows[q].mid = i, i \notin doubtful
      PROVE  rows[q].uid = NoUID /\ rows[q].state # "stored"
  <2>1. rows[q].state # "stored"
     BY <1>3, <1>9 DEF IInv, LinkInv
  <2>2. messages[i].uid = rows[r].uid
     BY <1>3, <1>9
  <2>3. rows[q].uid # NoUID => rows[q].uid = rows[r].uid
     BY <1>9, <2>1, <2>2 DEF IInv, LinkInv
  <2>4. QED
     BY <1>2, <2>1, <2>3 DEF IInv, RowInv
\* A messages row that has a digest keeps it, unless it is doubtful.
<1>10. \A j \in Ids : messages[j].digest # None => messages'[j] = messages[j] \/ j \in doubtful
   BY <1>3, <1>7
<1>11. \A q \in Live \ {r} : q \in Ids /\ rows[q].mid \in Ids
   BY DEF IInv, TypeOK, RowInv, Live
<1>12. TypeOK'
  <2>1. reaped' \subseteq Ids /\ doubtful' \subseteq Ids
    <3>1. rows'[r].mid \in Ids
       BY <1>7 DEF IInv, TypeOK
    <3>2. QED
       BY <1>0, <3>1 DEF IInv, TypeOK
  <2>2. QED
     BY <1>6, <1>7, <2>1 DEF IInv, AttachBody, TypeOK, RowType, MessageType, WorkerType
<1>13. RowInv'
  <2>1. lastRow' = lastRow /\ epoch' = epoch
     BY DEF AttachBody
  <2>2. \A q \in Ids : rows'[q].uid = rows[q].uid /\ rows'[q].epoch = rows[q].epoch
     BY <1>7
  <2>3. \A q \in Live : rows'[q].mid \in 1 .. lastRow /\ rows'[q].state # "none"
     BY <1>7 DEF IInv, RowInv, Live
  <2>4. QED
     BY <1>8, <2>1, <2>2, <2>3 DEF IInv, RowInv, Live
<1>14. LinkInv'
  <2> SUFFICES ASSUME NEW q \in Live
               PROVE  /\ rows'[q].state = "stored" \/ rows'[q].mid \in doubtful' =>
                            messages'[rows'[q].mid].digest # None
                      /\ /\ rows'[q].state # "stored" \/ q \in reaped
                         /\ rows'[q].uid # NoUID
                         /\ rows'[q].mid \notin doubtful'
                         => /\ messages'[rows'[q].mid].digest = None
                            /\ messages'[rows'[q].mid].uid = rows'[q].uid
     BY <1>0, <1>8 DEF LinkInv
  <2>1. CASE q = r
     BY <1>0, <1>7, <2>1
  <2>2. CASE q # r
    <3>1. rows'[q] = rows[q] /\ rows[q].mid \in Ids
       BY <1>7, <1>11, <2>2
    <3>2. CASE rows[q].mid = rows'[r].mid
       BY <1>0, <1>7, <1>9, <1>3, <2>2, <3>1, <3>2 DEF IInv, LinkInv
    <3>3. CASE rows[q].mid # rows'[r].mid /\ rows[q].mid # i
       BY <1>0, <1>7, <3>1, <3>3 DEF IInv, LinkInv
    <3>4. CASE rows[q].mid # rows'[r].mid /\ rows[q].mid = i
      <4>1. q \in PointingAt(i) \ {r}
         BY <2>2, <3>4 DEF PointingAt
      <4>2. i \in doubtful => messages[i].digest # None
         BY <3>4 DEF IInv, LinkInv
      <4>3. i \notin doubtful => rows[q].uid = NoUID /\ rows[q].state # "stored"
         BY <1>9, <2>2, <3>4
      <4>4. QED
         BY <1>0, <1>4, <1>7, <3>1, <3>4, <4>1, <4>2, <4>3
    <3>5. QED
       BY <3>2, <3>3, <3>4
  <2>3. QED
     BY <2>1, <2>2
<1>15. \A q \in Ids : Current(q)' <=> Current(q)
   BY <1>7, <1>8 DEF Current, AttachBody
<1>16. ServerInv'
  <2>1. \A q \in Ids : rows'[q].uid = rows[q].uid /\ rows'[q].of = rows[q].of
     BY <1>7
  <2>2. QED
     BY <1>15, <2>1 DEF IInv, ServerInv, AttachBody
<1>17. MessageInv'
  <2> SUFFICES ASSUME NEW j \in Ids
               PROVE  /\ j > lastRow => messages'[j] = NoMessage
                      /\ messages'[j].digest # None =>
                            /\ messages'[j].blob = messages'[j].digest
                            /\ messages'[j].digest \in blobs
                      /\ messages'[j].digest = None => messages'[j].parsed = None
                      /\ j \notin doubtful' =>
                            messages'[j].parsed \in {None, messages'[j].digest}
                      /\ j \in doubtful' =>
                            /\ j <= lastRow
                            /\ messages'[j].digest # None \/ messages'[j] = NoMessage
                      /\ messages'[j].parsed \in Contents \ Untitled =>
                            /\ messages'[j].subject = messages'[j].parsed
                            /\ messages'[j].envelope = messages'[j].parsed
     BY DEF AttachBody, MessageInv
  <2>1. rows'[r].mid <= lastRow /\ messages'[rows'[r].mid].digest # None
     BY <1>7 DEF IInv, TypeOK
  <2>2. j \in doubtful' => j \in doubtful \/ j = rows'[r].mid
     BY <1>0
  <2>3. CASE messages'[j] = messages[j]
     BY <1>0, <2>1, <2>2, <2>3 DEF IInv, MessageInv
  <2>4. CASE messages'[j] # messages[j]
    <3>1. j = i /\ ~(j > lastRow)
       BY <1>3, <1>7, <2>4 DEF IInv, TypeOK
    <3>2. CASE messages'[i] = NoMessage
       BY <1>3, <3>1, <3>2 DEF NoMessage
    <3>3. CASE /\ messages'[i].digest = c /\ messages'[i].blob = c
               /\ messages'[i].parsed = messages[i].parsed
               /\ messages'[i].subject = messages[i].subject
               /\ messages'[i].envelope = messages[i].envelope
       BY <1>0, <1>3, <1>4, <1>5, <3>1, <3>3 DEF IInv, MessageInv
    <3>4. QED
       BY <1>7, <2>4, <3>1, <3>2, <3>3
  <2>5. QED
     BY <2>3, <2>4
<1>18. HoldInv'
  <2>1. lastRow' = lastRow /\ Running' = Running
     BY DEF AttachBody, Running
  <2>2. worker[w].step = "attach" /\ r = worker[w].row
     BY DEF AttachBody, r
  <2>3. \A v \in Workers \ {w} : worker[v].row \in Live \ reaped =>
           rows'[worker[v].row] = rows[worker[v].row]
     BY <1>6, <1>7 DEF Live
  <2>4. \A v \in Workers \ {w} : worker[v].row \in Live =>
           rows'[worker[v].row].uid = rows[worker[v].row].uid
     BY <1>7 DEF Live
  <2>5. ASSUME NEW v \in Workers
        PROVE  /\ worker'[v].step = "free" => worker'[v] = Free
               /\ worker'[v].step # "free" =>
                     Running' /\ worker'[v].row \in 1 .. lastRow' /\ worker'[v].uid # NoUID
               /\ worker'[v].step = "attach" => worker'[v].row \in Live'
               /\ worker'[v].step \notin {"free", "ingest"} /\ worker'[v].row \in Live' =>
                     /\ worker'[v].row \notin reaped' =>
                           rows'[worker'[v].row].state = "fetching"
                     /\ rows'[worker'[v].row].uid = worker'[v].uid
               /\ worker'[v].step = "ingest" /\ worker'[v].row \in Live' \ reaped' =>
                     rows'[worker'[v].row].state = "stored"
    <3>1. CASE v = w
       BY <1>6, <1>7, <2>1, <2>2, <3>1 DEF IInv, HoldInv
    <3>2. CASE v # w
       BY <1>0, <1>6, <1>8, <2>1, <2>3, <2>4, <3>2 DEF IInv, HoldInv
    <3>3. QED
       BY <3>1, <3>2
  <2>6. ASSUME NEW v \in Workers, NEW x \in Workers,
               worker'[v].row = worker'[x].row, v # x
        PROVE  /\ worker'[v].step # "free" => worker'[v].row \in reaped'
               /\ ~(worker'[v].step = "attach" /\ worker'[x].step = "attach")
     BY <1>0, <1>6, <2>2, <2>6 DEF IInv, HoldInv
  <2>7. QED
     BY <2>5, <2>6 DEF HoldInv
<1>19. ContentInv'
  <2>1. \A v \in Workers : worker[v].existing # 0 => worker[v].existing \in Ids
     BY <1>1 DEF WorkerType
  <2>2. ASSUME NEW v \in Workers \ {w}, worker[v].row \in Live, worker[v].row # r
        PROVE  rows'[worker[v].row] = rows[worker[v].row] /\ rows[worker[v].row].mid \in Ids
     BY <1>6, <1>7, <1>11, <2>2 DEF Live
  <2>3. epoch' = epoch /\ blobs' = blobs
     BY DEF AttachBody
  <2>4. ASSUME NEW v \in Workers \ {w}, worker[v].step = "attach", worker[v].existing # 0
        PROVE  /\ worker[v].existing # rows'[worker[v].row].mid
               /\ \/ worker[v].existing \in doubtful'
                  \/ messages'[worker[v].existing].digest = worker[v].content
    <3>1. worker[v].row \in Live /\ worker[v].row # r
       BY <1>6, <2>4 DEF IInv, HoldInv
    <3>2. /\ worker[v].existing # rows[worker[v].row].mid
          /\ \/ worker[v].existing \in doubtful
             \/ messages[worker[v].existing].digest = worker[v].content
          /\ worker[v].content \in Contents
       BY <2>4 DEF IInv, ContentInv
    <3>3. QED
       BY <1>0, <1>10, <2>1, <2>2, <2>4, <3>1, <3>2
  <2>5. ASSUME NEW v \in Workers \ {w}, worker[v].step = "ingest", worker[v].row \in Live
        PROVE  \/ rows'[worker[v].row].mid \in doubtful'
               \/ messages'[rows'[worker[v].row].mid].digest = worker[v].content
    <3>1. CASE worker[v].row = r
       BY <1>0, <1>6, <3>1
    <3>2. CASE worker[v].row # r
      <4>1. /\ \/ rows[worker[v].row].mid \in doubtful
               \/ messages[rows[worker[v].row].mid].digest = worker[v].content
            /\ worker[v].content \in Contents
         BY <2>5 DEF IInv, ContentInv
      <4>2. QED
         BY <1>0, <1>10, <2>2, <2>5, <3>2, <4>1
    <3>3. QED
       BY <3>1, <3>2
  <2>6. \A v \in Workers \ {w} : worker[v].row \in Live =>
           /\ rows'[worker[v].row].of = rows[worker[v].row].of
           /\ rows'[worker[v].row].epoch = rows[worker[v].row].epoch
     BY <1>7 DEF Live
  <2>7. \/ rows'[r].mid \in doubtful'
        \/ messages'[rows'[r].mid].digest = c
     BY <1>0, <1>7
  <2>8. QED
     BY <1>4, <1>6, <1>8, <2>3, <2>4, <2>5, <2>6, <2>7 DEF IInv, ContentInv
<1>20. MatchInv'
  <2> SUFFICES ASSUME NEW q \in Ids, Current(q), rows'[q].mid \notin doubtful'
               PROVE  /\ rows'[q].state = "stored" =>
                            messages'[rows'[q].mid].digest = rows'[q].of
                      /\ rows'[q].state # "stored" =>
                            messages'[rows'[q].mid].subject = rows'[q].of
     BY <1>15 DEF MatchInv
  <2>1. CASE q = r
     BY <1>0, <1>4, <1>7, <2>1 DEF Current
  <2>2. CASE q # r
    <3>1. rows'[q] = rows[q] /\ rows[q].mid \in Ids /\ q \in Live /\ rows[q].uid # NoUID
       BY <1>7, <1>11, <2>2 DEF Current
    <3>2. rows[q].mid \notin doubtful /\ rows[q].mid # i
       BY <1>0, <1>9, <2>2, <3>1
    <3>3. QED
       BY <1>7, <3>1, <3>2 DEF IInv, MatchInv
  <2>3. QED
     BY <2>1, <2>2
<1>21. QED
   BY <1>12, <1>13, <1>14, <1>16, <1>17, <1>18, <1>19, <1>20 DEF IInv

\* The worker lets go of its row.
LEMMA AttachFailsStep ==
    ASSUME IInv, NEW w \in Workers, AttachFails(w)
    PROVE  IInv'
<1>1. TypeOK'
   BY DEF IInv, AttachFails, Free, TypeOK
<1>2. HoldInv'
   BY DEF IInv, AttachFails, Free, TypeOK, HoldInv, Live, Running
<1>3. ContentInv'
   BY DEF IInv, AttachFails, Free, TypeOK, ContentInv, Live
<1>4. RowInv' /\ LinkInv' /\ ServerInv' /\ MessageInv' /\ MatchInv'
   BY DEF IInv, AttachFails, RowInv, Live, LinkInv, ServerInv, Current, MessageInv,
          MatchInv
<1>5. QED
   BY <1>1, <1>2, <1>3, <1>4 DEF IInv

\* The parsed text is that of the messages row the row points at.
LEMMA IngestStep ==
    ASSUME IInv, NEW w \in Workers, Ingest(w)
    PROVE  IInv'
<1>1. worker \in [Workers -> WorkerType] /\ messages \in [Ids -> MessageType]
   BY Types DEF IInv
<1>2. worker' \in [Workers -> WorkerType]
   BY <1>1, Types DEF Ingest
<1>3. /\ messages' \in [Ids -> MessageType]
      /\ \A i \in Ids : /\ messages'[i].digest = messages[i].digest
                        /\ messages'[i].uid = messages[i].uid
                        /\ messages'[i].blob = messages[i].blob
                        /\ messages[i].digest = None => messages'[i] = messages[i]
                        /\ \/ messages'[i] = messages[i]
                           \/ /\ i \notin doubtful => messages'[i].parsed = messages[i].digest
                              /\ messages'[i].parsed \in Contents \ Untitled =>
                                    /\ messages'[i].subject = messages'[i].parsed
                                    /\ messages'[i].envelope = messages'[i].parsed
                        /\ messages'[i] # messages[i] => i <= lastRow
  <2>1. CASE worker[w].row \notin Live
     BY <1>1, <2>1 DEF Ingest
  <2>2. CASE worker[w].row \in Live
    <3> DEFINE i == rows[worker[w].row].mid
               c == worker[w].content
    <3>1. i \in Ids /\ i <= lastRow
       BY <2>2 DEF IInv, TypeOK, RowInv
    <3>2. /\ i \in doubtful \/ messages[i].digest = c
          /\ c \in Contents /\ messages[i].digest # None
       BY <2>2 DEF IInv, ContentInv, Ingest, LinkInv
    <3>3. messages' = [messages EXCEPT ![i].subject = IF c \in Untitled THEN @ ELSE c,
                                       ![i].envelope = IF c \in Untitled THEN @ ELSE c,
                                       ![i].parsed = c]
       BY <2>2 DEF Ingest, SaveParsedContent
    <3> HIDE DEF i, c
    <3> DEFINE x == [messages[i] EXCEPT
             !.subject = IF c \in Untitled THEN messages[i].subject ELSE c,
             !.envelope = IF c \in Untitled THEN messages[i].envelope ELSE c, !.parsed = c]
    <3>4. messages' = [messages EXCEPT ![i] = x]
       BY <1>1, <3>1, <3>3
    <3>5. x \in MessageType
       BY <1>1, <3>1, <3>2 DEF MessageType
    <3>6. /\ x.digest = messages[i].digest
          /\ x.uid = messages[i].uid
          /\ x.blob = messages[i].blob
          /\ x.parsed = c
          /\ c \notin Untitled => x.subject = c /\ x.envelope = c
       BY <1>1, <3>1 DEF MessageType
    <3> HIDE DEF x
    <3>7. /\ messages' \in [Ids -> MessageType]
          /\ messages'[i] = x
          /\ \A j \in Ids \ {i} : messages'[j] = messages[j]
       BY <1>1, <3>1, <3>4, <3>5
    <3>8. QED
       BY <3>1, <3>2, <3>6, <3>7
  <2>3. QED
     BY <2>1, <2>2
<1>4. /\ \A v \in Workers \ {w} : worker'[v] = worker[v]
      /\ worker'[w].step = "free"
   BY <1>1 DEF Ingest, Free
<1>5. \A r \in Live : r \in Ids /\ rows[r].mid \in Ids
   BY DEF IInv, TypeOK, RowInv, Live
<1>6. TypeOK'
   BY <1>2, <1>3 DEF IInv, Ingest, TypeOK, WorkerType, MessageType
<1>7. LinkInv'
   BY <1>3, <1>5 DEF IInv, Ingest, LinkInv, Live
<1>8. MessageInv'
  <2> SUFFICES ASSUME NEW i \in Ids
               PROVE  /\ i > lastRow => messages'[i] = NoMessage
                      /\ messages'[i].digest # None =>
                            /\ messages'[i].blob = messages'[i].digest
                            /\ messages'[i].digest \in blobs
                      /\ messages'[i].digest = None => messages'[i].parsed = None
                      /\ i \notin doubtful =>
                            messages'[i].parsed \in {None, messages'[i].digest}
                      /\ i \in doubtful =>
                            /\ i <= lastRow
                            /\ messages'[i].digest # None \/ messages'[i] = NoMessage
                      /\ messages'[i].parsed \in Contents \ Untitled =>
                            /\ messages'[i].subject = messages'[i].parsed
                            /\ messages'[i].envelope = messages'[i].parsed
     BY DEF Ingest, MessageInv
  <2>1. i > lastRow => messages'[i] = messages[i]
     BY <1>3 DEF IInv, TypeOK
  <2>2. QED
     BY <1>3, <2>1 DEF IInv, MessageInv
<1>9. HoldInv'
  <2>1. worker'[w] = Free /\ Live' = Live /\ UNCHANGED <<rows, lastRow, selected, reaped>>
     BY <1>1 DEF Ingest, Live
  <2>2. worker'[w].row = 0 /\ \A v \in Workers : worker[v].step # "free" => worker[v].row # 0
     BY <2>1 DEF IInv, HoldInv, Free
  <2>3. QED
     BY <1>4, <2>1, <2>2 DEF IInv, HoldInv, Running
<1>10. ContentInv'
  <2>1. \A v \in Workers : worker[v].existing # 0 => worker[v].existing \in Ids
     BY <1>1 DEF WorkerType
  <2>2. QED
     BY <1>3, <1>4, <1>5, <2>1 DEF IInv, Ingest, ContentInv, Live
<1>11. MatchInv'
  <2> SUFFICES ASSUME NEW r \in Ids, Current(r), rows[r].mid \notin doubtful
               PROVE  /\ rows[r].state = "stored" =>
                            messages'[rows[r].mid].digest = rows[r].of
                      /\ rows[r].state # "stored" =>
                            messages'[rows[r].mid].subject = rows[r].of
     BY DEF Ingest, MatchInv, Current, Live
  <2>1. rows[r].state # "stored" => messages[rows[r].mid].digest = None
     BY DEF IInv, LinkInv, Current
  <2>2. rows[r].mid \in Ids
     BY <1>5 DEF Current
  <2>3. QED
     BY <1>3, <2>1, <2>2 DEF IInv, MatchInv
<1>12. RowInv' /\ ServerInv'
   BY DEF IInv, Ingest, RowInv, Live, ServerInv, Current
<1>13. QED
   BY <1>6, <1>7, <1>8, <1>9, <1>10, <1>11, <1>12 DEF IInv

\* The worker lets go of its row, which may be claimed again.
LEMMA WorkerFailsStep ==
    ASSUME IInv, NEW w \in Workers, WorkerFails(w)
    PROVE  IInv'
<1>1. worker \in [Workers -> WorkerType] /\ rows \in [Ids -> RowType]
   BY Types DEF IInv
<1>2. worker' = [worker EXCEPT ![w] = Free]
   BY DEF WorkerFails
<1>3. worker' \in [Workers -> WorkerType]
   BY <1>1, <1>2, Types
<1>4. /\ \A v \in Workers \ {w} : worker'[v] = worker[v]
      /\ worker'[w] = Free /\ worker'[w].step = "free" /\ worker'[w].row = 0
   BY <1>1, <1>2 DEF Free
<1>a. /\ TypeOK /\ faults' \in Nat
      /\ UNCHANGED <<upstream, epoch, validity, selected, messages, lastRow, blobs, reaped,
                     doubtful>>
   BY DEF IInv, TypeOK, WorkerFails, Fault
<1>5. CASE UNCHANGED rows
  <2>1. TypeOK'
     BY <1>3, <1>5, <1>a DEF TypeOK, WorkerType
  <2>2. HoldInv'
     BY <1>4, <1>5 DEF IInv, WorkerFails, HoldInv, Running, Live
  <2>3. ContentInv'
     BY <1>4, <1>5 DEF IInv, WorkerFails, ContentInv, Live
  <2>4. RowInv' /\ LinkInv' /\ ServerInv' /\ MessageInv' /\ MatchInv'
     BY <1>5 DEF IInv, WorkerFails, RowInv, LinkInv, ServerInv, MessageInv,
                 MatchInv, Current, Live
  <2>5. QED
     BY <2>1, <2>2, <2>3, <2>4 DEF IInv
<1>6. ASSUME worker[w].step \in {"fetch", "put"},
             worker[w].row \in Live,
             rows' = [rows EXCEPT ![worker[w].row].state = "pending"]
      PROVE  IInv'
  <2> DEFINE r == worker[w].row
  <2>1. r \in Live /\ (rows[r].state # "stored" \/ rows[r].mid \in doubtful)
    <3>1. rows[r].uid # NoUID /\ (r \notin reaped => rows[r].state = "fetching")
       BY <1>6 DEF IInv, HoldInv
    <3>2. QED
       BY <1>6, <3>1 DEF IInv, LinkInv
  <2>2. /\ rows' \in [Ids -> RowType]
        /\ Live' = Live
        /\ \A q \in Ids : /\ rows'[q].uid = rows[q].uid
                          /\ rows'[q].mid = rows[q].mid
                          /\ rows'[q].of = rows[q].of
                          /\ rows'[q].epoch = rows[q].epoch
                          /\ rows'[q].state = IF q = r THEN "pending" ELSE rows[q].state
        /\ RowInv' /\ LinkInv' /\ ServerInv' /\ MatchInv'
     BY <1>6, <1>a, <2>1, StateChange DEF WorkerFails
  <2>3. \A v \in Workers \ {w} : worker[v].row = r => r \in reaped
     BY <1>6 DEF IInv, HoldInv
  <2>4. TypeOK'
     BY <1>3, <1>a, <2>2 DEF TypeOK, WorkerType, RowType
  <2>5. \A v \in Workers \ {w} : worker[v].row \in Live \ reaped =>
           rows'[worker[v].row].state = rows[worker[v].row].state
     BY <2>2, <2>3 DEF Live
  <2>6. HoldInv'
     BY <1>4, <2>2, <2>5 DEF IInv, WorkerFails, HoldInv, Running, Live
  <2>7. ContentInv'
     BY <1>4, <2>2 DEF IInv, WorkerFails, HoldInv, ContentInv, Live
  <2>8. MessageInv'
     BY DEF IInv, WorkerFails, MessageInv
  <2>9. QED
     BY <2>2, <2>4, <2>6, <2>7, <2>8 DEF IInv
<1>7. QED
   BY <1>5, <1>6 DEF WorkerFails

\* The row that is reaped may be in a worker's hand, but not locked.
LEMMA ReapStep ==
    ASSUME IInv, NEW r \in Ids, Reap(r)
    PROVE  IInv'
<1>0. /\ reaped \subseteq reaped' /\ reaped' \subseteq reaped \cup {r}
      /\ r \in InHands => r \in reaped'
   BY DEF Reap
<1>1. r \in Live /\ rows[r].state # "stored"
   BY DEF Reap, Live, NoRow
<1>2. /\ rows' \in [Ids -> RowType]
      /\ Live' = Live
      /\ \A q \in Ids : /\ rows'[q].uid = rows[q].uid
                        /\ rows'[q].mid = rows[q].mid
                        /\ rows'[q].of = rows[q].of
                        /\ rows'[q].epoch = rows[q].epoch
                        /\ rows'[q].state = IF q = r THEN "pending" ELSE rows[q].state
      /\ RowInv' /\ LinkInv' /\ ServerInv' /\ MatchInv'
   BY <1>0, <1>1, StateChange DEF Reap
<1>3. \A v \in Workers : worker[v].step # "free" /\ worker[v].row \in Live \ reaped' =>
         rows'[worker[v].row].state = rows[worker[v].row].state
  <2> SUFFICES ASSUME NEW v \in Workers, worker[v].step # "free",
                      worker[v].row \in Live \ reaped', worker[v].row = r
               PROVE  FALSE
     BY <1>2 DEF Live
  <2>1. worker[v].step = "ingest"
     BY <1>0 DEF InHands, InHand
  <2>2. QED
     BY <1>0, <1>1, <2>1 DEF IInv, HoldInv
<1>4. TypeOK'
  <2>1. reaped' \subseteq Ids
     BY <1>0 DEF IInv, TypeOK
  <2>2. faults' \in Nat
     BY DEF IInv, TypeOK, Reap, Fault
  <2>3. QED
     BY <1>2, <2>1, <2>2 DEF IInv, Reap, TypeOK, RowType
<1>5. RowInv'
   BY <1>2
<1>6. LinkInv'
   BY <1>2
<1>7. ServerInv'
   BY <1>2
<1>8. HoldInv'
   BY <1>0, <1>2, <1>3 DEF IInv, HoldInv, Reap, Running, Live
<1>9. ContentInv'
   BY <1>2 DEF IInv, HoldInv, ContentInv, Reap, Live
<1>10. MatchInv'
   BY <1>2
<1>11. MessageInv'
   BY DEF IInv, Reap, MessageInv
<1>12. QED
   BY <1>4, <1>5, <1>6, <1>7, <1>8, <1>9, <1>10, <1>11 DEF IInv

-----------------------------------------------------------------------------
(* Theorems *)

\* No row, no body, and nobody at work.
LEMMA InitInv == Init => IInv
<1> SUFFICES ASSUME Init PROVE IInv
   OBVIOUS
<1>1. TypeOK
   BY DEF Init, TypeOK, NoRow, NoMessage, Free
<1>2. Live = {}
   BY DEF Init, Live
<1>3. RowInv /\ LinkInv /\ ServerInv /\ MatchInv
   BY <1>2 DEF RowInv, LinkInv, ServerInv, MatchInv, Current
<1>4. MessageInv
   BY DEF Init, MessageInv, NoMessage
<1>5. HoldInv /\ ContentInv
   BY DEF Init, HoldInv, ContentInv, Free, Live
<1>6. QED
   BY <1>1, <1>3, <1>4, <1>5 DEF IInv

\* Every step keeps the invariant.
LEMMA NextInv == IInv /\ [Next]_vars => IInv'
<1> SUFFICES ASSUME IInv, [Next]_vars PROVE IInv'
   OBVIOUS
<1>1. CASE UNCHANGED vars
   BY <1>1 DEF vars, IInv, TypeOK, RowInv, LinkInv, ServerInv, MessageInv, HoldInv,
               ContentInv, MatchInv, Current, Live, Running
<1>2. ASSUME NEW u \in UIDs, Expunge(u) \/ UpsertMetadata(u)
      PROVE  IInv'
   BY <1>2, ExpungeStep, UpsertMetadataStep
<1>3. CASE Renumber \/ StartPass \/ SaveCheckpoint \/ DeleteMissing \/ EndPass \/ Crash
   BY <1>3, RenumberStep, StartPassStep, SaveCheckpointStep, DeleteMissingStep,
      EndPassStep, CrashStep
<1>4. ASSUME NEW w \in Workers, WorkerStep(w)
      PROVE  IInv'
   BY <1>4, ClaimStep, FetchBodyStep, FetchNothingStep, PutStep, AttachLookStep,
      AttachBodyStep, AttachFailsStep, IngestStep, WorkerFailsStep
      DEF WorkerStep
<1>5. ASSUME NEW r \in Ids, Reap(r)
      PROVE  IInv'
   BY <1>5, ReapStep
<1>6. QED
   BY <1>1, <1>2, <1>3, <1>4, <1>5 DEF Next

\* The invariant holds throughout.
LEMMA Inductive == Spec => []IInv
   BY InitInv, NextInv, PTL DEF Spec

\* Every variable of the store, of the pass and of its workers keeps its type.
THEOREM TypeCorrect == Spec => []TypeOK
<1>1. IInv => TypeOK
   BY DEF IInv
<1>2. QED
   BY <1>1, Inductive, PTL

\* However many workers store copies of one message at once, and wherever they
\* die, a stored row of the present numbering has its own body, in the blob
\* store, unless a row reaped in a worker's hand was attached to its messages row.
THEOREM BodyCorrect == Spec => []BodyIsItsMessage
<1>1. IInv => BodyIsItsMessage
  <2> SUFFICES ASSUME IInv, NEW r \in Ids, Current(r), rows[r].state = "stored",
                      rows[r].mid \notin doubtful
               PROVE  /\ messages[rows[r].mid].digest = rows[r].of
                      /\ messages[rows[r].mid].blob = rows[r].of
                      /\ rows[r].of \in blobs
     BY DEF BodyIsItsMessage
  <2>1. rows[r].mid \in Ids
     BY DEF IInv, TypeOK, RowInv, Current
  <2>2. messages[rows[r].mid].digest # None
     BY DEF IInv, LinkInv, Current
  <2>3. QED
     BY <2>1, <2>2 DEF IInv, MatchInv, MessageInv
<1>2. QED
   BY <1>1, Inductive, PTL

\* A row of the present numbering is listed with the subject of its message,
\* although placeholders outlive a renumbering.
THEOREM SubjectCorrect == Spec => []SubjectIsItsMessage
<1>1. IInv => SubjectIsItsMessage
  <2> SUFFICES ASSUME IInv, NEW r \in Ids, Current(r)
               PROVE  /\ rows[r].state # "stored" /\ rows[r].mid \notin doubtful =>
                            messages[rows[r].mid].subject = rows[r].of
                      /\ messages[rows[r].mid].parsed \in Contents \ Untitled =>
                            /\ messages[rows[r].mid].subject = messages[rows[r].mid].parsed
                            /\ messages[rows[r].mid].envelope = messages[rows[r].mid].parsed
     BY DEF SubjectIsItsMessage
  <2>1. rows[r].mid \in Ids
     BY DEF IInv, TypeOK, RowInv, Current
  <2>2. QED
     BY <2>1 DEF IInv, MatchInv, MessageInv
<1>2. QED
   BY <1>1, Inductive, PTL

\* Parsed text, written in a transaction of its own to the messages row found
\* then, is that of the body of that messages row, unless a row reaped in a
\* worker's hand was attached there.
THEOREM ParsedCorrect == Spec => []ParsedIsBody
<1>1. IInv => ParsedIsBody
   BY DEF IInv, ParsedIsBody, MessageInv, LiveMessages
<1>2. QED
   BY <1>1, Inductive, PTL

\* No step takes a row away, except that of a message the server does not have.
THEOREM VanishCorrect == Spec => OnlyMissingVanish
<1>1. IInv /\ [Next]_vars =>
         [\A r \in Live : rows'[r] = NoRow =>
             rows[r].uid # NoUID /\ upstream[rows[r].uid] = None]_vars
  <2> SUFFICES ASSUME IInv, Next, NEW r \in Live, rows'[r] = NoRow
               PROVE  rows[r].uid # NoUID /\ upstream[rows[r].uid] = None
     OBVIOUS
  <2>1. /\ rows \in [Ids -> RowType] /\ r \in Ids
        /\ rows[r] # NoRow /\ rows[r].state # "none" /\ rows'[r].state = "none"
     BY Types DEF IInv, RowInv, Live, NoRow
  <2>2. CASE DeleteMissing
     BY <2>1, <2>2 DEF DeleteMissing
  <2>3. CASE StartPass
     BY <2>1, <2>3 DEF StartPass, ResetForUIDValidityChange, RowType
  <2>4. ASSUME NEW u \in UIDs, UpsertMetadata(u)
        PROVE  FALSE
    <3>1. \A q \in Ids \ {lastRow + 1} : rows'[q] = rows[q]
       BY <2>1, <2>4 DEF UpsertMetadata
    <3>2. r # lastRow + 1
       BY DEF IInv, TypeOK, RowInv, Live
    <3>3. QED
       BY <2>1, <3>1, <3>2
  <2>5. ASSUME NEW w \in Workers, WorkerStep(w)
        PROVE  FALSE
    <3>1. CASE AttachBody(w)
      <4>1. CASE worker[w].existing # 0
         BY <2>1, <3>1, <4>1 DEF AttachBody, Relink, RowType
      <4>2. CASE worker[w].existing = 0
         BY <2>1, <3>1, <4>2 DEF AttachBody, Record, RowType
      <4>3. QED
         BY <4>1, <4>2
    <3>2. ASSUME NEW q \in Ids, Claim(w, q)
          PROVE  FALSE
       BY <2>1, <3>2 DEF Claim, RowType
    <3>3. CASE WorkerFails(w)
       BY <2>1, <3>3 DEF WorkerFails, RowType
    <3>4. CASE UNCHANGED rows
       BY <2>1, <3>4
    <3>5. QED
       BY <2>5, <3>1, <3>2, <3>3, <3>4
       DEF WorkerStep, FetchBody, FetchNothing, Put, AttachLook, AttachFails, Ingest
  <2>6. ASSUME NEW q \in Ids, Reap(q)
        PROVE  FALSE
     BY <2>1, <2>6 DEF Reap, RowType
  <2>7. CASE UNCHANGED rows
     BY <2>1, <2>7
  <2>8. QED
     BY <2>2, <2>3, <2>4, <2>5, <2>6, <2>7
     DEF Next, Expunge, Renumber, SaveCheckpoint, EndPass, Crash
<1>2. QED
   BY <1>1, Inductive, PTL DEF Spec, OnlyMissingVanish

-----------------------------------------------------------------------------
(* The store implements the queue *)

\* The queue's variables, as the store keeps them.
QState == [r \in Ids |-> Place(r)]
QHold == [w \in Workers |-> InHand(w)]

\* A row in hand that is there is in the queue, and unless it was reaped leased.
LEMMA InHandFacts ==
    ASSUME IInv, NEW w \in Workers
    PROVE  /\ InHand(w) \in Ids \cup {0}
           /\ InHand(w) # 0 <=> worker[w].step \notin {"free", "ingest"}
           /\ InHand(w) # 0 =>
                 /\ InHand(w) = worker[w].row
                 /\ worker[w].row \in Ids
                 /\ worker[w].row \in Live =>
                       /\ Place(worker[w].row) # "gone"
                       /\ worker[w].row \notin reaped => Place(worker[w].row) = "leased"
<1>1. worker[w] \in WorkerType /\ lastRow \in 0 .. MaxRows
   BY Types DEF IInv, TypeOK
<1>2. worker[w].step # "free" => worker[w].row \in 1 .. lastRow /\ worker[w].uid # NoUID
   BY DEF IInv, HoldInv
<1>3. worker[w].step \notin {"free", "ingest"} /\ worker[w].row \in Live =>
         /\ Place(worker[w].row) # "gone"
         /\ worker[w].row \notin reaped => Place(worker[w].row) = "leased"
   BY <1>1, <1>2 DEF IInv, HoldInv, Place
<1>4. QED
   BY <1>1, <1>2, <1>3 DEF InHand, WorkerType

\* A step that leaves rows alone and takes or lays down nothing.
LEMMA QueueStutter ==
    ASSUME IInv, UNCHANGED <<rows, lastRow>>,
           \A w \in Workers : InHand(w)' = InHand(w)
    PROVE  QState' = QState /\ QHold' = QHold
   BY DEF QState, QHold, Place

\* A worker that lets go without a word.
LEMMA AbandonQueue ==
    ASSUME IInv, NEW w \in Workers, InHand(w) # 0, UNCHANGED <<rows, lastRow, reaped>>,
           InHand(w)' = 0, \A v \in Workers \ {w} : InHand(v)' = InHand(v)
    PROVE  Queue!Next
<1>1. worker \in [Workers -> WorkerType]
   BY Types DEF IInv
<1>2. QHold' = [QHold EXCEPT ![w] = 0]
   BY <1>1 DEF QHold, InHand
<1>3. QState' = QState
   BY DEF QState, Place
<1>4. QHold[w] \in Ids
   BY InHandFacts DEF QHold
<1>5. Queue!Abandon(w)
   BY <1>2, <1>3, <1>4 DEF Queue!Abandon, QState, QHold
<1>6. QED
   BY <1>5 DEF Queue!Next

\* A worker that records its row, or gives it back.
LEMMA ReleaseQueue ==
    ASSUME IInv, NEW w \in Workers, InHand(w) # 0, worker[w].row \in Live,
           NEW s \in {"pending", "stored"},
           \A r \in Ids : /\ rows'[r].uid = rows[r].uid
                          /\ rows'[r].state = IF r = worker[w].row THEN s
                                              ELSE rows[r].state,
           UNCHANGED <<lastRow, reaped>>,
           InHand(w)' = 0, \A v \in Workers \ {w} : InHand(v)' = InHand(v)
    PROVE  Queue!Next
<1> DEFINE q == IF s = "stored" THEN "done" ELSE "waiting"
<1>1. worker \in [Workers -> WorkerType]
   BY Types DEF IInv
<1>2. QHold' = [QHold EXCEPT ![w] = 0]
   BY <1>1 DEF QHold, InHand
<1>3. PICK r \in Ids : r = worker[w].row
   BY InHandFacts
<1>4. /\ QHold[w] = r /\ QHold[w] \in Ids
      /\ Place(r) # "gone" /\ QState[r] # "gone"
   BY <1>3, InHandFacts DEF QHold, QState
<1>5. Place(r)' = q
  <2>1. r <= lastRow /\ rows[r].uid # NoUID
    <3>1. r \in 1 .. lastRow
       BY <1>3, InHandFacts DEF IInv, HoldInv
    <3>2. rows[r].uid = NoUID => Place(r) = "gone"
       BY <3>1 DEF Place, IInv, TypeOK
    <3>3. QED
       BY <1>4, <3>1, <3>2 DEF IInv, TypeOK
  <2>2. ~(r > lastRow) /\ rows'[r].uid # NoUID /\ rows'[r].state = s
     BY <1>3, <1>4, <2>1 DEF IInv, TypeOK
  <2>3. QED
     BY <2>2 DEF Place
<1>6. \A v \in Ids \ {r} : Place(v)' = Place(v)
   BY <1>3 DEF Place
<1>7. QState' = [QState EXCEPT ![r] = q]
   BY <1>4, <1>5, <1>6 DEF QState
<1>8. QState' = [QState EXCEPT ![QHold[w]] = IF @ = "gone" THEN @ ELSE q]
   BY <1>4, <1>7 DEF QState
<1>9. CASE s = "stored"
  <2>1. Queue!Finish(w)
     BY <1>2, <1>4, <1>8, <1>9 DEF Queue!Finish, Queue!Release, QState, QHold
  <2>2. QED
     BY <2>1 DEF Queue!Next
<1>10. CASE s = "pending"
  <2>1. Queue!GiveBack(w)
     BY <1>2, <1>4, <1>8, <1>10 DEF Queue!GiveBack, Queue!Release, QState, QHold
  <2>2. QED
     BY <2>1 DEF Queue!Next
<1>11. QED
   BY <1>9, <1>10

\* Rows that are deleted, or lose their UIDs.
LEMMA WithdrawQueue ==
    ASSUME IInv, NEW S \in SUBSET Live, \A r \in S : rows[r].uid # NoUID,
           \A r \in S : rows'[r].uid = NoUID,
           \A r \in Ids \ S : rows'[r] = rows[r],
           UNCHANGED <<lastRow, worker, reaped>>
    PROVE  Queue!Next
<1>1. \A r \in S : r \in Ids /\ r <= lastRow
   BY DEF IInv, RowInv, Live
<1>2. \A r \in S : Place(r) \in {"waiting", "leased", "done"} /\ Place(r)' = "gone"
   BY <1>1 DEF Place, IInv, TypeOK
<1>3. \A r \in Ids \ S : Place(r)' = Place(r)
   BY DEF Place
<1>4. QState' = [r \in Ids |-> IF r \in S THEN "gone" ELSE QState[r]]
   BY <1>1, <1>2, <1>3 DEF QState
<1>5. S \in SUBSET Queue!Present
   BY <1>1, <1>2 DEF Queue!Present
<1>6. QHold' = QHold
   BY DEF QHold, InHand
<1>7. Queue!Withdraw(S)
   BY <1>4, <1>6 DEF Queue!Withdraw, QState, QHold
<1>8. QED
   BY <1>5, <1>7 DEF Queue!Next

\* Every step of the store is a step of the queue or none.
LEMMA QueueStep ==
    ASSUME IInv, Next
    PROVE  Queue!Next \/ (QState' = QState /\ QHold' = QHold /\ reaped' = reaped)
<1>1. /\ rows \in [Ids -> RowType] /\ worker \in [Workers -> WorkerType]
      /\ lastRow \in 0 .. MaxRows
   BY Types DEF IInv, TypeOK
<1>2. ASSUME UNCHANGED <<rows, lastRow, worker, reaped>>
      PROVE  QState' = QState /\ QHold' = QHold /\ reaped' = reaped
   BY <1>2, QueueStutter DEF InHand
<1>3. ASSUME NEW u \in UIDs, UpsertMetadata(u)
      PROVE  Queue!Next
  <2>1. PICK m \in Ids : m = lastRow + 1
     BY <1>1, <1>3 DEF UpsertMetadata
  <2>2. lastRow' = m /\ rows'[m].uid = u /\ rows'[m].state = "pending"
     BY <1>1, <1>3, <2>1 DEF UpsertMetadata
  <2>3. \A r \in Ids \ {m} : rows'[r] = rows[r]
     BY <1>1, <1>3, <2>1 DEF UpsertMetadata
  <2>4. Place(m) = "absent" /\ Place(m)' = "waiting"
     BY <1>1, <2>1, <2>2 DEF Place
  <2>5. \A r \in Ids \ {m} : Place(r)' = Place(r)
    <3>1. \A r \in Ids \ {m} : r > lastRow' <=> r > lastRow
       BY <1>1, <2>1, <2>2
    <3>2. QED
       BY <2>3, <3>1 DEF Place
  <2>6. QState' = [QState EXCEPT ![m] = "waiting"] /\ QState[m] = "absent"
     BY <2>4, <2>5 DEF QState
  <2>7. QHold' = QHold /\ reaped' = reaped
     BY <1>3 DEF UpsertMetadata, QHold, InHand
  <2>8. Queue!Offer(m)
     BY <2>6, <2>7 DEF Queue!Offer, QState, QHold
  <2>9. QED
     BY <2>8 DEF Queue!Next
<1>4. CASE StartPass
  <2>1. CASE UNCHANGED rows
     BY <1>2, <1>4, <2>1 DEF StartPass
  <2>2. CASE ResetForUIDValidityChange
    <3> DEFINE S == {r \in Live : rows[r].uid # NoUID}
    <3>1. \A r \in S : rows'[r].uid = NoUID
       BY <1>1, <2>2 DEF ResetForUIDValidityChange, Live, RowType
    <3>2. \A r \in Ids \ S : rows'[r] = rows[r]
       BY <1>1, <2>2 DEF ResetForUIDValidityChange, Live, RowType
    <3>3. QED
       BY <1>4, <3>1, <3>2, WithdrawQueue DEF StartPass
  <2>3. QED
     BY <1>4, <2>1, <2>2 DEF StartPass
<1>5. CASE DeleteMissing
  <2> DEFINE S == {r \in Live : rows[r].uid # NoUID /\ upstream[rows[r].uid] = None}
  <2>1. \A r \in Ids : rows'[r] = IF r \in S THEN NoRow ELSE rows[r]
     BY <1>5 DEF DeleteMissing
  <2>2. S \in SUBSET Live /\ S \subseteq Ids
     BY DEF Live
  <2> HIDE DEF S
  <2>3. \A r \in S : rows'[r].uid = NoUID
     BY <2>1, <2>2 DEF NoRow
  <2>4. \A r \in S : rows[r].uid # NoUID
     BY DEF S
  <2>5. QED
     BY <1>5, <2>1, <2>2, <2>3, <2>4, WithdrawQueue DEF DeleteMissing
<1>6. CASE Crash \/ EndPass
  <2>1. QHold' = [w \in Workers |-> 0] /\ reaped' = {}
     BY <1>6 DEF Crash, EndPass, QHold, InHand, Free
  <2>2. QState' = QState
     BY <1>6 DEF Crash, EndPass, QState, Place
  <2>3. Queue!AbandonAll
     BY <2>1, <2>2 DEF Queue!AbandonAll, QState, QHold
  <2>4. QED
     BY <2>3 DEF Queue!Next
<1>7. ASSUME NEW w \in Workers, NEW r \in Ids, Claim(w, r)
      PROVE  Queue!Next
  <2>1. rows[r].state = "pending" /\ rows[r].uid # NoUID /\ worker[w] = Free
     BY <1>7 DEF Claim
  <2>2. r \in Live
     BY <2>1 DEF Live, NoRow
  <2>3. r <= lastRow
     BY <2>2 DEF IInv, RowInv
  <2>4. r \notin reaped => \A v \in Workers : InHand(v) # r
     BY <2>1, <2>2, InHandFacts DEF IInv, HoldInv
  <2>5. /\ rows'[r].state = "fetching" /\ rows'[r].uid = rows[r].uid
        /\ \A v \in Ids \ {r} : rows'[v] = rows[v]
        /\ lastRow' = lastRow
     BY <1>1, <1>7 DEF Claim, RowType
  <2>6. Place(r) = "waiting" /\ Place(r)' = "leased"
     BY <1>1, <2>1, <2>3, <2>5 DEF Place
  <2>7. \A v \in Ids \ {r} : Place(v)' = Place(v)
     BY <2>5 DEF Place
  <2>8. QState' = [QState EXCEPT ![r] = "leased"] /\ QState[r] = "waiting"
     BY <2>6, <2>7 DEF QState
  <2>9. QHold' = [QHold EXCEPT ![w] = r] /\ QHold[w] = 0
    <3>1. worker'[w].step = "fetch" /\ worker'[w].row = r
       BY <1>1, <1>7 DEF Claim, Free
    <3>2. \A v \in Workers \ {w} : worker'[v] = worker[v]
       BY <1>1, <1>7 DEF Claim
    <3>3. InHand(w)' = r /\ InHand(w) = 0
       BY <2>1, <3>1 DEF InHand, Free
    <3>4. \A v \in Workers \ {w} : InHand(v)' = InHand(v)
       BY <3>2 DEF InHand
    <3>5. QED
       BY <3>3, <3>4 DEF QHold
  <2>10. (r \in reaped \/ r \notin Queue!Held) /\ reaped' = reaped
     BY <1>7, <2>4 DEF Queue!Held, Claim
  <2>11. Queue!Take(w, r)
     BY <2>8, <2>9, <2>10 DEF Queue!Take, QState, QHold
  <2>12. QED
     BY <2>11 DEF Queue!Next
<1>8. ASSUME NEW w \in Workers, FetchBody(w) \/ Put(w) \/ AttachLook(w) \/ Ingest(w)
      PROVE  QState' = QState /\ QHold' = QHold /\ reaped' = reaped
  <2>1. UNCHANGED <<rows, lastRow, reaped>>
     BY <1>8 DEF FetchBody, Put, AttachLook, Ingest
  <2>2. \A v \in Workers \ {w} : worker'[v] = worker[v]
     BY <1>1, <1>8 DEF FetchBody, Put, AttachLook, Ingest
  <2>3. CASE FetchBody(w) \/ Put(w) \/ AttachLook(w)
    <3>1. worker'[w].step \in {"put", "look", "attach"} /\ worker'[w].row = worker[w].row
       BY <1>1, <2>3 DEF FetchBody, Put, AttachLook, WorkerType
    <3>2. worker[w].step \in {"fetch", "put", "look"}
       BY <2>3 DEF FetchBody, Put, AttachLook
    <3>3. InHand(w)' = InHand(w)
       BY <3>1, <3>2 DEF InHand
    <3>4. QED
       BY <2>1, <2>2, <3>3, QueueStutter DEF InHand
  <2>4. CASE Ingest(w)
    <3>1. worker'[w].step = "free" /\ worker[w].step = "ingest"
       BY <1>1, <2>4 DEF Ingest, Free
    <3>2. InHand(w)' = InHand(w)
       BY <3>1 DEF InHand
    <3>3. QED
       BY <2>1, <2>2, <3>2, QueueStutter DEF InHand
  <2>5. QED
     BY <1>8, <2>3, <2>4
<1>9. ASSUME NEW w \in Workers, FetchNothing(w) \/ AttachFails(w)
      PROVE  Queue!Next
  <2>1. InHand(w) # 0
     BY <1>9, InHandFacts DEF FetchNothing, AttachFails
  <2>2. UNCHANGED <<rows, lastRow, reaped>> /\ worker' = [worker EXCEPT ![w] = Free]
     BY <1>9 DEF FetchNothing, AttachFails
  <2>3. InHand(w)' = 0 /\ \A v \in Workers \ {w} : InHand(v)' = InHand(v)
     BY <1>1, <2>2 DEF InHand, Free
  <2>4. QED
     BY <2>1, <2>2, <2>3, AbandonQueue
<1>10. ASSUME NEW w \in Workers, AttachBody(w)
       PROVE  Queue!Next
  <2>1. InHand(w) # 0
     BY <1>10, InHandFacts DEF AttachBody
  <2>2. worker[w].row \in Live /\ worker[w].row \in Ids
     BY <1>10, <2>1, InHandFacts DEF AttachBody, IInv, HoldInv
  <2>3. \A r \in Ids : /\ rows'[r].uid = rows[r].uid
                       /\ rows'[r].state = IF r = worker[w].row THEN "stored"
                                           ELSE rows[r].state
    <3>1. CASE worker[w].existing # 0
      <4>1. rows' = [rows EXCEPT ![worker[w].row].mid = worker[w].existing,
                                 ![worker[w].row].state = "stored"]
         BY <1>10, <3>1 DEF AttachBody, Relink
      <4>2. QED
         BY <1>1, <2>2, <4>1 DEF RowType
    <3>2. CASE worker[w].existing = 0
      <4>1. rows' = [rows EXCEPT ![worker[w].row].state = "stored"]
         BY <1>10, <3>2 DEF AttachBody, Record
      <4>2. QED
         BY <1>1, <2>2, <4>1 DEF RowType
    <3>3. QED
       BY <3>1, <3>2
  <2>4. /\ worker' = [worker EXCEPT ![w].step = "ingest", ![w].existing = 0]
        /\ lastRow' = lastRow /\ reaped' = reaped
     BY <1>10 DEF AttachBody
  <2>5. InHand(w)' = 0 /\ \A v \in Workers \ {w} : InHand(v)' = InHand(v)
     BY <1>1, <2>4 DEF InHand, WorkerType
  <2>6. QED
     BY <2>1, <2>2, <2>3, <2>4, <2>5, ReleaseQueue
<1>11. ASSUME NEW w \in Workers, WorkerFails(w)
       PROVE  Queue!Next \/ (QState' = QState /\ QHold' = QHold /\ reaped' = reaped)
  <2>1. worker' = [worker EXCEPT ![w] = Free] /\ lastRow' = lastRow /\ reaped' = reaped
     BY <1>11 DEF WorkerFails
  <2>2. InHand(w)' = 0 /\ \A v \in Workers \ {w} : InHand(v)' = InHand(v)
     BY <1>1, <2>1 DEF InHand, Free
  <2>3. CASE UNCHANGED rows /\ InHand(w) # 0
     BY <2>1, <2>2, <2>3, AbandonQueue
  <2>4. CASE UNCHANGED rows /\ InHand(w) = 0
     BY <2>1, <2>2, <2>4, QueueStutter
  <2>5. CASE rows' # rows
    <3>1. /\ worker[w].step \in {"fetch", "put"}
          /\ worker[w].row \in Live
          /\ rows' = [rows EXCEPT ![worker[w].row].state = "pending"]
       BY <1>11, <2>5 DEF WorkerFails
    <3>2. InHand(w) # 0 /\ worker[w].row \in Ids
       BY <3>1, InHandFacts
    <3>3. \A r \in Ids : /\ rows'[r].uid = rows[r].uid
                         /\ rows'[r].state = IF r = worker[w].row THEN "pending"
                                             ELSE rows[r].state
       BY <1>1, <3>1, <3>2 DEF RowType
    <3>4. QED
       BY <2>1, <2>2, <3>1, <3>2, <3>3, ReleaseQueue
  <2>6. QED
     BY <2>3, <2>4, <2>5
<1>12. ASSUME NEW r \in Ids, Reap(r)
       PROVE  Queue!Next \/ (QState' = QState /\ QHold' = QHold /\ reaped' = reaped)
  <2>1. /\ rows'[r].state = "pending" /\ rows'[r].uid = rows[r].uid
        /\ \A v \in Ids \ {r} : rows'[v] = rows[v]
        /\ rows[r].state = "fetching" /\ lastRow' = lastRow
     BY <1>1, <1>12 DEF Reap, RowType
  <2>2. r \in Live /\ r <= lastRow
     BY <2>1 DEF IInv, RowInv, Live, NoRow
  <2>3. QHold' = QHold /\ reaped' = IF r \in InHands THEN reaped \cup {r} ELSE reaped
     BY <1>12 DEF Reap, QHold, InHand
  <2>4. \A v \in Ids \ {r} : Place(v)' = Place(v)
     BY <2>1 DEF Place
  <2>5. CASE rows[r].uid = NoUID
    <3>1. Place(r)' = Place(r) /\ Place(r) = "gone"
       BY <1>1, <2>1, <2>2, <2>5 DEF Place
    <3>2. r \notin InHands
       BY <2>2, <3>1, InHandFacts DEF InHands
    <3>3. QED
       BY <2>3, <2>4, <3>1, <3>2 DEF QState
  <2>6. CASE rows[r].uid # NoUID
    <3> DEFINE T == {r} \cap InHands
    <3>1. Place(r) = "leased" /\ Place(r)' = "waiting"
       BY <1>1, <2>1, <2>2, <2>6 DEF Place
    <3>2. QState' = [v \in Ids |-> IF v \in {r} THEN "waiting" ELSE QState[v]]
       BY <2>4, <3>1 DEF QState
    <3>3. {r} \cap Queue!Held \subseteq T
       BY DEF Queue!Held, InHands
    <3>4. {r} \in SUBSET Queue!Leased /\ T \in SUBSET {r}
       BY <3>1 DEF Queue!Leased
    <3>5. reaped' = reaped \cup T
       BY <2>3
    <3>6. Queue!Recover({r}, T)
       BY <2>3, <3>2, <3>3, <3>5 DEF Queue!Recover, QState, QHold
    <3> HIDE DEF T
    <3>7. QED
       BY <3>4, <3>6 DEF Queue!Next
  <2>7. QED
     BY <2>5, <2>6
<1>13. CASE (\E u \in UIDs : Expunge(u)) \/ Renumber \/ SaveCheckpoint
   BY <1>2, <1>13 DEF Expunge, Renumber, SaveCheckpoint
<1>14. QED
   BY <1>3, <1>4, <1>5, <1>6, <1>7, <1>8, <1>9, <1>10, <1>11, <1>12, <1>13
   DEF Next, WorkerStep

\* With its two tables, its blobs, renumberings and crashes, the store implements
\* the queue of WorkQueue: unless it is reaped in a worker's hand, a row is
\* recorded by the one worker that has it, and once; what was deleted or
\* renumbered meanwhile does not come back.
THEOREM StoreImplementsQueue == Spec => ImplementsQueue
<1>1. Init => Queue!Init
  <2> SUFFICES ASSUME Init PROVE Queue!Init
     OBVIOUS
  <2>1. \A r \in Ids : Place(r) = "absent"
     BY DEF Init, Place
  <2>2. \A w \in Workers : InHand(w) = 0
     BY DEF Init, InHand, Free
  <2>3. QED
     BY <2>1, <2>2 DEF Init, Queue!Init
<1>2. IInv /\ [Next]_vars => [Queue!Next]_(Queue!vars)
  <2>1. UNCHANGED vars => UNCHANGED Queue!vars
     BY DEF vars, Queue!vars, Place, InHand
  <2>2. QED
     BY <2>1, QueueStep DEF Queue!vars, QState, QHold
<1>3. QED
   BY Inductive, <1>1, <1>2, PTL DEF Spec, ImplementsQueue, Queue!Spec
=============================================================================
