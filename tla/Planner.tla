------------------------------ MODULE Planner ------------------------------
(***************************************************************************)
(* How messages are grouped into FETCH commands: PlanBatches, for bodies,  *)
(* by bytes and by number, and PlanMetadataChunks, by number alone.  Both  *)
(* walk over a list once and keep its order, so a batch is a run of the    *)
(* list's positions.  The sizes are given by where each message ends when  *)
(* all are laid end to end: a run's bytes are then a difference.           *)
(*                                                                         *)
(* BodyPass takes any batches that satisfy Fits, MetadataPass the chunks.  *)
(***************************************************************************)
EXTENDS Integers, Sequences

CONSTANTS
    MaxLength,      \* bound on the messages of one list
    MaxTotal,       \* bound on their bytes together
    Budgets         \* the budgets to plan with: BatchBudget's fields

ASSUME ConstantsAssumption ==
    /\ MaxLength \in Nat
    /\ MaxTotal \in Nat
    /\ Budgets \subseteq [MaxBytes : Int, MaxMessages : Int, SoloAbove : Int]

VARIABLES
    task,           \* what is planned: "bodies" or "metadata"
    length,         \* of the list
    end,            \* end[i]: the bytes of the first i messages
    budget,
    next,           \* the message the loop looks at
    from,           \* the first message of current, next if there is none
    bytes,          \* of current
    batches,        \* the result
    done

vars == <<task, length, end, budget, next, from, bytes, batches, done>>
input == <<task, length, end, budget>>

-----------------------------------------------------------------------------
Run(i, j) == [from |-> i, to |-> j]
Size(i) == end[i] - end[i - 1]

\* A number below one counts as one.
Limit == IF budget.MaxMessages < 1 THEN 1 ELSE budget.MaxMessages

\* A message that has a command of its own.
Outsized(i) == budget.SoloAbove > 0 /\ Size(i) > budget.SoloAbove

\* A mutant of the operator below: what current held is not taken over.
Flushed_Drops == batches

\* The batches once current is closed; it is not added when it is empty.
Flushed == IF from < next THEN Append(batches, Run(from, next - 1)) ELSE batches

\* Mutants of the operator below: the limit itself is over it; bytes are
\* compared before the message is added.
Over_Early ==
    \/ budget.MaxBytes > 0 /\ bytes + Size(next) >= budget.MaxBytes
    \/ next - from >= Limit

Over_Late ==
    \/ budget.MaxBytes > 0 /\ bytes > budget.MaxBytes
    \/ next - from >= Limit

\* The next message does not fit into current.
Over ==
    \/ budget.MaxBytes > 0 /\ bytes + Size(next) > budget.MaxBytes
    \/ next - from >= Limit

-----------------------------------------------------------------------------
(* PlanBatches *)

\* An outsized message: current is closed before it.
PlanAlone ==
    /\ task = "bodies"
    /\ next <= length
    /\ Outsized(next)
    /\ batches' = Append(Flushed, Run(next, next))
    /\ next' = next + 1
    /\ from' = next + 1
    /\ bytes' = 0
    /\ UNCHANGED <<input, done>>

\* Any other joins current, or begins it anew.
PlanMessage ==
    /\ task = "bodies"
    /\ next <= length
    /\ ~Outsized(next)
    /\ IF from < next /\ Over
       THEN batches' = Flushed /\ from' = next /\ bytes' = Size(next)
       ELSE bytes' = bytes + Size(next) /\ UNCHANGED <<batches, from>>
    /\ next' = next + 1
    /\ UNCHANGED <<input, done>>

(* PlanMetadataChunks *)

\* The next chunk; the last one may be shorter.
PlanChunk ==
    /\ task = "metadata"
    /\ next <= length
    /\ LET last == IF next + Limit - 1 < length THEN next + Limit - 1 ELSE length IN
          /\ batches' = Append(batches, Run(next, last))
          /\ next' = last + 1
          /\ from' = last + 1
    /\ UNCHANGED <<input, bytes, done>>

\* The list is at its end; so is an empty one at once.
Return ==
    /\ ~done
    /\ next > length
    /\ batches' = Flushed
    /\ from' = next
    /\ bytes' = 0
    /\ done' = TRUE
    /\ UNCHANGED <<input, next>>

-----------------------------------------------------------------------------
Init ==
    /\ task \in {"bodies", "metadata"}
    /\ length \in 0 .. MaxLength
    /\ end \in [0 .. length -> 0 .. MaxTotal]
    /\ end[0] = 0
    /\ \A i \in 1 .. length : end[i - 1] <= end[i]
    /\ budget \in Budgets
    /\ next = 1
    /\ from = 1
    /\ bytes = 0
    /\ batches = <<>>
    /\ done = FALSE

Next == PlanAlone \/ PlanMessage \/ PlanChunk \/ Return

Spec == Init /\ [][Next]_vars

-----------------------------------------------------------------------------
(* Properties *)

\* The type of every variable.
TypeOK ==
    /\ task \in {"bodies", "metadata"}
    /\ length \in Nat
    /\ end \in [0 .. length -> Nat]
    /\ budget \in [MaxBytes : Int, MaxMessages : Int, SoloAbove : Int]
    /\ next \in 1 .. length + 1
    /\ from \in 1 .. length + 1
    /\ bytes \in Nat
    /\ batches \in Seq([from : 1 .. length, to : 1 .. length])
    /\ done \in BOOLEAN

Count(b) == b.to - b.from + 1
Bytes(b) == end[b.to] - end[b.from - 1]

\* The plan is the list: every message is in one batch, in the list's order,
\* and no batch is empty, whatever was closed early and whatever went alone.
Tiles ==
    done =>
        /\ length > 0 => batches # <<>>
        /\ \A k \in 1 .. Len(batches) :
              /\ batches[k].from <= batches[k].to
              /\ batches[k].from = IF k = 1 THEN 1 ELSE batches[k - 1].to + 1
              /\ k = Len(batches) => batches[k].to = length

\* A batch of more than one message is within its budget of bytes and holds no
\* outsized message; none has too many messages.  "One that exceeds the budget
\* on its own still goes out alone."
Fits ==
    \A k \in 1 .. Len(batches) :
        LET b == batches[k] IN
        /\ Count(b) <= Limit
        /\ task = "bodies" /\ Count(b) > 1 =>
              /\ budget.MaxBytes > 0 => Bytes(b) <= budget.MaxBytes
              /\ \A i \in b.from .. b.to : ~Outsized(i)

\* Why message i does not belong to the batch b that ends before it.
Closed(b, i) ==
    \/ Count(b) = Limit
    \/ /\ task = "bodies"
       /\ \/ Outsized(b.to) \/ Outsized(i)
          \/ budget.MaxBytes > 0 /\ Bytes(b) + Size(i) > budget.MaxBytes

\* No command is sent for what the one before could have carried: a batch ends
\* at a limit or at an outsized message, and nowhere else.
NoNeedlessSplit ==
    \A k \in 1 .. Len(batches) - 1 : Closed(batches[k], batches[k + 1].from)
=============================================================================
