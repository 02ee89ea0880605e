--------------------------- MODULE PlannerProofs ---------------------------
(***************************************************************************)
(* What PlanBatches and PlanMetadataChunks return for lists of any length, *)
(* sizes and budgets.                                                      *)
(***************************************************************************)
EXTENDS Planner, TLAPS

USE ConstantsAssumption

Runs == [from : 1 .. length, to : 1 .. length]

\* What Fits says of one batch.
Fit(b) ==
    /\ Count(b) <= Limit
    /\ task = "bodies" /\ Count(b) > 1 =>
          /\ budget.MaxBytes > 0 => Bytes(b) <= budget.MaxBytes
          /\ \A i \in b.from .. b.to : ~Outsized(i)

\* Batches that follow one another from the list's beginning, each within its
\* budgets and each closed for a reason.
Plan(bs) ==
    /\ bs \in Seq(Runs)
    /\ \A k \in 1 .. Len(bs) :
          /\ bs[k].from <= bs[k].to
          /\ bs[k].from = IF k = 1 THEN 1 ELSE bs[k - 1].to + 1
          /\ Fit(bs[k])
    /\ \A k \in 1 .. Len(bs) - 1 : Closed(bs[k], bs[k + 1].from)

\* The last message they hold.
Last(bs) == IF bs = <<>> THEN 0 ELSE bs[Len(bs)].to

\* The input is what Init made it: messages have sizes.
InputInv == \A i \in 1 .. length : end[i - 1] <= end[i]

\* Current follows the batches, within the budgets.
CurrentInv ==
    /\ Last(batches) = from - 1
    /\ from <= next
    /\ bytes = end[next - 1] - end[from - 1]
    /\ task = "metadata" => from = next
    /\ done => from = length + 1 /\ next = length + 1
    /\ next - from <= Limit
    /\ next - from > 1 /\ budget.MaxBytes > 0 => bytes <= budget.MaxBytes
    /\ \A i \in from .. next - 1 : ~Outsized(i)

\* The last batch was closed for the sake of current's first message; if current
\* is empty, for any message.
CloseInv ==
    batches # <<>> =>
        LET b == batches[Len(batches)] IN
        /\ from < next => Closed(b, from)
        /\ from = next =>
              \/ Count(b) = Limit
              \/ task = "bodies" /\ Outsized(b.to)
              \/ from = length + 1

IInv == TypeOK /\ InputInv /\ Plan(batches) /\ CurrentInv /\ CloseInv

-----------------------------------------------------------------------------
\* One more batch, right after the last and for a reason, makes a longer plan.
LEMMA Extend ==
    ASSUME TypeOK, NEW bs, Plan(bs), NEW b \in Runs,
           Last(bs) = b.from - 1, b.from <= b.to, Fit(b),
           bs # <<>> => Closed(bs[Len(bs)], b.from)
    PROVE  /\ Plan(Append(bs, b))
           /\ Append(bs, b) # <<>>
           /\ Len(Append(bs, b)) \in 1 .. Len(bs) + 1
           /\ Append(bs, b)[Len(Append(bs, b))] = b
           /\ Last(Append(bs, b)) = b.to
<1> DEFINE cs == Append(bs, b)
<1>1. bs \in Seq(Runs) /\ Len(bs) \in Nat
   BY DEF Plan
<1>2. cs \in Seq(Runs) /\ Len(cs) = Len(bs) + 1 /\ cs[Len(bs) + 1] = b
   BY <1>1
<1>3. \A k \in 1 .. Len(bs) : cs[k] = bs[k]
   BY <1>1
<1>4. cs # <<>>
   BY <1>1, <1>2
<1> HIDE DEF cs
<1>5. Last(cs) = b.to
   BY <1>2, <1>4 DEF Last
<1>6. ASSUME NEW k \in 1 .. Len(cs)
      PROVE  /\ cs[k].from <= cs[k].to
             /\ cs[k].from = IF k = 1 THEN 1 ELSE cs[k - 1].to + 1
             /\ Fit(cs[k])
  <2>1. CASE k \in 1 .. Len(bs)
    <3>1. k # 1 => cs[k - 1] = bs[k - 1]
       BY <1>1, <1>3, <2>1
    <3>2. cs[k] = bs[k]
       BY <1>3, <2>1
    <3>3. QED
       BY <2>1, <3>1, <3>2 DEF Plan
  <2>2. CASE k = Len(bs) + 1
    <3>1. cs[k] = b
       BY <1>2, <2>2
    <3>2. k = 1 => b.from = 1
      <4>1. k = 1 => bs = <<>>
         BY <1>1, <2>2
      <4>2. QED
         BY <4>1 DEF Last
    <3>3. k # 1 => b.from = cs[k - 1].to + 1
      <4>1. k # 1 => bs # <<>> /\ k - 1 = Len(bs) /\ k - 1 \in 1 .. Len(bs)
         BY <1>1, <2>2
      <4>2. k # 1 => b.from \in Int /\ bs[Len(bs)].to = b.from - 1
         BY <4>1 DEF Last, Runs, TypeOK
      <4>3. QED
         BY <1>3, <4>1, <4>2
    <3>4. QED
       BY <3>1, <3>2, <3>3
  <2>3. QED
     BY <1>1, <1>2, <2>1, <2>2
<1>7. ASSUME NEW k \in 1 .. Len(cs) - 1
      PROVE  Closed(cs[k], cs[k + 1].from)
  <2>1. CASE k \in 1 .. Len(bs) - 1
    <3>1. cs[k] = bs[k] /\ cs[k + 1] = bs[k + 1]
       BY <1>1, <1>3, <2>1
    <3>2. QED
       BY <2>1, <3>1 DEF Plan
  <2>2. CASE k = Len(bs)
    <3>1. bs # <<>> /\ cs[k] = bs[Len(bs)] /\ cs[k + 1] = b
       BY <1>1, <1>2, <1>3, <2>2
    <3>2. QED
       BY <3>1
  <2>3. QED
     BY <1>1, <1>2, <2>1, <2>2
<1>8. Plan(cs)
   BY <1>2, <1>6, <1>7 DEF Plan
<1>9. QED
   BY <1>1, <1>2, <1>4, <1>5, <1>8 DEF cs

\* Closing current makes a plan that ends before the next message.
LEMMA FlushedPlan ==
    ASSUME IInv
    PROVE  /\ Plan(Flushed)
           /\ Last(Flushed) = next - 1
           /\ from < next => /\ Flushed # <<>>
                             /\ Flushed[Len(Flushed)] = Run(from, next - 1)
           /\ from = next => Flushed = batches
<1>1. CASE from < next
  <2> DEFINE b == Run(from, next - 1)
  <2>1. b \in Runs /\ b.from = from /\ b.to = next - 1
     BY <1>1 DEF IInv, TypeOK, Run, Runs
  <2> HIDE DEF b
  <2>2. Fit(b)
    <3>1. Count(b) = next - from /\ Bytes(b) = bytes
       BY <2>1 DEF IInv, TypeOK, CurrentInv, Count, Bytes
    <3>2. QED
       BY <2>1, <3>1 DEF IInv, CurrentInv, Fit
  <2>3. batches # <<>> => Closed(batches[Len(batches)], b.from)
     BY <1>1, <2>1 DEF IInv, CloseInv
  <2>4. Last(batches) = b.from - 1 /\ b.from <= b.to
     BY <1>1, <2>1 DEF IInv, TypeOK, CurrentInv
  <2>5. Flushed = Append(batches, b)
     BY <1>1 DEF Flushed, b
  <2>6. /\ Plan(Flushed) /\ Flushed # <<>>
        /\ Flushed[Len(Flushed)] = b /\ Last(Flushed) = b.to
     BY <2>1, <2>2, <2>3, <2>4, <2>5, Extend DEF IInv
  <2>7. b = Run(from, next - 1) /\ from # next
     BY <1>1 DEF IInv, TypeOK, b
  <2>8. QED
     BY <2>1, <2>6, <2>7
<1>2. CASE from = next
  <2>1. Flushed = batches
     BY <1>2 DEF Flushed, IInv, TypeOK
  <2>2. QED
     BY <1>2, <2>1 DEF IInv, TypeOK, CurrentInv
<1>3. QED
   BY <1>1, <1>2 DEF IInv, TypeOK, CurrentInv

-----------------------------------------------------------------------------
(* Steps *)

\* What a step keeps when it leaves the input alone.
LEMMA SameInput ==
    ASSUME TypeOK, InputInv, UNCHANGED input, Plan(batches')
    PROVE  /\ InputInv' /\ Plan(batches)'
           /\ task' = task /\ length' = length /\ end' = end /\ budget' = budget
           /\ Limit' = Limit
           /\ \A i : Outsized(i)' = Outsized(i) /\ Size(i)' = Size(i)
<1>1. task' = task /\ length' = length /\ end' = end /\ budget' = budget
   BY DEF input
<1>2. InputInv'
   BY <1>1 DEF InputInv
<1>3. Plan(batches)'
   BY <1>1 DEF Plan, Runs, Fit, Closed, Count, Bytes, Limit, Outsized, Size
<1>4. QED
   BY <1>1, <1>2, <1>3 DEF Limit, Outsized, Size

\* Limits and sizes are numbers.
LEMMA Numbers ==
    ASSUME IInv
    PROVE  /\ Limit \in Nat \ {0}
           /\ budget.MaxBytes \in Int
           /\ \A i \in 1 .. length : Size(i) \in Nat
           /\ \A i \in 0 .. length : end[i] \in Nat
<1>1. \A i \in 1 .. length : i - 1 \in 0 .. length /\ i \in 0 .. length
   BY DEF IInv, TypeOK
<1>2. QED
   BY <1>1 DEF IInv, TypeOK, InputInv, Limit, Size

\* What current holds is closed, and the outsized message follows by itself.
LEMMA PlanAloneStep ==
    ASSUME IInv, PlanAlone
    PROVE  IInv'
<1> DEFINE b == Run(next, next)
<1>1. b \in Runs /\ b.from = next /\ b.to = next
   BY DEF IInv, TypeOK, PlanAlone, Run, Runs
<1>2. Outsized(next) /\ next \in 1 .. length /\ task = "bodies"
   BY DEF PlanAlone, IInv, TypeOK
<1>3. batches' = Append(Flushed, b)
   BY DEF PlanAlone
<1> HIDE DEF b
<1>4. Fit(b)
   BY <1>1, <1>2, Numbers DEF Fit, Count
<1>5. /\ Plan(batches') /\ batches' # <<>> /\ Last(batches') = next
      /\ batches'[Len(batches')] = b
  <2>1. Flushed # <<>> => Closed(Flushed[Len(Flushed)], b.from)
     BY <1>1, <1>2 DEF Closed
  <2>2. Last(Flushed) = b.from - 1 /\ b.from <= b.to
     BY <1>1, <1>2, FlushedPlan
  <2>3. QED
     BY <1>1, <1>3, <1>4, <2>1, <2>2, FlushedPlan, Extend DEF IInv
<1>6. next' = next + 1 /\ from' = next + 1 /\ bytes' = 0 /\ done' = done /\ UNCHANGED input
   BY DEF PlanAlone
<1>7. InputInv' /\ Plan(batches)' /\ Limit' = Limit /\ UNCHANGED <<task, length, end, budget>>
   BY <1>5, <1>6, SameInput DEF IInv
<1>8. TypeOK'
  <2>1. next' \in 1 .. length + 1 /\ from' \in 1 .. length + 1 /\ bytes' \in Nat
     BY <1>2, <1>6 DEF IInv, TypeOK
  <2>2. batches' \in Seq([from : 1 .. length, to : 1 .. length])
     BY <1>5 DEF Plan, Runs
  <2>3. QED
     BY <1>6, <1>7, <2>1, <2>2 DEF IInv, TypeOK
<1>9. CurrentInv'
  <2>1. done = FALSE
     BY <1>2 DEF IInv, CurrentInv, TypeOK
  <2>2. Last(batches)' = from' - 1
     BY <1>2, <1>5, <1>6 DEF Last
  <2>3. next' - 1 \in 0 .. length
     BY <1>2, <1>6
  <2>4. bytes' = end'[next' - 1] - end'[from' - 1]
     BY <1>6, <1>7, <2>3 DEF IInv, TypeOK
  <2>5. \A i \in from' .. next' - 1 : FALSE
     BY <1>2, <1>6
  <2>6. QED
     BY <1>2, <1>6, <1>7, <2>1, <2>2, <2>4, <2>5, Numbers DEF CurrentInv
<1>10. CloseInv'
  <2>1. Outsized(batches'[Len(batches')].to)
     BY <1>1, <1>2, <1>5
  <2>2. Outsized(batches[Len(batches)].to)'
     BY <1>7, <2>1 DEF Outsized, Size
  <2>3. ~(from' < next')
     BY <1>2, <1>6
  <2>4. QED
     BY <1>2, <1>7, <2>2, <2>3 DEF CloseInv
<1>11. QED
   BY <1>7, <1>8, <1>9, <1>10 DEF IInv

\* The message joins current within the budgets, or current is closed because
\* it would not have fitted.
LEMMA PlanMessageStep ==
    ASSUME IInv, PlanMessage
    PROVE  IInv'
<1>1. ~Outsized(next) /\ next \in 1 .. length /\ task = "bodies" /\ done = FALSE
   BY DEF PlanMessage, IInv, TypeOK, CurrentInv
<1>2. next' = next + 1 /\ done' = done /\ UNCHANGED input
   BY DEF PlanMessage
<1>3. Size(next) \in Nat /\ Size(next) = end[next] - end[next - 1] /\ Limit \in Nat \ {0}
   BY <1>1, Numbers DEF Size
<1>4. CASE from < next /\ Over
  <2>1. batches' = Flushed /\ from' = next /\ bytes' = Size(next)
     BY <1>4 DEF PlanMessage
  <2>2. /\ Plan(batches') /\ Last(batches') = next - 1 /\ batches' # <<>>
        /\ batches'[Len(batches')] = Run(from, next - 1)
     BY <1>4, <2>1, FlushedPlan
  <2>3. InputInv' /\ Plan(batches)' /\ Limit' = Limit /\ UNCHANGED <<task, length, end, budget>>
     BY <1>2, <2>2, SameInput DEF IInv
  <2>4. TypeOK'
    <3>1. next' \in 1 .. length + 1 /\ from' \in 1 .. length + 1 /\ bytes' \in Nat
       BY <1>1, <1>2, <1>3, <2>1 DEF IInv, TypeOK
    <3>2. batches' \in Seq([from : 1 .. length, to : 1 .. length])
       BY <2>2 DEF Plan, Runs
    <3>3. QED
       BY <1>2, <2>3, <3>1, <3>2 DEF IInv, TypeOK
  <2>5. CurrentInv'
    <3>1. Last(batches)' = from' - 1
       BY <2>1, <2>2 DEF Last
    <3>2. bytes' = end'[next' - 1] - end'[from' - 1]
       BY <1>1, <1>2, <1>3, <2>1, <2>3
    <3>3. \A i \in from' .. next' - 1 : i = next
       BY <1>1, <1>2, <2>1
    <3>4. \A i \in from' .. next' - 1 : ~Outsized(i)'
       BY <1>1, <2>3, <3>3 DEF Outsized, Size
    <3>5. next' - from' = 1
       BY <1>1, <1>2, <2>1
    <3>6. QED
       BY <1>1, <1>2, <1>3, <2>1, <2>3, <3>1, <3>2, <3>4, <3>5 DEF CurrentInv
  <2>6. CloseInv'
    <3> DEFINE b == Run(from, next - 1)
    <3>1. b.from = from /\ b.to = next - 1
       BY DEF Run
    <3> HIDE DEF b
    <3>2. Count(b) = next - from /\ Bytes(b) = bytes
       BY <3>1 DEF IInv, TypeOK, CurrentInv, Count, Bytes
    <3>3. next - from <= Limit
       BY DEF IInv, CurrentInv
    <3>4. next - from \in Int
       BY DEF IInv, TypeOK
    <3>5. Closed(b, next)
       BY <1>1, <1>3, <1>4, <3>2, <3>3, <3>4 DEF Over, Closed
    <3>6. Closed(batches'[Len(batches')], next)
       BY <2>2, <3>5 DEF b
    <3>7. Closed(batches[Len(batches)], from)'
       BY <2>1, <2>3, <3>6 DEF Closed, Count, Bytes, Limit, Outsized, Size
    <3>8. from' # next'
       BY <1>1, <1>2, <2>1
    <3>9. QED
       BY <3>7, <3>8 DEF CloseInv
  <2>7. QED
     BY <2>3, <2>4, <2>5, <2>6 DEF IInv
<1>5. CASE ~(from < next /\ Over)
  <2>1. batches' = batches /\ from' = from /\ bytes' = bytes + Size(next)
     BY <1>5 DEF PlanMessage
  <2>2. InputInv' /\ Plan(batches)' /\ Limit' = Limit /\ UNCHANGED <<task, length, end, budget>>
     BY <1>2, <2>1, SameInput DEF IInv
  <2>3. TypeOK'
    <3>1. next' \in 1 .. length + 1 /\ from' \in 1 .. length + 1 /\ bytes' \in Nat
       BY <1>1, <1>2, <1>3, <2>1 DEF IInv, TypeOK
    <3>2. batches' \in Seq([from : 1 .. length, to : 1 .. length])
       BY <2>1 DEF IInv, TypeOK
    <3>3. QED
       BY <1>2, <2>2, <3>1, <3>2 DEF IInv, TypeOK
  <2>4. CurrentInv'
    <3>1. Last(batches)' = from' - 1
       BY <2>1 DEF IInv, CurrentInv, Last
    <3>2. bytes' = end'[next' - 1] - end'[from' - 1]
      <4>1. end[from - 1] \in Int /\ end[next - 1] \in Int /\ end[next] \in Int
         BY <1>1 DEF IInv, TypeOK
      <4>2. bytes + Size(next) = end[next] - end[from - 1]
         BY <1>3, <4>1 DEF IInv, CurrentInv
      <4>3. QED
         BY <1>1, <1>2, <2>1, <2>2, <4>2
    <3>3. \A i \in from' .. next' - 1 : ~Outsized(i)'
      <4>1. \A i \in from .. next : ~Outsized(i)
         BY <1>1 DEF IInv, TypeOK, CurrentInv
      <4>2. \A i \in from' .. next' - 1 : i \in from .. next
         BY <1>1, <1>2, <2>1 DEF IInv, TypeOK
      <4>3. QED
         BY <2>2, <4>1, <4>2 DEF Outsized, Size
    <3>4. from <= next /\ from' <= next' /\ next' - from' = next - from + 1
       BY <1>1, <1>2, <2>1 DEF IInv, TypeOK, CurrentInv
    <3>5. next' - from' <= Limit
       BY <1>1, <1>3, <1>5, <3>4 DEF IInv, TypeOK, CurrentInv, Over
    <3>6. next' - from' > 1 /\ budget.MaxBytes > 0 => bytes' <= budget.MaxBytes
      <4>1. next' - from' > 1 => from < next
         BY <1>1, <3>4 DEF IInv, TypeOK
      <4>2. bytes + Size(next) \in Int /\ budget.MaxBytes \in Int
         BY <1>3, Numbers DEF IInv, TypeOK
      <4>3. QED
         BY <1>5, <2>1, <4>1, <4>2 DEF Over
    <3>7. QED
       BY <1>1, <1>2, <2>1, <2>2, <3>1, <3>2, <3>3, <3>4, <3>5, <3>6 DEF CurrentInv
  <2>5. CloseInv'
    <3> SUFFICES ASSUME batches # <<>> PROVE CloseInv'
       BY <2>1 DEF CloseInv
    <3> DEFINE b == batches[Len(batches)]
    <3>1. Closed(b, from)
       BY <1>1 DEF IInv, TypeOK, CurrentInv, CloseInv, Closed
    <3>2. Closed(batches[Len(batches)], from)'
       BY <2>1, <2>2, <3>1 DEF Closed, Count, Bytes, Limit, Outsized, Size
    <3>3. from' # next'
       BY <1>1, <1>2, <2>1 DEF IInv, TypeOK, CurrentInv
    <3>4. QED
       BY <3>2, <3>3 DEF CloseInv
  <2>6. QED
     BY <2>2, <2>3, <2>4, <2>5 DEF IInv
<1>6. QED
   BY <1>4, <1>5

\* A chunk is full, or the list ends with it.
LEMMA PlanChunkStep ==
    ASSUME IInv, PlanChunk
    PROVE  IInv'
<1>1. /\ next \in 1 .. length /\ length \in Nat /\ from = next
      /\ task = "metadata" /\ done = FALSE
   BY DEF PlanChunk, IInv, TypeOK, CurrentInv
<1>2. Limit \in Nat \ {0}
   BY Numbers
<1>3. PICK last \in next .. length :
         /\ last = IF next + Limit - 1 < length THEN next + Limit - 1 ELSE length
         /\ batches' = Append(batches, Run(next, last))
         /\ next' = last + 1 /\ from' = last + 1
   BY <1>1, <1>2 DEF PlanChunk
<1>4. bytes' = bytes /\ done' = done /\ UNCHANGED input
   BY DEF PlanChunk
<1> DEFINE b == Run(next, last)
<1>5. b \in Runs /\ b.from = next /\ b.to = last /\ b.from <= b.to
   BY <1>1, <1>3 DEF Run, Runs, IInv, TypeOK
<1> HIDE DEF b
<1>6. /\ Count(b) <= Limit
      /\ Count(b) = Limit \/ last = length
   BY <1>1, <1>2, <1>3, <1>5 DEF Count
<1>7. Fit(b)
   BY <1>1, <1>6 DEF Fit
<1>8. /\ Plan(batches') /\ batches' # <<>> /\ Last(batches') = last
      /\ batches'[Len(batches')] = b
  <2>1. batches # <<>> => Closed(batches[Len(batches)], b.from)
    <3>1. from # length + 1
       BY <1>1
    <3>2. QED
       BY <1>1, <3>1 DEF IInv, CloseInv, Closed
  <2>2. Last(batches) = b.from - 1
     BY <1>1, <1>5 DEF IInv, CurrentInv
  <2>3. batches' = Append(batches, b)
     BY <1>3 DEF b
  <2>4. QED
     BY <1>5, <1>7, <2>1, <2>2, <2>3, Extend DEF IInv
<1>9. InputInv' /\ Plan(batches)' /\ Limit' = Limit /\ UNCHANGED <<task, length, end, budget>>
   BY <1>4, <1>8, SameInput DEF IInv
<1>10. TypeOK'
  <2>1. next' \in 1 .. length + 1 /\ from' \in 1 .. length + 1
     BY <1>1, <1>3
  <2>2. batches' \in Seq([from : 1 .. length, to : 1 .. length])
     BY <1>8 DEF Plan, Runs
  <2>3. QED
     BY <1>4, <1>9, <2>1, <2>2 DEF IInv, TypeOK
<1>11. CurrentInv'
  <2>1. Last(batches)' = from' - 1
    <3>1. last = from' - 1
       BY <1>1, <1>3
    <3>2. QED
       BY <1>8, <3>1 DEF Last
  <2>2. bytes = 0
    <3>1. end[next - 1] \in Int
       BY <1>1, Numbers
    <3>2. QED
       BY <1>1, <3>1 DEF IInv, CurrentInv
  <2>3. last \in 0 .. length /\ end[last] \in Int /\ last + 1 - 1 = last
    <3>1. last \in 0 .. length /\ last + 1 - 1 = last
       BY <1>1, <1>3
    <3>2. end[last] \in Nat
       BY <3>1, Numbers
    <3>3. QED
       BY <3>1, <3>2
  <2>4. bytes' = end'[next' - 1] - end'[from' - 1]
     BY <1>3, <1>4, <1>9, <2>2, <2>3
  <2>5. from' = next' /\ from' <= next' /\ next' - from' = 0
     BY <1>1, <1>3
  <2>6. \A i \in from' .. next' - 1 : FALSE
     BY <1>1, <1>3
  <2>7. QED
     BY <1>1, <1>2, <1>4, <1>9, <2>1, <2>4, <2>5, <2>6 DEF CurrentInv
<1>12. CloseInv'
  <2>1. Count(batches'[Len(batches')]) = Limit \/ from' = length' + 1
     BY <1>3, <1>6, <1>8, <1>9
  <2>2. ~(from' < next')
     BY <1>1, <1>3
  <2>3. QED
     BY <1>9, <2>1, <2>2 DEF CloseInv, Count
<1>13. QED
   BY <1>9, <1>10, <1>11, <1>12 DEF IInv

\* The last flush completes the plan.
LEMMA ReturnStep ==
    ASSUME IInv, Return
    PROVE  IInv'
<1>1. next = length + 1 /\ length \in Nat
   BY DEF Return, IInv, TypeOK
<1>2. /\ batches' = Flushed /\ from' = next /\ next' = next
      /\ bytes' = 0 /\ done' = TRUE /\ UNCHANGED input
   BY DEF Return
<1>3. Plan(batches') /\ Last(batches') = next - 1
   BY <1>2, FlushedPlan
<1>4. InputInv' /\ Plan(batches)' /\ Limit' = Limit /\ UNCHANGED <<task, length, end, budget>>
   BY <1>2, <1>3, SameInput DEF IInv
<1>5. TypeOK'
  <2>1. batches' \in Seq([from : 1 .. length, to : 1 .. length])
     BY <1>3 DEF Plan, Runs
  <2>2. QED
     BY <1>1, <1>2, <1>4, <2>1 DEF IInv, TypeOK
<1>6. CurrentInv'
  <2>1. Last(batches)' = from' - 1
     BY <1>2, <1>3 DEF Last
  <2>2. end[next - 1] \in Int /\ Limit \in Nat
     BY <1>1, Numbers
  <2>3. bytes' = end'[next' - 1] - end'[from' - 1]
     BY <1>2, <1>4, <2>2
  <2>4. from' = next' /\ from' <= next' /\ next' - from' = 0 /\ next' = length' + 1
     BY <1>1, <1>2, <1>4
  <2>5. \A i \in from' .. next' - 1 : FALSE
     BY <1>1, <1>2
  <2>6. QED
     BY <1>4, <2>1, <2>2, <2>3, <2>4, <2>5 DEF CurrentInv
<1>7. CloseInv'
   BY <1>1, <1>2, <1>4 DEF CloseInv
<1>8. QED
   BY <1>4, <1>5, <1>6, <1>7 DEF IInv

-----------------------------------------------------------------------------
\* Nothing is planned yet.
LEMMA InitInv == Init => IInv
<1> SUFFICES ASSUME Init PROVE IInv
   OBVIOUS
<1>1. length \in Nat /\ end \in [0 .. length -> Nat] /\ end[0] = 0 /\ batches = <<>>
   BY DEF Init
<1>2. TypeOK
  <2>1. batches \in Seq([from : 1 .. length, to : 1 .. length])
     BY <1>1
  <2>2. next \in 1 .. length + 1 /\ from \in 1 .. length + 1 /\ bytes \in Nat
     BY <1>1 DEF Init
  <2>3. budget \in [MaxBytes : Int, MaxMessages : Int, SoloAbove : Int]
     BY DEF Init
  <2>4. QED
     BY <1>1, <2>1, <2>2, <2>3 DEF Init, TypeOK
<1>3. InputInv
   BY DEF Init, InputInv
<1>4. Plan(batches)
   BY <1>1 DEF Plan, Runs
<1>5. CurrentInv
   BY <1>1, <1>2 DEF Init, CurrentInv, Last, Limit, TypeOK
<1>6. CloseInv
   BY <1>1 DEF CloseInv
<1>7. QED
   BY <1>2, <1>3, <1>4, <1>5, <1>6 DEF IInv

\* The loops keep the invariant.
LEMMA NextInv == IInv /\ [Next]_vars => IInv'
<1> SUFFICES ASSUME IInv, [Next]_vars PROVE IInv'
   OBVIOUS
<1>1. CASE UNCHANGED vars
   BY <1>1 DEF vars, IInv, TypeOK, InputInv, Plan, Runs, Fit, CurrentInv, CloseInv, Last,
               Closed, Count, Bytes, Limit, Outsized, Size
<1>2. QED
   BY <1>1, PlanAloneStep, PlanMessageStep, PlanChunkStep, ReturnStep DEF Next

\* The invariant holds throughout.
LEMMA Inductive == Spec => []IInv
   BY InitInv, NextInv, PTL DEF Spec

\* The loop's variables keep their types, whatever the sizes and budgets.
THEOREM TypeCorrect == Spec => []TypeOK
<1>1. IInv => TypeOK
   BY DEF IInv
<1>2. QED
   BY <1>1, Inductive, PTL

\* PlanBatches and PlanMetadataChunks lose no message, repeat none, keep their
\* order and make no empty batch.
THEOREM PlanIsPartition == Spec => []Tiles
<1>1. IInv => Tiles
  <2> SUFFICES ASSUME IInv, done PROVE Tiles
     BY DEF Tiles
  <2>1. from = length + 1 /\ Last(batches) = from - 1 /\ length \in Nat
     BY DEF IInv, TypeOK, CurrentInv
  <2>2. batches # <<>> => batches[Len(batches)].to = length
     BY <2>1 DEF Last
  <2>3. length > 0 => batches # <<>>
     BY <2>1 DEF Last
  <2>4. \A k \in 1 .. Len(batches) : batches # <<>>
     BY DEF IInv, TypeOK
  <2>5. QED
     BY <2>2, <2>3, <2>4 DEF Tiles, IInv, Plan
<1>2. QED
   BY <1>1, Inductive, PTL

\* Every batch is within the count, a batch of several within the bytes too and
\* without an outsized message: what BodyPass takes for granted of a batch.
THEOREM BatchesFit == Spec => []Fits
<1>1. IInv => Fits
   BY DEF IInv, Plan, Fit, Fits
<1>2. QED
   BY <1>1, Inductive, PTL

\* A batch is closed only at a limit or at an outsized message, so no command
\* could have joined the one before it.
THEOREM SplitsAreNeeded == Spec => []NoNeedlessSplit
<1>1. IInv => NoNeedlessSplit
   BY DEF IInv, Plan, NoNeedlessSplit
<1>2. QED
   BY <1>1, Inductive, PTL
=============================================================================
