----------------------------- MODULE WorkQueue -----------------------------
(***************************************************************************)
(* What the bodies' download promises, without batches, connections,       *)
(* claims in memory, messages rows or blobs: a queue of items that workers *)
(* take one at a time.  An item is worked on only while it is leased, by   *)
(* one worker; what is done stays done; a lease whose holder is gone is    *)
(* recovered.  A lease goes by age alone, so it may also expire in a       *)
(* worker's hand, and for that item these promises end until all workers   *)
(* have let go.  An item may be withdrawn at any moment, also in a         *)
(* worker's hand, and does not come back.                                  *)
(***************************************************************************)
CONSTANTS Items, Workers, Nobody

VARIABLES
    state,          \* of each item
    holder,         \* the item in each worker's hand, or Nobody
    expired         \* items whose lease may have run out in a worker's hand

vars == <<state, holder, expired>>

Held == {holder[w] : w \in Workers}
Present == {m \in Items : state[m] \in {"waiting", "leased", "done"}}
Waiting == {m \in Items : state[m] = "waiting"}
Leased == {m \in Items : state[m] = "leased"}

\* The worker lets go of its item, which becomes s unless it was withdrawn.
Release(w, s) ==
    /\ holder[w] \in Items
    /\ holder' = [holder EXCEPT ![w] = Nobody]
    /\ state' = [state EXCEPT ![holder[w]] = IF @ = "gone" THEN @ ELSE s]
    /\ UNCHANGED expired

-----------------------------------------------------------------------------
Offer(m) ==
    /\ UNCHANGED <<holder, expired>>
    /\ state[m] = "absent"
    /\ state' = [state EXCEPT ![m] = "waiting"]

\* Items are taken from the queue for good, any number at once.
Withdraw(S) ==
    /\ UNCHANGED <<holder, expired>>
    /\ state' = [m \in Items |-> IF m \in S THEN "gone" ELSE state[m]]

\* Items leave the queue, any number at once.
Lease(S) ==
    /\ UNCHANGED <<holder, expired>>
    /\ state' = [m \in Items |-> IF m \in S THEN "leased" ELSE state[m]]

\* Leases return to the queue; those of them that are worked on have expired,
\* and others may be taken for it.
Recover(S, T) ==
    /\ UNCHANGED holder
    /\ S \cap Held \subseteq T
    /\ expired' = expired \cup T
    /\ state' = [m \in Items |-> IF m \in S THEN "waiting" ELSE state[m]]

\* Nobody else works on a leased item, unless its lease has expired.
Pick(w, m) ==
    /\ holder[w] = Nobody
    /\ m \in expired \/ (state[m] \in {"leased", "gone"} /\ m \notin Held)
    /\ holder' = [holder EXCEPT ![w] = m]
    /\ UNCHANGED <<state, expired>>

\* A worker leases the item it picks.
Take(w, m) ==
    /\ holder[w] = Nobody
    /\ state[m] = "waiting"
    /\ m \in expired \/ m \notin Held
    /\ state' = [state EXCEPT ![m] = "leased"]
    /\ holder' = [holder EXCEPT ![w] = m]
    /\ UNCHANGED expired

Finish(w) == Release(w, "done")
GiveBack(w) == Release(w, "waiting")

\* The worker lets go without a word: the lease stays.
Abandon(w) ==
    /\ holder[w] \in Items
    /\ holder' = [holder EXCEPT ![w] = Nobody]
    /\ UNCHANGED <<state, expired>>

\* Every worker has let go, or the workers' process is gone.
AbandonAll ==
    /\ holder' = [w \in Workers |-> Nobody]
    /\ expired' = {}
    /\ UNCHANGED state

-----------------------------------------------------------------------------
Init ==
    /\ state \in [Items -> {"absent", "waiting"}]
    /\ holder = [w \in Workers |-> Nobody]
    /\ expired = {}

Next ==
    \/ \E S \in SUBSET Present : Withdraw(S)
    \/ \E m \in Items : Offer(m)
    \/ \E w \in Workers : Finish(w) \/ GiveBack(w) \/ Abandon(w)
    \/ \E w \in Workers : \E m \in Items : Pick(w, m) \/ Take(w, m)
    \/ AbandonAll
    \/ \E S \in SUBSET Leased : \E T \in SUBSET S : Recover(S, T)
    \/ \E S \in SUBSET Waiting : Lease(S)

Spec == Init /\ [][Next]_vars
=============================================================================
