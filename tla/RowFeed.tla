------------------------------ MODULE RowFeed ------------------------------
(***************************************************************************)
(* What the metadata pass promises to whoever reads the rows beside it,    *)
(* without commands, chunks, checkpoints, flags and interrupted passes:    *)
(* the life of a row under one UIDVALIDITY.  A UID is listed once.  Its    *)
(* row goes only after its message has gone, and does not come back.  A    *)
(* renumbering begins everything anew.                                     *)
(***************************************************************************)
CONSTANT UIDs

VARIABLES
    phase,          \* of each UID's row: "absent", "listed" or "gone"
    upstream        \* the UIDs the server has a message for

vars == <<phase, upstream>>

Absent == {u \in UIDs : phase[u] = "absent"}
Listed == {u \in UIDs : phase[u] = "listed"}

Becomes(S, p) == phase' = [u \in UIDs |-> IF u \in S THEN p ELSE phase[u]]

-----------------------------------------------------------------------------
(* The server *)

\* A message arrives, under a UID that was never used.
Deliver(u) ==
    /\ u \notin upstream
    /\ phase[u] = "absent"
    /\ upstream' = upstream \cup {u}
    /\ UNCHANGED phase

\* A message goes.  If nobody has read it, its UID will never be listed.
Expunge(u) ==
    /\ u \in upstream
    /\ upstream' = upstream \ {u}
    /\ \E S \in SUBSET (Absent \cap {u}) : Becomes(S, "gone")

Renumber ==
    /\ upstream' \in SUBSET UIDs
    /\ Becomes(UIDs, "absent")

-----------------------------------------------------------------------------
(* The rows *)

\* Rows are recorded, any number at once; their messages were there when they
\* were read.
List(S) == Becomes(S, "listed") /\ UNCHANGED upstream

\* Rows are removed.
Remove(S) == Becomes(S, "gone") /\ UNCHANGED upstream

-----------------------------------------------------------------------------
Init ==
    /\ upstream \in SUBSET UIDs
    /\ phase \in [UIDs -> {"absent", "listed"}]

\* What was read and is forgotten goes like a row that is removed.
Next ==
    \/ \E S \in SUBSET Absent : List(S)
    \/ \E S \in SUBSET ((Listed \cup Absent) \ upstream) : Remove(S)
    \/ \E u \in UIDs : Deliver(u) \/ Expunge(u)
    \/ Renumber

Spec == Init /\ [][Next]_vars
=============================================================================
