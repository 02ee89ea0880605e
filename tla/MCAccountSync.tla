--------------------------- MODULE MCAccountSync ---------------------------
(* Processes, runners and mailboxes for the cfg files of AccountSync. *)
EXTENDS AccountSync, TLC

CONSTANTS p1, p2, r1, r2, inbox, parent

TwoProcesses == {p1, p2}
TwoRunners == {r1, r2}
OneEach == (r1 :> p1) @@ (r2 :> p2)
TwoMailboxes == {inbox, parent}
OnlyParent == {parent}
OneProcess == {p1}
OneRunner == {r1}
OnlyOne == (r1 :> p1)

PairSymmetry == {[x \in {p1, p2, r1, r2} |-> x],
                 (p1 :> p2) @@ (p2 :> p1) @@ (r1 :> r2) @@ (r2 :> r1)}

=============================================================================
