-------------------------- MODULE MCMutationQueue --------------------------
(* Small instances of MutationQueue for TLC. *)
EXTENDS MutationQueue
CONSTANTS m1, seen, plain, s1, s2, r1, r2
OneMessage == {m1}
TwoFlagSets == {seen, plain}
NoMessages == {}
OneSession == {s1}
TwoReplayers == {r1, r2}
OneReplayer == {r1}
=============================================================================
