--------------------------- MODULE MCMessageStore ---------------------------
(* Small instances of MessageStore for TLC. *)
EXTENDS MessageStore, TLC
CONSTANTS c1, c2, w1, w2
TwoContents == {c1, c2}
TwoWorkers == {w1, w2}
OneContent == {c2}
\* Workers are interchangeable; contents are not, one of them is untitled.
WorkerSymmetry == Permutations(Workers)
=============================================================================
