----------------------------- MODULE MCBodyPass -----------------------------
(***************************************************************************)
(* Values of BodyPass's constants for TLC.                                 *)
(***************************************************************************)
EXTENDS BodyPass, TLC

CONSTANTS w1, w2

TwoWorkers == {w1, w2}
OneWorker == {w1}
NoUIDs == {}
First == {1}
Second == {2}

\* Workers are interchangeable; used where no liveness is checked.
WorkerSymmetry == Permutations(Workers)

=============================================================================
