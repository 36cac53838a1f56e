------------------------------- MODULE MCHistory -------------------------------
(* An instance of OutboxHistory for TLC.                                   *)
EXTENDS OutboxHistory, TLC

\* Workers are interchangeable.
WorkerSymmetry == Permutations(Workers)

=============================================================================
