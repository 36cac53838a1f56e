------------------------------- MODULE MCOutbox -------------------------------
(* Instances of Outbox for TLC.                                            *)
EXTENDS OutboxRefinement, TLC

\* Workers are interchangeable.
WorkerSymmetry == Permutations(Workers)

=============================================================================
