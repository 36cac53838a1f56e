------------------------------- MODULE Delivery -------------------------------
(***************************************************************************)
(* What the outbox promises about one stored webhook, without workers,     *)
(* leases, retries, crashes or time: an accepted event stays open until    *)
(* all of its actions have an outcome (or it is rejected as a whole before *)
(* any action started); an outcome is final except that an operator may    *)
(* reopen the dead actions of a dead event.                                *)
(***************************************************************************)
EXTENDS Integers

CONSTANTS Events, Actions

VARIABLES status,   \* status[e]: "none", "open", "done", "dead", "skipped", "gone"
          outcome   \* outcome[e][i]: "open", "done", "dead"

dvars == <<status, outcome>>

Untouched(e) == \A i \in Actions : outcome[e][i] = "open"

DInit ==
    /\ status = [e \in Events |-> "none"]
    /\ outcome = [e \in Events |-> [i \in Actions |-> "open"]]

Accept(e) ==
    /\ status[e] = "none"
    /\ status' = [status EXCEPT ![e] = "open"]
    /\ UNCHANGED outcome

\* One action gets its outcome.
Resolve(e, i) ==
    /\ status[e] = "open"
    /\ outcome[e][i] = "open"
    /\ \E o \in {"done", "dead"} : outcome' = [outcome EXCEPT ![e][i] = o]
    /\ UNCHANGED status

\* Every action has its outcome: the event takes its own from them.
Close(e) ==
    /\ status[e] = "open"
    /\ \A i \in Actions : outcome[e][i] # "open"
    /\ status' = [status EXCEPT ![e] =
                    IF \A i \in Actions : outcome[e][i] = "done"
                    THEN "done" ELSE "dead"]
    /\ UNCHANGED outcome

\* Rejected as a whole: filtered out, or not executable.
Reject(e) ==
    /\ status[e] = "open"
    /\ Untouched(e)
    /\ \E s \in {"skipped", "dead"} : status' = [status EXCEPT ![e] = s]
    /\ UNCHANGED outcome

\* Replay: the dead actions are open again, the done ones stay done.
Reopen(e) ==
    /\ status[e] = "dead"
    /\ status' = [status EXCEPT ![e] = "open"]
    /\ outcome' = [outcome EXCEPT ![e] =
                     [i \in Actions |-> IF @[i] = "dead" THEN "open" ELSE @[i]]]

\* Retention removes events that are closed, any number at a time.
Forget(P) ==
    /\ P # {}
    /\ \A e \in P : status[e] \in {"done", "dead", "skipped"}
    /\ status' = [e \in Events |-> IF e \in P THEN "gone" ELSE status[e]]
    /\ outcome' = [e \in Events |-> IF e \in P THEN [i \in Actions |-> "open"]
                                               ELSE outcome[e]]

DNext ==
    \/ \E e \in Events :
          \/ Accept(e) \/ Close(e) \/ Reject(e) \/ Reopen(e)
          \/ \E i \in Actions : Resolve(e, i)
    \/ \E P \in SUBSET Events : Forget(P)

DSpec == DInit /\ [][DNext]_dvars

=============================================================================
