------------------------------ MODULE MCFilter ------------------------------
(* An instance of Filter for TLC: a source with two rules and redaction,    *)
(* and one, named like the shared drop counter, with a rule that is too     *)
(* long and one that does not compile.                                      *)
EXTENDS Filter, TLC

Plain == [extract |-> [service |-> "svc", msg |-> "text"], field |-> "",
          services |-> {}, rules |-> <<>>, redacts |-> FALSE]

MCSnapshot ==
    [alarms |-> [Plain EXCEPT
                    !.services = {"db"}, !.redacts = TRUE,
                    !.rules = <<[var |-> "msg", regex |-> "p1"],
                                [var |-> "service", regex |-> "p2"]>>],
     other |-> [Plain EXCEPT
                   !.services = {"db", "web"},
                   !.rules = <<[var |-> "msg", regex |-> "p3"],
                               [var |-> "gone", regex |-> "long"],
                               [var |-> "service", regex |-> "broken"]>>]]

MCPayloads ==
    {[svc |-> "db", text |-> "key"], [svc |-> "web", text |-> "key"],
     [svc |-> "db", text |-> "up"], [text |-> "down"]}

\* "key" is a credential; p1 looks for it, and a mask would not do.
MCMatches ==
    {<<"p1", "key">>, <<"p2", "db">>, <<"p3", "key">>, <<"p3", "down">>,
     <<"long", "">>}

Symmetry == Permutations(Workers) \cup Permutations(Events)

=============================================================================
