------------------------------- MODULE MCIntake -------------------------------
(* An instance of Intake for TLC.                                          *)
EXTENDS Intake, TLC

In(src, delivery, body, stamp, length) ==
    [src |-> src, delivery |-> delivery, body |-> body, stamp |-> stamp,
     length |-> length]

\* Two deliveries of the HMAC source with one body (of undeclared length),
\* another body under the first delivery id, and the token source.
MCInputs ==
    {In("hmac", "d1", "b1", 1, 1), In("hmac", "d1", "b2", 1, 0),
     In("hmac", "d2", "b2", 1, 0), In("token", "d1", "b1", Null, 2)}

RequestSymmetry == Permutations(Requests)

=============================================================================
