------------------------------ MODULE MCRemote ------------------------------
(* An instance of Remote for TLC. *)
EXTENDS Remote, TLC

CONSTANTS a, b

R(id, check) == [id |-> id, enabled |-> TRUE, check |-> check]

(* A policy, what an update makes of it, and one of two slow checks. *)
MCPolicies ==
    {<<R(a, "cel"), R(b, "command")>>,
     <<[R(b, "cel") EXCEPT !.enabled = FALSE], R(a, "cel")>>,
     <<R(b, "scan"), R(a, "command")>>}
=============================================================================
