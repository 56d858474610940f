---------------------------- MODULE MCHookEngine ----------------------------
(* Instances of HookEngine for TLC. *)
EXTENDS HookEngine, TLC

Common ==
    [enabled |-> TRUE, hookEvents |-> Events, toolMatch |-> AnyTool,
     severity |-> "block", priority |-> 1, remote |-> FALSE, check |-> "cel"]

(* Rules that differ in what the filter looks at. *)
Filtered ==
    {[Common EXCEPT !.enabled = FALSE],
     [Common EXCEPT !.hookEvents = {"PreToolUse"}],
     [Common EXCEPT !.toolMatch = {}],
     [Common EXCEPT !.remote = TRUE]}

(* Every severity, priority and check type. *)
WideSpace ==
    Filtered \cup
    {[Common EXCEPT !.severity = s, !.priority = p, !.check = c] :
        s \in Severities, p \in {1, 2}, c \in CheckTypes}

(* A few rules of which three make an interesting policy. *)
NarrowSpace ==
    {Common,
     [Common EXCEPT !.severity = "warn"],
     [Common EXCEPT !.priority = 2, !.check = "cmd_check"],
     [Common EXCEPT !.priority = 2, !.remote = TRUE],
     [Common EXCEPT !.priority = 2, !.severity = "audit", !.check = "linter"]}

NarrowPolicies == [Rules -> NarrowSpace]

(* One identifier keeps a disabled rule, the others have any two of all;   *)
(* which of the two is the less urgent one makes no difference.            *)
Spare == CHOOSE r \in Rules : TRUE
Urgent == CHOOSE r \in Rules \ {Spare} : TRUE
WidePolicies ==
    {p @@ (Spare :> [Common EXCEPT !.enabled = FALSE]) :
        p \in {q \in [Rules \ {Spare} -> WideSpace] : q[Urgent].priority = 1}}

MCPolicies == NarrowPolicies \cup WidePolicies
=============================================================================
