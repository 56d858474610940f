--------------------------- MODULE MCConfigStore ---------------------------
(* Small instances of ConfigStore. *)
EXTENDS ConfigStore, TLC

CONSTANTS a, one    \* rule ids; "one" reads as the number 1

NumeralOf == (a :> 0) @@ (one :> 1)

RuleOf(id) == [id |-> id, enabled |-> TRUE, severity |-> "block", priority |-> 1,
               complete |-> TRUE]

(* Two rules that load, and one for each way not to. *)
Addable ==
    {RuleOf(a), RuleOf(one), RuleOf(NoId),
     [RuleOf(a) EXCEPT !.severity = "other"], [RuleOf(one) EXCEPT !.complete = FALSE]}

Shipped == {RuleOf(a), [RuleOf(one) EXCEPT !.severity = "warn"]}

(* With a toggle, both severities with both flags. *)
TwoBehaviors ==
    {[enabled |-> TRUE, severity |-> "block", priority |-> 1],
     [enabled |-> FALSE, severity |-> "warn", priority |-> 1]}

(* No file, a file without rules, one with two, and one that does not load. *)
Initial ==
    {Absent, Text(<<>>), Text(<<RuleOf(a), RuleOf(one)>>),
     Text(<<RuleOf(a), RuleOf(a)>>)}

=============================================================================
