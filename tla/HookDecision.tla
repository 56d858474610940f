---------------------------- MODULE HookDecision ----------------------------
(***************************************************************************)
(* What one invocation of the hook promises the platform, in one step: a   *)
(* decision together with the evidence it rests on, that is, what the      *)
(* checks of the rules returned.  HookEngine is shown to implement it.     *)
(***************************************************************************)
EXTENDS HookRules

CONSTANT Policies       \* the merged policies: a rule for each identifier

VARIABLES
    policy,     \* one of Policies
    decision,   \* the answer, "open" until it is given, and the input it is about
    evidence    \* what each rule's check returned, "notRun" if nothing

vars == <<policy, decision, evidence>>

Open == [state |-> "open", on |-> NoInput, by |-> NoRule, told |-> {}]

Evidence == [Rules -> Statuses \cup {"notRun"}]

Init ==
    /\ policy \in Policies
    /\ decision = Open
    /\ evidence = [r \in Rules |-> "notRun"]

(* The rules that speak about an input and are checked on this machine.    *)
Enforced(input) == {r \in FilterRules(policy, input) : ~policy[r].remote}

Prohibits(e, r) == policy[r].severity = "block" /\ e[r] \in Violations

(* The rules whose failure the user is told about when nothing blocks.     *)
Told(input, e) ==
    {r \in Enforced(input) :
        \/ input.event = "PreToolUse" /\ policy[r].severity = "warn" /\ e[r] = "fail"
        \/ input.event = "PostToolUse" /\ (e[r] = "fail" \/ Prohibits(e, r))}

(* r is the only rule seen to prohibit the action, and every more urgent   *)
(* rule was checked first.                                                 *)
Block(input, e, r) ==
    /\ input.event \in BlockableEvents
    /\ r \in Enforced(input) /\ Prohibits(e, r)
    /\ \A s \in Enforced(input) \ {r} :
          /\ ~Prohibits(e, s)
          /\ policy[s].priority < policy[r].priority => e[s] # "notRun"
    /\ decision' = [state |-> "blocked", on |-> input, by |-> r, told |-> {}]

(* Every rule was checked and none prohibits the action. *)
Allow(input, e) ==
    /\ input.event \in HandledEvents
    /\ \A r \in Enforced(input) :
          /\ e[r] # "notRun"
          /\ input.event \in BlockableEvents => ~Prohibits(e, r)
    /\ decision' = [state |-> "allowed", on |-> input, by |-> NoRule,
                     told |-> Told(input, e)]

Decide ==
    /\ decision = Open
    /\ evidence' \in Evidence
    /\ \E input \in HookInput :
          \/ \E r \in Rules : Block(input, evidence', r)
          \/ Allow(input, evidence')
    /\ UNCHANGED policy

(* No policy could be loaded, or no handler exists: the action proceeds.   *)
Abstain ==
    /\ decision = Open
    /\ \E input \in HookInput :
          decision' = [state |-> "allowed", on |-> input, by |-> NoRule, told |-> {}]
    /\ UNCHANGED <<policy, evidence>>

(* The input could not be read: the action does not proceed. *)
Refuse ==
    /\ decision = Open
    /\ decision' = [Open EXCEPT !.state = "blocked"]
    /\ UNCHANGED <<policy, evidence>>

Next == Decide \/ Abstain \/ Refuse

Spec == Init /\ [][Next]_vars
=============================================================================
