----------------------------- MODULE HookRules -----------------------------
(***************************************************************************)
(* The vocabulary of rule enforcement: what a rule is, which rules apply   *)
(* to a hook event, and how each event handler reacts to what one rule's   *)
(* check returned.  A pattern list is abstracted to the set of tool names  *)
(* it matches, a message to the rule it comes from, an additional context  *)
(* to whether there is one.                                                *)
(***************************************************************************)
EXTENDS Integers

CONSTANTS
    Rules,      \* rule identifiers of the merged policy
    Tools,      \* tool names a platform may put in tool_name
    AnyTool,    \* stands for an empty tool_match list
    NoTool,     \* stands for an empty tool_name
    NoRule      \* "no rule": the reason of an output that no rule caused

ASSUME RulesAssumption == NoRule \notin Rules
ASSUME ToolsAssumption == NoTool \notin Tools

(* The events the engine registers a handler for, and one it does not.     *)
HandledEvents ==
    {"SessionStart", "UserPromptSubmit", "PreToolUse", "PostToolUse", "Stop"}
Events == HandledEvents \cup {"Notification"}

(* Events at which the platform can still be stopped by the hook's answer. *)
BlockableEvents == HandledEvents \ {"PostToolUse"}

Severities == {"block", "warn", "audit"}

(* "cel" stands for every check that neither runs a process nor looks at   *)
(* the context's deadline: cel, cmd_validate, dir_acl, secret_regex,       *)
(* prompt_modify and skill_inject.                                         *)
Builtins == {"cel", "cmd_check", "linter", "secret_yelp", "repo_access"}
CheckTypes == Builtins \cup {"unregistered"}

RuleRecord ==
    [enabled    : BOOLEAN,
     hookEvents : SUBSET Events,
     toolMatch  : (SUBSET Tools) \cup {AnyTool},
     severity   : Severities,
     priority   : Int,
     remote     : BOOLEAN,
     check      : CheckTypes]

(* A platform names a tool only in the events around a tool call. *)
HookInput ==
    {i \in [event : Events, tool : Tools \cup {NoTool}] :
        i.tool # NoTool => i.event \in {"PreToolUse", "PostToolUse"}}

NoInput == [event |-> "none", tool |-> NoTool]

(* What one iteration of a handler's loop can learn about a rule: one of   *)
(* the two verdicts of a check, or the call that returned an error.        *)
Errors == {"getError", "initError", "execError"}
Statuses == {"pass", "fail"} \cup Errors
Violations == Statuses \ {"pass"}

-----------------------------------------------------------------------------
(* hook.FilterRules *)

MatchesEvent(rule, event) == event \in rule.hookEvents

(* An event that carries no tool name is not filtered by tool. *)
MatchesTool(rule, tool) ==
    \/ rule.toolMatch = AnyTool
    \/ tool = NoTool
    \/ tool \in rule.toolMatch

FilterRules(policy, input) ==
    {r \in Rules : /\ policy[r].enabled
                   /\ MatchesEvent(policy[r], input.event)
                   /\ MatchesTool(policy[r], input.tool)}

(* Mutant: no sort. *)
Unsorted(policy, S) == S

(* FilterRules sorts its result with sort.Slice, which leaves rules of the *)
(* same priority in no particular order: the next rule to run is any of    *)
(* the most urgent ones left.                                              *)
MostUrgent(policy, S) ==
    {r \in S : \A s \in S : policy[r].priority <= policy[s].priority}

-----------------------------------------------------------------------------
(* The handlers: what one rule's check result does to the answer.          *)
(*   block    the handler returns at once with the blocking output         *)
(*   message  the rule's message is appended to the systemMessage parts    *)
(*   context  the check's additional context is appended                   *)

(* Mutants: an error of Get, Init or Execute is skipped like that of any   *)
(* other rule; a warn rule blocks too.                                     *)
BlocksOnFail(rule, status) == rule.severity = "block" /\ status = "fail"
BlocksOnWarn(rule, status) == rule.severity # "audit" /\ status \in Violations

Blocks(rule, status) == rule.severity = "block" /\ status \in Violations

(* Mutant: an audit rule's failure is shown. *)
PreToolUseAudit(rule, status, hasContext) ==
    [block   |-> Blocks(rule, status),
     message |-> rule.severity # "block" /\ status = "fail",
     context |-> FALSE]

PreToolUse(rule, status, hasContext) ==
    [block   |-> Blocks(rule, status),
     message |-> rule.severity = "warn" /\ status = "fail",
     context |-> FALSE]

PostToolUse(rule, status, hasContext) ==
    [block   |-> FALSE,
     message |-> status = "fail" \/ (status \in Errors /\ rule.severity = "block"),
     context |-> hasContext /\ status \notin Errors]

SessionStart(rule, status, hasContext) ==
    [block   |-> Blocks(rule, status),
     message |-> FALSE,
     context |-> hasContext /\ status \notin Errors]

UserPrompt(rule, status, hasContext) ==
    [block   |-> Blocks(rule, status),
     message |-> FALSE,
     context |-> hasContext /\ status \notin Errors]

Stop(rule, status, hasContext) ==
    [block   |-> Blocks(rule, status),
     message |-> FALSE,
     context |-> FALSE]

(* The engine's table of handlers. *)
Handle(event, rule, status, hasContext) ==
    CASE event = "PreToolUse"       -> PreToolUse(rule, status, hasContext)
      [] event = "PostToolUse"      -> PostToolUse(rule, status, hasContext)
      [] event = "SessionStart"     -> SessionStart(rule, status, hasContext)
      [] event = "UserPromptSubmit" -> UserPrompt(rule, status, hasContext)
      [] event = "Stop"             -> Stop(rule, status, hasContext)
=============================================================================
