----------------------------- MODULE HookEngine -----------------------------
(***************************************************************************)
(* One invocation of the hook handler, from reading the event to the exit  *)
(* code: cmd/constitution/main.go runHookHandler, Engine.Evaluate and the  *)
(* loop that the five handlers of internal/handler share.  The policy is   *)
(* the merged one; a rule is run as one step, whose outcome is any that    *)
(* its check can produce.                                                  *)
(*                                                                         *)
(* Time passes only in checks that run a process.  All of them share the   *)
(* context Evaluate creates, which expires at Deadline; a command or a     *)
(* linter also has a timeout of its own.  When a context expires the       *)
(* process is killed, but CombinedOutput returns only once every           *)
(* descendant has closed its output, which may be later; what it returns   *)
(* then is how the process itself ended, which may have been in time.      *)
(***************************************************************************)
EXTENDS HookRules, Sequences

CONSTANTS
    Policies,       \* the merged policies: a rule for each identifier
    Deadline,       \* the engine's 30 s
    CheckTimeout,   \* a process check's own timeout
    MaxDuration     \* bound: the longest a process keeps its output open

ASSUME PoliciesAssumption == Policies \subseteq [Rules -> RuleRecord]
ASSUME DeadlineAssumption == Deadline \in Nat \ {0}
ASSUME CheckTimeoutAssumption == CheckTimeout \in Nat
ASSUME MaxDurationAssumption == MaxDuration \in Nat /\ MaxDuration >= Deadline

VARIABLES
    pc,         \* where runHookHandler is
    policy,     \* the merged policy
    input,      \* the event read from stdin
    pending,    \* the matched rules the handler has not come to
    clock,      \* time since Evaluate created the context
    messages,   \* the warnings, or messages, the handler has collected
    contexts,   \* the contextParts the handler has collected
    output,     \* the HookOutput the handler returned
    exitCode,   \* the process's exit code
    stdout,     \* the HookOutput that reached the platform
    result      \* history: what each rule's check returned

vars == <<pc, policy, input, pending, clock, messages, contexts, output,
          exitCode, stdout, result>>

(* Messages and contexts are sequences of the rules they come from.  A nil *)
(* output is the one in which every field is absent.                       *)
HookOutput ==
    [continue : BOOLEAN, permission : {"", "deny"}, decision : {"", "block"},
     reason : Rules \cup {NoRule},
     systemMessage : Seq(Rules), additionalContext : Seq(Rules)]

NoOutput ==
    [continue |-> TRUE, permission |-> "", decision |-> "", reason |-> NoRule,
     systemMessage |-> <<>>, additionalContext |-> <<>>]

(* The answer a handler makes of what it collected; nil if that is nothing. *)
PartsOutput(msgs, ctxs) ==
    [NoOutput EXCEPT !.systemMessage = msgs, !.additionalContext = ctxs]

DenyOutput(r)      == [NoOutput EXCEPT !.permission = "deny", !.reason = r]
StopBlockOutput(r) == [NoOutput EXCEPT !.decision = "block", !.reason = r]
HaltOutput(r)      == [NoOutput EXCEPT !.continue = FALSE, !.reason = r]

(* The output and exit code with which a handler blocks. *)
BlockOutput(event, r) ==
    CASE event = "PreToolUse" -> DenyOutput(r)
      [] event = "Stop"       -> StopBlockOutput(r)
      [] OTHER                -> HaltOutput(r)

(* Mutant: the exit code of an uncaught error. *)
BlockExitOne(event) == IF event \in {"SessionStart", "UserPromptSubmit"} THEN 1 ELSE 0

BlockExit(event) == IF event \in {"SessionStart", "UserPromptSubmit"} THEN 2 ELSE 0

TypeOK ==
    /\ pc \in {"read", "load", "loop", "done"}
    /\ policy \in Policies
    /\ input \in HookInput \cup {NoInput}
    /\ pending \in SUBSET Rules
    /\ clock \in Nat
    /\ messages \in Seq(Rules)
    /\ contexts \in Seq(Rules)
    /\ output \in HookOutput
    /\ exitCode \in {0, 2}
    /\ stdout \in HookOutput
    /\ result \in [Rules -> Statuses \cup {"notRun"}]

Init ==
    /\ pc = "read"
    /\ policy \in Policies
    /\ input = NoInput
    /\ pending = {}
    /\ clock = 0
    /\ messages = <<>>
    /\ contexts = <<>>
    /\ output = NoOutput
    /\ exitCode = 0
    /\ stdout = NoOutput
    /\ result = [r \in Rules |-> "notRun"]

-----------------------------------------------------------------------------

(* Write the output and exit.  A write that fails is logged and changes    *)
(* nothing of the exit code.                                               *)
Exit(out, code) ==
    /\ pc' = "done"
    /\ output' = out
    /\ exitCode' = code
    /\ stdout' \in {out, NoOutput}

Stay == UNCHANGED <<pc, output, exitCode, stdout>>

ReadInput ==
    /\ pc = "read"
    /\ input' \in HookInput
    /\ pc' = "load"
    /\ UNCHANGED <<policy, pending, clock, messages, contexts, output,
                   exitCode, stdout, result>>

(* Malformed JSON on stdin: ExitBlock. *)
ReadInputFails ==
    /\ pc = "read"
    /\ Exit(NoOutput, 2)
    /\ UNCHANGED <<policy, input, pending, clock, messages, contexts, result>>

(* No config file was found, or none of those found could be loaded.       *)
NoConfig ==
    /\ pc = "load"
    /\ Exit(NoOutput, 0)
    /\ UNCHANGED <<policy, input, pending, clock, messages, contexts, result>>

(* Engine.Evaluate up to the call of the handler: without a matching rule  *)
(* or a handler for the event there is nothing to do.                      *)
Evaluate ==
    /\ pc = "load"
    /\ LET matched == FilterRules(policy, input)
       IN \/ /\ matched = {} \/ input.event \notin HandledEvents
             /\ Exit(NoOutput, 0)
             /\ UNCHANGED pending
          \/ /\ matched # {} /\ input.event \in HandledEvents
             /\ pending' = matched
             /\ pc' = "loop"
             /\ UNCHANGED <<output, exitCode, stdout>>
    /\ UNCHANGED <<policy, input, clock, messages, contexts, result>>

-----------------------------------------------------------------------------
(* The handler's loop.  Every action below takes one rule r from pending.  *)

Come(r) ==
    /\ pc = "loop"
    /\ r \in MostUrgent(policy, pending)
    /\ pending' = pending \ {r}
    /\ UNCHANGED <<policy, input>>

(* Mutants: a remote rule ends the loop; it is come to again and again. *)
ReturnAtRemote(r) ==
    /\ Come(r)
    /\ policy[r].remote
    /\ Exit(PartsOutput(messages, contexts), 0)
    /\ UNCHANGED <<clock, messages, contexts, result>>
RepeatRemote(r) ==
    /\ pc = "loop"
    /\ r \in MostUrgent(policy, pending)
    /\ policy[r].remote
    /\ UNCHANGED vars

(* `if rule.Remote { continue }`: nothing runs such a rule. *)
SkipRemote(r) ==
    /\ Come(r)
    /\ policy[r].remote
    /\ Stay
    /\ UNCHANGED <<clock, messages, contexts, result>>

(* Mutant: the newest part comes first. *)
PrependIf(seq, cond, r) == IF cond THEN <<r>> \o seq ELSE seq

AppendIf(seq, cond, r) == IF cond THEN Append(seq, r) ELSE seq

(* The rest of the iteration once the check of r returned, at time t. *)
Return(r, status, hasContext, t) ==
    LET reaction == Handle(input.event, policy[r], status, hasContext)
    IN /\ ~policy[r].remote
       /\ result' = [result EXCEPT ![r] = status]
       /\ clock' = t
       /\ \/ /\ reaction.block
             /\ Exit(BlockOutput(input.event, r), BlockExit(input.event))
             /\ UNCHANGED <<messages, contexts>>
          \/ /\ ~reaction.block
             /\ messages' = AppendIf(messages, reaction.message, r)
             /\ contexts' = AppendIf(contexts, reaction.context, r)
             /\ Stay

GetFails(r) ==
    /\ Come(r)
    /\ policy[r].check = "unregistered"
    /\ Return(r, "getError", FALSE, clock)

(* A required parameter is missing or malformed, or detect-secrets is not  *)
(* installed.                                                              *)
InitFails(r) ==
    /\ Come(r)
    /\ policy[r].check \in Builtins
    /\ Return(r, "initError", FALSE, clock)

(* A check that neither runs a process nor looks at the context. *)
ExecuteInProcess(r) ==
    /\ Come(r)
    /\ policy[r].check = "cel"
    /\ \/ \E hasContext \in BOOLEAN : Return(r, "pass", hasContext, clock)
       \/ Return(r, "fail", FALSE, clock)
       \/ Return(r, "execError", FALSE, clock)

(* The linter passes without running for a file it does not cover, and     *)
(* secret_yelp when there is no content to scan.                           *)
ExecuteNotApplicable(r) ==
    /\ Come(r)
    /\ policy[r].check \in {"linter", "secret_yelp"}
    /\ Return(r, "pass", FALSE, clock)

Earlier(a, b) == IF a < b THEN a ELSE b

(* Mutant: the context is not derived from the engine's. *)
OwnLimit == clock + CheckTimeout

(* When the context of a process started now expires. *)
Limit == Earlier(Deadline, clock + CheckTimeout)

(* cmd_check and linter.  A context that has expired keeps the process     *)
(* from starting, which counts as failed.  Otherwise the last descendant   *)
(* closes the process's output after d, past the limit perhaps; the        *)
(* process itself may have ended in time, with any exit status, or have    *)
(* been killed.  The linter has a file to run on only around a tool call.  *)
ExecuteCommand(r) ==
    /\ Come(r)
    /\ policy[r].check \in {"cmd_check", "linter"}
    /\ policy[r].check = "linter" => input.event \in {"PreToolUse", "PostToolUse"}
    /\ \/ /\ Limit <= clock
          /\ Return(r, "fail", policy[r].check = "linter", clock)
       \/ /\ Limit > clock
          /\ \E d \in 0..MaxDuration, status \in {"pass", "fail"}, out \in BOOLEAN :
                Return(r, status,
                       out \/ (policy[r].check = "linter" /\ status = "fail"),
                       clock + d)

(* secret_yelp scans line by line up to the first finding, and takes a     *)
(* line it cannot scan, for want of time too, as clean.  detect-secrets    *)
(* starts no descendant that outlives it, so each line ends with its       *)
(* context.                                                                *)
ExecuteScan(r) ==
    /\ Come(r)
    /\ policy[r].check = "secret_yelp"
    /\ \/ Return(r, "pass", FALSE, clock)
       \/ \E t \in clock..Deadline, status \in {"pass", "fail"} :
             /\ t = Deadline => status = "pass"
             /\ Return(r, status, FALSE, t)

(* repo_access compares the name of the directory, at once, or asks git    *)
(* for the remote, and passes when git does not answer before the          *)
(* deadline.                                                               *)
ExecuteGit(r) ==
    /\ Come(r)
    /\ policy[r].check = "repo_access"
    /\ \/ \E status \in {"pass", "fail"} : Return(r, status, FALSE, clock)
       \/ \E t \in clock..Deadline, status \in {"pass", "fail"} :
             /\ t = Deadline => status = "pass"
             /\ Return(r, status, FALSE, t)

Finish ==
    /\ pc = "loop"
    /\ pending = {}
    /\ Exit(PartsOutput(messages, contexts), 0)
    /\ UNCHANGED <<policy, input, pending, clock, messages, contexts, result>>

RunRule(r) ==
    \/ SkipRemote(r)
    \/ GetFails(r)
    \/ InitFails(r)
    \/ ExecuteInProcess(r)
    \/ ExecuteNotApplicable(r)
    \/ ExecuteCommand(r)
    \/ ExecuteScan(r)
    \/ ExecuteGit(r)

Next ==
    \/ ReadInput
    \/ ReadInputFails
    \/ NoConfig
    \/ Evaluate
    \/ \E r \in Rules : RunRule(r)
    \/ Finish

(* The handler is one goroutine that nothing else waits for: it goes on as *)
(* long as each check returns.                                             *)
Spec == Init /\ [][Next]_vars /\ WF_vars(Next)
-----------------------------------------------------------------------------
(* Properties *)

(* How the platform reads an answer: it stops the action on exit code 2,   *)
(* on a deny for a tool call, and on a block decision for a stop.          *)
Stops(out, code) == code = 2 \/ out.permission = "deny" \/ out.decision = "block"

(* The handler's answer is to stop; the platform got an answer to stop. *)
Refused == Stops(output, exitCode)
Stopped == Stops(stdout, exitCode)

Blocker(r) == policy[r].severity = "block" /\ result[r] \in Violations

(* Fail closed: at an event the platform can still stop, a block rule      *)
(* whose check failed, or could not be created, initialised or executed,   *)
(* stops the action, in whichever form the event calls for.  Only a tool   *)
(* call or a stop goes on, when the answer cannot be written: at the other *)
(* events the exit code blocks by itself.                                  *)
FailClosed ==
    pc = "done" /\ input.event \in BlockableEvents /\ (\E r \in Rules : Blocker(r))
        => Stopped \/ (stdout # output /\ input.event \in {"PreToolUse", "Stop"})

(* Nothing else stops an action: the answer names a block rule that        *)
(* matches the event, is checked locally and did not pass; the one         *)
(* exception is an input that could not be read.                           *)
NoSpuriousBlock ==
    Stopped => \/ input = NoInput
               \/ /\ input.event \in BlockableEvents
                  /\ \E r \in FilterRules(policy, input) :
                        /\ output.reason = r
                        /\ ~policy[r].remote
                        /\ Blocker(r)

(* Rules run in order of priority: a rule is checked only after every      *)
(* more urgent rule that matches the event and is not remote.              *)
UrgentFirst ==
    \A r \in Rules, s \in FilterRules(policy, input) :
        result[r] # "notRun" /\ ~policy[s].remote
            /\ policy[s].priority < policy[r].priority
        => result[s] # "notRun"

(* The parts of the answer are in order of priority and name each rule at  *)
(* most once.                                                              *)
InUrgencyOrder(parts) ==
    \A i, j \in DOMAIN parts :
        i < j => /\ parts[i] # parts[j]
                 /\ policy[parts[i]].priority <= policy[parts[j]].priority
ReportInOrder ==
    InUrgencyOrder(output.systemMessage) /\ InUrgencyOrder(output.additionalContext)

(* A handler that does not stop the action has checked every rule that     *)
(* matches the event and is not remote: no error of one rule ends the      *)
(* loop before the others ran.                                             *)
EveryRuleChecked ==
    [][pc = "loop" /\ pc' = "done" =>
          \/ Refused'
          \/ \A r \in FilterRules(policy, input) :
                policy[r].remote \/ result'[r] # "notRun"]_vars

(* Once earlier checks have used up the engine's deadline, what comes      *)
(* after it is decided unseen, each check in its own way: a cmd_check's    *)
(* command is not started and that is no pass, while a secret_yelp finds   *)
(* nothing any more.  A command already under way may still pass.          *)
LateChecks ==
    [][clock >= Deadline =>
          \A r \in Rules :
             result'[r] # result[r] =>
                /\ policy[r].check = "cmd_check"   => result'[r] # "pass"
                /\ policy[r].check = "secret_yelp" => result'[r] # "fail"]_vars

(* Every invocation ends with an answer. *)
Terminates == <>(pc = "done")

-----------------------------------------------------------------------------
(* Refinement: the answer is a decision of HookDecision, and what the      *)
(* checks returned is the evidence for it.                                 *)

PartsOf(seq) == {seq[i] : i \in DOMAIN seq}

DecisionOfAnswer ==
    [state |-> IF pc # "done" THEN "open" ELSE IF Refused THEN "blocked" ELSE "allowed",
     on    |-> IF pc # "done" THEN NoInput ELSE input,
     by    |-> output.reason,
     told  |-> PartsOf(output.systemMessage)]

EvidenceOfAnswer == IF pc = "done" THEN result ELSE [r \in Rules |-> "notRun"]

Decision == INSTANCE HookDecision
            WITH decision <- DecisionOfAnswer, evidence <- EvidenceOfAnswer

(* The engine implements HookDecision: at every event the first block rule *)
(* that does not pass, and only such a rule, decides, on the evidence of   *)
(* every more urgent rule; otherwise the user is told of exactly the       *)
(* failures the handler reports.                                           *)
ImplementsDecision == Decision!Spec

-----------------------------------------------------------------------------
(* What the documentation says of rules. *)

(* README.md: a rule with `remote: true` is delegated to the remote        *)
(* service, so an action that is not stopped has had every matching rule   *)
(* checked, the remote ones included.                                      *)
RemoteRulesChecked ==
    [][pc = "loop" /\ pc' = "done" =>
          Refused' \/ \A r \in FilterRules(policy, input) : result'[r] # "notRun"]_vars

(* README.md: a warn rule allows the action but adds a warning to          *)
(* systemMessage.                                                          *)
WarningsShown ==
    pc = "done" /\ ~Refused =>
        \A r \in Rules : policy[r].severity = "warn" /\ result[r] = "fail"
                            => r \in PartsOf(output.systemMessage)
=============================================================================
