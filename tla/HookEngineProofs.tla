-------------------------- MODULE HookEngineProofs --------------------------
(***************************************************************************)
(* Proofs about HookEngine for any set of rules, any policy over any rule  *)
(* space, any deadline and any timeout.                                    *)
(***************************************************************************)
EXTENDS HookEngine, TLAPS

Matched == FilterRules(policy, input)
Ran(r) == result[r] # "notRun"

-----------------------------------------------------------------------------
(* The inductive invariant. *)

(* Nothing has happened yet that the answer could depend on. *)
Quiet ==
    /\ \A r \in Rules : ~Ran(r)
    /\ output = NoOutput
    /\ messages = <<>>
    /\ contexts = <<>>

BeforeLoop ==
    /\ pc = "read" => Quiet /\ exitCode = 0 /\ input = NoInput
    /\ pc = "load" => Quiet /\ exitCode = 0 /\ input \in HookInput

(* The rules that have left pending are those that ran or were skipped as  *)
(* remote, and none of them is less urgent than one still pending.         *)
Visited ==
    /\ input \in HookInput /\ input.event \in HandledEvents
    /\ pending \subseteq Matched
    /\ \A r \in Rules : Ran(r) <=> r \in Matched \ pending /\ ~policy[r].remote
    /\ \A r \in pending, s \in Matched \ pending :
          policy[s].priority <= policy[r].priority

NoBlocker == input.event \in BlockableEvents => \A r \in Rules : ~Blocker(r)

(* The failures a handler tells the user about. *)
Reported(r) ==
    \/ input.event = "PreToolUse" /\ policy[r].severity = "warn" /\ result[r] = "fail"
    \/ input.event = "PostToolUse" /\ (result[r] = "fail" \/ Blocker(r))

MessagesExact == PartsOf(messages) = {r \in Rules : Reported(r)}

Ordered(parts) == PartsOf(parts) \subseteq {r \in Rules : Ran(r)} /\ InUrgencyOrder(parts)

InLoop ==
    pc = "loop" =>
        /\ Visited /\ NoBlocker /\ MessagesExact
        /\ Ordered(messages) /\ Ordered(contexts)
        /\ output = NoOutput /\ exitCode = 0

(* The three ways to be done: without running a rule, ... *)
Abstained ==
    /\ Quiet
    /\ \/ input = NoInput /\ exitCode = 2
       \/ input \in HookInput /\ exitCode = 0

(* ... after all of them, ... *)
Allowed ==
    /\ pending = {} /\ Visited /\ NoBlocker /\ MessagesExact
    /\ Ordered(messages) /\ Ordered(contexts)
    /\ output = PartsOutput(messages, contexts) /\ exitCode = 0

(* ... or at the first block rule that did not pass. *)
BlockedBy(r) ==
    /\ Visited
    /\ input.event \in BlockableEvents
    /\ ~policy[r].remote /\ Blocker(r)
    /\ \A s \in Rules \ {r} : ~Blocker(s)
    /\ \A s \in pending : policy[r].priority <= policy[s].priority
    /\ output = BlockOutput(input.event, r)
    /\ exitCode = BlockExit(input.event)

AfterLoop == pc = "done" => Abstained \/ Allowed \/ \E r \in Matched : BlockedBy(r)

(* What reached the platform is the handler's answer, or nothing. *)
Written == stdout \in {output, NoOutput}

IInv == TypeOK /\ Written /\ BeforeLoop /\ InLoop /\ AfterLoop

-----------------------------------------------------------------------------
(* What a handler's reaction to one rule is, whatever the event: it blocks *)
(* exactly on a block rule that did not pass, except after the tool has    *)
(* run, and reports what Reported says.                                    *)
LEMMA HandleFacts ==
    ASSUME NEW event \in HandledEvents, NEW rule, NEW status \in Statuses,
           NEW hasContext \in BOOLEAN
    PROVE  LET h == Handle(event, rule, status, hasContext)
           IN /\ h.block \in BOOLEAN /\ h.message \in BOOLEAN /\ h.context \in BOOLEAN
              /\ h.block <=> /\ event \in BlockableEvents
                             /\ rule.severity = "block" /\ status \in Violations
              /\ h.message <=>
                    \/ event = "PreToolUse" /\ rule.severity = "warn" /\ status = "fail"
                    \/ /\ event = "PostToolUse"
                       /\ \/ status = "fail"
                          \/ rule.severity = "block" /\ status \in Violations
  <1>1. CASE event = "PreToolUse"
    BY <1>1 DEF Handle, PreToolUse, Blocks, BlockableEvents, HandledEvents
  <1>2. CASE event = "PostToolUse"
    BY <1>2 DEF Handle, PostToolUse, BlockableEvents, HandledEvents, Statuses,
                Violations, Errors
  <1>3. CASE event = "SessionStart"
    BY <1>3 DEF Handle, SessionStart, Blocks, BlockableEvents, HandledEvents
  <1>4. CASE event = "UserPromptSubmit"
    BY <1>4 DEF Handle, UserPrompt, Blocks, BlockableEvents, HandledEvents
  <1>5. CASE event = "Stop"
    BY <1>5 DEF Handle, Stop, Blocks, BlockableEvents, HandledEvents
  <1> QED  BY <1>1, <1>2, <1>3, <1>4, <1>5 DEF HandledEvents

(* Whatever a rule's check does, the handler either skips the rule or      *)
(* returns from the check with some status, no earlier than it began.      *)
LEMMA RunRuleCases ==
    ASSUME TypeOK, NEW r \in Rules, RunRule(r)
    PROVE  /\ Come(r)
           /\ \/ SkipRemote(r)
              \/ \E status \in Statuses, hasContext \in BOOLEAN, t \in Nat :
                    t >= clock /\ Return(r, status, hasContext, t)
  <1>a. clock \in Nat
    BY DEF TypeOK
  <1>b. /\ "pass" \in Statuses /\ "fail" \in Statuses /\ "getError" \in Statuses
        /\ "initError" \in Statuses /\ "execError" \in Statuses
    BY DEF Statuses, Errors
  <1>c. TRUE \in BOOLEAN /\ FALSE \in BOOLEAN
    OBVIOUS
  <1>0. clock \in Nat /\ clock >= clock
    BY <1>a
  <1>1. CASE SkipRemote(r)
    BY <1>1, Zenon DEF SkipRemote
  <1>2. CASE GetFails(r)
    <2>1. Come(r) /\ Return(r, "getError", FALSE, clock)
      BY <1>2 DEF GetFails
    <2> QED  BY <1>0, <1>b, <1>c, <2>1, Zenon
  <1>3. CASE InitFails(r)
    <2>1. Come(r) /\ Return(r, "initError", FALSE, clock)
      BY <1>3 DEF InitFails
    <2> QED  BY <1>0, <1>b, <1>c, <2>1, Zenon
  <1>4. CASE ExecuteInProcess(r)
    <2>1. /\ Come(r)
          /\ \/ \E hasContext \in BOOLEAN : Return(r, "pass", hasContext, clock)
             \/ Return(r, "fail", FALSE, clock)
             \/ Return(r, "execError", FALSE, clock)
      BY <1>4, Zenon DEF ExecuteInProcess
    <2> QED  BY <1>0, <1>b, <1>c, <2>1, Zenon
  <1>5. CASE ExecuteNotApplicable(r)
    <2>1. Come(r) /\ Return(r, "pass", FALSE, clock)
      BY <1>5 DEF ExecuteNotApplicable
    <2> QED  BY <1>0, <1>b, <1>c, <2>1, Zenon
  <1>6. CASE ExecuteCommand(r)
    <2> DEFINE linter == policy[r].check = "linter"
    <2>1. /\ Come(r)
          /\ \/ Return(r, "fail", linter, clock)
             \/ \E d \in 0..MaxDuration, status \in {"pass", "fail"}, out \in BOOLEAN :
                   Return(r, status, out \/ (linter /\ status = "fail"), clock + d)
      BY <1>6, Zenon DEF ExecuteCommand
    <2>2. CASE Return(r, "fail", linter, clock)
      <3>1. linter \in BOOLEAN
        OBVIOUS
      <3> QED  BY <1>0, <1>b, <1>c, <2>1, <2>2, <3>1, Zenon
    <2>3. ASSUME NEW d \in 0..MaxDuration, NEW status \in {"pass", "fail"},
                 NEW out \in BOOLEAN,
                 Return(r, status, out \/ (linter /\ status = "fail"), clock + d)
          PROVE  \E st \in Statuses, hasContext \in BOOLEAN, t \in Nat :
                    t >= clock /\ Return(r, st, hasContext, t)
      <3>1. clock + d \in Nat /\ clock + d >= clock
        BY <1>0, <1>b, <1>c, MaxDurationAssumption
      <3>2. (out \/ (linter /\ status = "fail")) \in BOOLEAN
        OBVIOUS
      <3>3. status \in Statuses
        BY <1>b
      <3> QED  BY <2>3, <3>1, <3>2, <3>3, Zenon
    <2> QED  BY <2>1, <2>2, <2>3, Zenon
  <1>7. CASE ExecuteScan(r)
    <2>1. /\ Come(r)
          /\ \/ Return(r, "pass", FALSE, clock)
             \/ \E t \in clock..Deadline, status \in {"pass", "fail"} :
                   Return(r, status, FALSE, t)
      BY <1>7, Zenon DEF ExecuteScan
    <2>2. ASSUME NEW t \in clock..Deadline, NEW status \in {"pass", "fail"},
                 Return(r, status, FALSE, t)
          PROVE  \E st \in Statuses, hasContext \in BOOLEAN, u \in Nat :
                    u >= clock /\ Return(r, st, hasContext, u)
      <3>1. t \in Nat /\ t >= clock
        BY <1>0, <1>b, <1>c, DeadlineAssumption
      <3>2. status \in Statuses
        BY <1>b
      <3> QED  BY <1>0, <1>b, <1>c, <2>2, <3>1, <3>2, Zenon
    <2> QED  BY <1>0, <1>b, <1>c, <2>1, <2>2, Zenon
  <1>8. CASE ExecuteGit(r)
    <2>1. /\ Come(r)
          /\ \/ \E status \in {"pass", "fail"} : Return(r, status, FALSE, clock)
             \/ \E t \in clock..Deadline, status \in {"pass", "fail"} :
                   Return(r, status, FALSE, t)
      BY <1>8, Zenon DEF ExecuteGit
    <2>2. ASSUME NEW t \in clock..Deadline, NEW status \in {"pass", "fail"},
                 Return(r, status, FALSE, t)
          PROVE  \E st \in Statuses, hasContext \in BOOLEAN, u \in Nat :
                    u >= clock /\ Return(r, st, hasContext, u)
      <3>1. t \in Nat /\ t >= clock
        BY <1>a, DeadlineAssumption
      <3>2. status \in Statuses
        BY <1>b
      <3> QED  BY <1>c, <2>2, <3>1, <3>2, Zenon
    <2>3. \A status \in {"pass", "fail"} : status \in Statuses
      BY <1>b
    <2> QED  BY <1>0, <1>c, <2>1, <2>2, <2>3, Zenon
  <1> QED  BY <1>1, <1>2, <1>3, <1>4, <1>5, <1>6, <1>7, <1>8, Zenon DEF RunRule

-----------------------------------------------------------------------------
(* Type correctness. *)

(* What a handler or runHookHandler can answer is well formed. *)
LEMMA OutputType ==
    /\ NoOutput \in HookOutput
    /\ \A event : \A r \in Rules : BlockOutput(event, r) \in HookOutput
    /\ \A event : BlockExit(event) \in {0, 2}
    /\ \A m, c \in Seq(Rules) : PartsOutput(m, c) \in HookOutput
  <1>1. <<>> \in Seq(Rules)
    OBVIOUS
  <1> QED  BY <1>1 DEF HookOutput, PartsOutput, BlockOutput, BlockExit, DenyOutput,
                       StopBlockOutput, HaltOutput, NoOutput

LEMMA InitType == Init => TypeOK
  <1> SUFFICES ASSUME Init PROVE TypeOK
    OBVIOUS
  <1>1. <<>> \in Seq(Rules)
    OBVIOUS
  <1> QED  BY <1>1, OutputType DEF Init, TypeOK

LEMMA ReturnType ==
    ASSUME TypeOK, NEW r \in Rules, Come(r), NEW status \in Statuses,
           NEW hasContext \in BOOLEAN, NEW t \in Nat,
           Return(r, status, hasContext, t)
    PROVE  TypeOK'
  <1> DEFINE reaction == Handle(input.event, policy[r], status, hasContext)
  <1>1. /\ pc = "loop" /\ policy' = policy /\ input' = input
        /\ pending' = pending \ {r} /\ clock' = t
        /\ result' = [result EXCEPT ![r] = status]
    BY DEF Come, Return
  <1>2. result' \in [Rules -> Statuses \cup {"notRun"}]
    BY <1>1 DEF TypeOK
  <1>3. CASE /\ Exit(BlockOutput(input.event, r), BlockExit(input.event))
             /\ UNCHANGED <<messages, contexts>>
    BY <1>1, <1>2, <1>3, OutputType DEF TypeOK, Exit
  <1>4. CASE /\ messages' = AppendIf(messages, reaction.message, r)
             /\ contexts' = AppendIf(contexts, reaction.context, r)
             /\ Stay
    <2>1. messages' \in Seq(Rules) /\ contexts' \in Seq(Rules)
      BY <1>4 DEF TypeOK, AppendIf
    <2> QED  BY <1>1, <1>2, <1>4, <2>1 DEF TypeOK, Stay
  <1> QED  BY <1>3, <1>4 DEF Return

LEMMA NextType == TypeOK /\ [Next]_vars => TypeOK'
  <1> SUFFICES ASSUME TypeOK, [Next]_vars PROVE TypeOK'
    OBVIOUS
  <1>1. CASE ReadInput
    BY <1>1 DEF ReadInput, TypeOK
  <1>2. CASE ReadInputFails
    BY <1>2, OutputType DEF ReadInputFails, Exit, TypeOK
  <1>3. CASE NoConfig
    BY <1>3, OutputType DEF NoConfig, Exit, TypeOK
  <1>4. CASE Evaluate
    <2>1. FilterRules(policy, input) \subseteq Rules
      BY DEF FilterRules
    <2> QED  BY <1>4, <2>1, OutputType DEF Evaluate, Exit, TypeOK
  <1>5. ASSUME NEW r \in Rules, RunRule(r) PROVE TypeOK'
    <2>1. CASE SkipRemote(r)
      BY <2>1 DEF SkipRemote, Come, Stay, TypeOK
    <2>2. CASE \E status \in Statuses, hasContext \in BOOLEAN, t \in Nat :
                  t >= clock /\ Return(r, status, hasContext, t)
      BY <1>5, <2>2, RunRuleCases, ReturnType, Zenon
    <2> QED  BY <1>5, <2>1, <2>2, RunRuleCases, Zenon
  <1>6. CASE Finish
    BY <1>6, OutputType DEF Finish, Exit, TypeOK
  <1>7. CASE UNCHANGED vars
    BY <1>7 DEF vars, TypeOK
  <1> QED  BY <1>1, <1>2, <1>3, <1>4, <1>5, <1>6, <1>7 DEF Next

(* The state of the handler always has its type. *)
THEOREM TypeCorrect == Spec => []TypeOK
  BY InitType, NextType, PTL DEF Spec

-----------------------------------------------------------------------------
(* Sequences of collected parts. *)

(* Appending a rule adds exactly that rule, at the end. *)
LEMMA AppendFacts ==
    ASSUME NEW parts \in Seq(Rules), NEW r \in Rules
    PROVE  /\ PartsOf(Append(parts, r)) = PartsOf(parts) \cup {r}
           /\ DOMAIN Append(parts, r) = 1..(Len(parts) + 1)
           /\ \A i \in 1..Len(parts) : Append(parts, r)[i] = parts[i]
           /\ Append(parts, r)[Len(parts) + 1] = r
  <1>1. /\ DOMAIN Append(parts, r) = 1..(Len(parts) + 1)
        /\ \A i \in 1..Len(parts) : Append(parts, r)[i] = parts[i]
        /\ Append(parts, r)[Len(parts) + 1] = r
        /\ DOMAIN parts = 1..Len(parts) /\ Len(parts) \in Nat
    OBVIOUS
  <1>2. \A i \in 1..(Len(parts) + 1) : i \in 1..Len(parts) \/ i = Len(parts) + 1
    BY <1>1
  <1>3. PartsOf(Append(parts, r)) \subseteq PartsOf(parts) \cup {r}
    BY <1>1, <1>2 DEF PartsOf
  <1>4. PartsOf(parts) \cup {r} \subseteq PartsOf(Append(parts, r))
    <2>1. 1..Len(parts) \subseteq 1..(Len(parts) + 1) /\ Len(parts) + 1 \in 1..(Len(parts) + 1)
      BY <1>1
    <2> QED  BY <1>1, <2>1 DEF PartsOf
  <1> QED  BY <1>1, <1>3, <1>4

(* Appending a rule none of the parts is more urgent than keeps them in    *)
(* order.                                                                  *)
LEMMA AppendInOrder ==
    ASSUME NEW parts \in Seq(Rules), NEW r \in Rules, InUrgencyOrder(parts),
           \A s \in PartsOf(parts) : s # r /\ policy[s].priority <= policy[r].priority
    PROVE  InUrgencyOrder(Append(parts, r))
  <1> DEFINE new == Append(parts, r)
  <1>0. Len(parts) \in Nat /\ DOMAIN parts = 1..Len(parts)
    OBVIOUS
  <1> SUFFICES ASSUME NEW i \in DOMAIN new, NEW j \in DOMAIN new, i < j
               PROVE  /\ new[i] # new[j]
                      /\ policy[new[i]].priority <= policy[new[j]].priority
    BY DEF InUrgencyOrder
  <1>1. i \in 1..Len(parts) /\ (j \in 1..Len(parts) \/ j = Len(parts) + 1)
    BY <1>0, AppendFacts
  <1>2. new[i] = parts[i] /\ parts[i] \in PartsOf(parts)
    BY <1>0, <1>1, AppendFacts DEF PartsOf
  <1>3. CASE j \in 1..Len(parts)
    BY <1>0, <1>1, <1>2, <1>3, AppendFacts DEF InUrgencyOrder
  <1>4. CASE j = Len(parts) + 1
    BY <1>2, <1>4, AppendFacts
  <1> QED  BY <1>1, <1>3, <1>4

-----------------------------------------------------------------------------
(* The loop. *)

(* Every rule of a policy has a priority that can be compared. *)
LEMMA Priorities == TypeOK => \A r \in Rules : policy[r] \in RuleRecord /\ policy[r].priority \in Int
  BY PoliciesAssumption DEF TypeOK, RuleRecord

(* Taking the next rule, and recording what its check returned unless it   *)
(* is remote, keeps the account of the visited rules.                      *)
LEMMA VisitedStep ==
    ASSUME TypeOK, Visited, NEW r \in Rules, Come(r),
           \/ policy[r].remote /\ result' = result
           \/ /\ ~policy[r].remote
              /\ \E status \in Statuses : result' = [result EXCEPT ![r] = status]
    PROVE  /\ Visited'
           /\ \A s \in pending' : policy[r].priority <= policy[s].priority
           /\ r \in Matched /\ ~Ran(r)
           /\ \A s \in Rules : Ran(s) => policy[s].priority <= policy[r].priority
  <1>1. /\ policy' = policy /\ input' = input /\ pending' = pending \ {r}
        /\ r \in pending /\ \A s \in pending : policy[r].priority <= policy[s].priority
    BY DEF Come, MostUrgent
  <1>2. Matched' = Matched /\ Matched \subseteq Rules
    BY <1>1 DEF Matched, FilterRules
  <1>3. "notRun" \notin Statuses
    BY DEF Statuses, Errors
  <1>4. \A s \in Rules : Ran(s)' <=> s \in Matched \ pending' /\ ~policy[s].remote
    <2> SUFFICES ASSUME NEW s \in Rules
                 PROVE  Ran(s)' <=> s \in Matched \ pending' /\ ~policy[s].remote
      OBVIOUS
    <2>1. CASE s = r
      BY <1>1, <1>3, <2>1 DEF Visited, Ran, TypeOK
    <2>2. CASE s # r
      BY <1>1, <2>2 DEF Visited, Ran, TypeOK
    <2> QED  BY <2>1, <2>2
  <1>5. \A p \in pending', s \in Matched \ pending' : policy[s].priority <= policy[p].priority
    BY <1>1, <1>2 DEF Visited
  <1>6. Visited'
    BY <1>1, <1>2, <1>4, <1>5 DEF Visited
  <1> QED  BY <1>1, <1>2, <1>6 DEF Visited

(* A rule that joins the collected parts right after its check ran. *)
LEMMA OrderedStep ==
    ASSUME TypeOK, Visited, NEW r \in Rules, Come(r), ~policy[r].remote,
           NEW status \in Statuses, result' = [result EXCEPT ![r] = status],
           NEW parts \in Seq(Rules), Ordered(parts), NEW cond \in BOOLEAN
    PROVE  /\ PartsOf(AppendIf(parts, cond, r)) \subseteq {s \in Rules : Ran(s)'}
           /\ InUrgencyOrder(AppendIf(parts, cond, r))
  <1>1. /\ ~Ran(r) /\ \A s \in Rules : Ran(s) => policy[s].priority <= policy[r].priority
    BY VisitedStep
  <1>2. "notRun" \notin Statuses
    BY DEF Statuses, Errors
  <1>3. \A s \in Rules : Ran(s) \/ s = r => Ran(s)'
    BY <1>2 DEF Ran, TypeOK
  <1>4. CASE cond
    <2>1. AppendIf(parts, cond, r) = Append(parts, r)
      BY <1>4 DEF AppendIf
    <2>2. InUrgencyOrder(Append(parts, r))
      BY <1>1, AppendInOrder DEF Ordered
    <2> QED  BY <1>3, <2>1, <2>2, AppendFacts DEF Ordered
  <1>5. CASE ~cond
    BY <1>3, <1>5 DEF AppendIf, Ordered
  <1> QED  BY <1>4, <1>5

(* Skipping a remote rule keeps the loop's invariant. *)
LEMMA SkipRemoteInv ==
    ASSUME IInv, NEW r \in Rules, SkipRemote(r)
    PROVE  BeforeLoop' /\ InLoop' /\ AfterLoop'
  <1>1. /\ pc = "loop" /\ policy[r].remote /\ Come(r)
        /\ UNCHANGED <<pc, policy, input, messages, contexts, output, exitCode, result>>
    BY DEF SkipRemote, Come, Stay
  <1>2. /\ Visited /\ NoBlocker /\ MessagesExact /\ output = NoOutput /\ exitCode = 0
        /\ Ordered(messages) /\ Ordered(contexts)
    BY <1>1 DEF IInv, InLoop
  <1>3. Visited'
    BY <1>1, <1>2, VisitedStep DEF IInv
  <1>4. NoBlocker' /\ MessagesExact'
    BY <1>1, <1>2 DEF NoBlocker, MessagesExact, Reported, Blocker
  <1>5. Ordered(messages)' /\ Ordered(contexts)'
    BY <1>1, <1>2 DEF Ordered, InUrgencyOrder, Ran
  <1> QED  BY <1>1, <1>2, <1>3, <1>4, <1>5 DEF BeforeLoop, InLoop, AfterLoop

(* A check that returned makes its rule the blocker exactly when the       *)
(* handler's reaction is to block.                                         *)
LEMMA ReturnInv ==
    ASSUME IInv, NEW r \in Rules, Come(r), NEW status \in Statuses,
           NEW hasContext \in BOOLEAN, NEW t \in Nat, Return(r, status, hasContext, t)
    PROVE  BeforeLoop' /\ InLoop' /\ AfterLoop'
  <1> DEFINE reaction == Handle(input.event, policy[r], status, hasContext)
  <1>1. /\ pc = "loop" /\ ~policy[r].remote
        /\ UNCHANGED <<policy, input>>
        /\ result' = [result EXCEPT ![r] = status]
    BY DEF Come, Return
  <1>2. /\ TypeOK /\ Visited /\ NoBlocker /\ MessagesExact
        /\ Ordered(messages) /\ Ordered(contexts)
        /\ output = NoOutput /\ exitCode = 0
    BY <1>1 DEF IInv, InLoop
  <1>3. /\ Visited'
        /\ \A s \in pending' : policy[r].priority <= policy[s].priority
        /\ r \in Matched /\ ~Ran(r)
    BY <1>1, <1>2, VisitedStep
  <1>4. Matched' = Matched
    BY <1>1 DEF Matched
  <1>5. /\ reaction.block \in BOOLEAN /\ reaction.message \in BOOLEAN
        /\ reaction.context \in BOOLEAN
        /\ reaction.block <=> /\ input.event \in BlockableEvents
                              /\ policy[r].severity = "block" /\ status \in Violations
        /\ reaction.message <=>
              \/ input.event = "PreToolUse" /\ policy[r].severity = "warn" /\ status = "fail"
              \/ /\ input.event = "PostToolUse"
                 /\ \/ status = "fail"
                    \/ policy[r].severity = "block" /\ status \in Violations
    BY <1>2, HandleFacts, ZenonT(60) DEF Visited
  <1>6. result'[r] = status /\ \A s \in Rules \ {r} : result'[s] = result[s]
    BY <1>1, <1>2 DEF TypeOK
  <1>7. CASE reaction.block
    <2>1. /\ pc' = "done" /\ output' = BlockOutput(input.event, r)
          /\ exitCode' = BlockExit(input.event)
      BY <1>7 DEF Return, Exit
    <2>2. Blocker(r)' /\ input.event \in BlockableEvents
      BY <1>1, <1>5, <1>6, <1>7 DEF Blocker
    <2>3. \A s \in Rules \ {r} : ~Blocker(s)'
      BY <1>1, <1>2, <1>6, <2>2 DEF Blocker, NoBlocker
    <2>4. BlockedBy(r)'
      BY <1>1, <1>3, <2>1, <2>2, <2>3 DEF BlockedBy
    <2> QED  BY <1>3, <1>4, <2>1, <2>4 DEF BeforeLoop, InLoop, AfterLoop
  <1>8. CASE ~reaction.block
    <2>1. /\ messages' = AppendIf(messages, reaction.message, r)
          /\ contexts' = AppendIf(contexts, reaction.context, r)
          /\ pc' = pc /\ output' = output /\ exitCode' = exitCode
      BY <1>8 DEF Return, Stay
    <2>2. NoBlocker'
      BY <1>1, <1>2, <1>5, <1>6, <1>8 DEF NoBlocker, Blocker
    <2>3. \A s \in Rules \ {r} : Reported(s)' <=> Reported(s)
      BY <1>1, <1>6 DEF Reported, Blocker
    <2>4. Reported(r)' <=> reaction.message
      BY <1>1, <1>5, <1>6 DEF Reported, Blocker
    <2>5. ~Reported(r)
      BY <1>3 DEF Reported, Blocker, Ran, Violations, Statuses, Errors
    <2>6. messages \in Seq(Rules) /\ contexts \in Seq(Rules)
      BY <1>2 DEF TypeOK
    <2>7. PartsOf(messages') = {s \in Rules : Reported(s)'}
      <3>1. CASE reaction.message
        BY <1>2, <2>1, <2>3, <2>4, <2>5, <2>6, <3>1, AppendFacts
           DEF AppendIf, MessagesExact
      <3>2. CASE ~reaction.message
        BY <1>2, <2>1, <2>3, <2>4, <2>5, <3>2 DEF AppendIf, MessagesExact
      <3> QED  BY <1>5, <3>1, <3>2
    <2>8. /\ PartsOf(messages') \subseteq {s \in Rules : Ran(s)'} /\ InUrgencyOrder(messages')
          /\ PartsOf(contexts') \subseteq {s \in Rules : Ran(s)'} /\ InUrgencyOrder(contexts')
      BY <1>1, <1>2, <1>5, <2>1, <2>6, OrderedStep
    <2>9. MessagesExact' /\ Ordered(messages)' /\ Ordered(contexts)'
      BY <1>1, <2>7, <2>8 DEF MessagesExact, Ordered, PartsOf, InUrgencyOrder
    <2> QED  BY <1>1, <1>2, <1>3, <2>1, <2>2, <2>9 DEF BeforeLoop, InLoop, AfterLoop
  <1> QED  BY <1>5, <1>7, <1>8

LEMMA InitInv == Init => IInv
  <1> SUFFICES ASSUME Init PROVE IInv
    OBVIOUS
  <1>1. \A r \in Rules : ~Ran(r)
    BY DEF Init, Ran
  <1> QED  BY <1>1, InitType DEF Init, IInv, Written, BeforeLoop, Quiet, InLoop, AfterLoop

(* Only Exit writes, and it writes the answer it gives or fails to. *)
LEMMA NextWritten == IInv /\ [Next]_vars => Written'
  <1> SUFFICES ASSUME IInv, [Next]_vars PROVE Written'
    OBVIOUS
  <1>1. ASSUME NEW out, NEW code, Exit(out, code) PROVE Written'
    BY <1>1 DEF Exit, Written
  <1>2. CASE UNCHANGED <<output, stdout>>
    BY <1>2 DEF Written, IInv
  <1>3. ASSUME NEW r \in Rules, RunRule(r) PROVE Written'
    <2>1. ASSUME NEW status, NEW hasContext, NEW t, Return(r, status, hasContext, t)
          PROVE  Written'
      BY <1>1, <1>2, <2>1 DEF Return, Stay
    <2>2. CASE SkipRemote(r)
      BY <1>2, <2>2 DEF SkipRemote, Stay
    <2> QED  BY <1>3, <2>1, <2>2, RunRuleCases, Zenon DEF IInv
  <1>4. CASE ReadInput \/ UNCHANGED vars
    BY <1>2, <1>4 DEF ReadInput, vars
  <1>5. CASE ReadInputFails \/ NoConfig \/ Finish
    BY <1>1, <1>5 DEF ReadInputFails, NoConfig, Finish
  <1>6. CASE Evaluate
    BY <1>1, <1>2, <1>6 DEF Evaluate
  <1> QED  BY <1>3, <1>4, <1>5, <1>6 DEF Next

LEMMA NextInv == IInv /\ [Next]_vars => IInv'
  <1> SUFFICES ASSUME IInv, [Next]_vars PROVE BeforeLoop' /\ InLoop' /\ AfterLoop'
    BY NextType, NextWritten DEF IInv
  <1>0. TypeOK
    BY DEF IInv
  <1>1. CASE ReadInput
    BY <1>1 DEF ReadInput, IInv, BeforeLoop, Quiet, Ran, InLoop, AfterLoop
  <1>2. CASE ReadInputFails
    BY <1>2 DEF ReadInputFails, Exit, IInv, BeforeLoop, Quiet, Ran, InLoop, AfterLoop,
                Abstained
  <1>3. CASE NoConfig
    BY <1>3 DEF NoConfig, Exit, IInv, BeforeLoop, Quiet, Ran, InLoop, AfterLoop, Abstained
  <1>4. CASE Evaluate
    <2>1. /\ pc = "load" /\ input \in HookInput /\ Quiet /\ exitCode = 0
          /\ UNCHANGED <<policy, input, messages, contexts, result>>
      BY <1>4 DEF Evaluate, IInv, BeforeLoop
    <2>2. CASE Exit(NoOutput, 0)
      BY <2>1, <2>2 DEF Exit, Quiet, Ran, BeforeLoop, InLoop, AfterLoop, Abstained
    <2>3. CASE /\ input.event \in HandledEvents
               /\ pending' = Matched /\ pc' = "loop" /\ UNCHANGED <<output, exitCode>>
      <3>1. Matched' = Matched /\ \A r \in Rules : ~Ran(r)'
        BY <2>1 DEF Matched, Quiet, Ran
      <3>2. Visited'
        BY <2>1, <2>3, <3>1 DEF Visited
      <3>3. \A r \in Rules : ~Blocker(r)' /\ ~Reported(r)'
        BY <3>1 DEF Ran, Blocker, Reported, Violations, Statuses, Errors
      <3>4. messages' = <<>> /\ contexts' = <<>> /\ PartsOf(<<>>) = {}
        BY <2>1 DEF Quiet, PartsOf
      <3>5. NoBlocker' /\ MessagesExact' /\ Ordered(messages)' /\ Ordered(contexts)'
        BY <3>3, <3>4 DEF NoBlocker, MessagesExact, Ordered, InUrgencyOrder, PartsOf
      <3> QED  BY <2>1, <2>3, <3>2, <3>5 DEF Quiet, BeforeLoop, InLoop, AfterLoop
    <2> QED  BY <1>4, <2>2, <2>3 DEF Evaluate, Matched
  <1>5. ASSUME NEW r \in Rules, RunRule(r) PROVE BeforeLoop' /\ InLoop' /\ AfterLoop'
    BY <1>0, <1>5, RunRuleCases, SkipRemoteInv, ReturnInv, Zenon
  <1>6. CASE Finish
    <2>1. /\ pending = {} /\ Visited /\ NoBlocker /\ MessagesExact
          /\ Ordered(messages) /\ Ordered(contexts)
      BY <1>6 DEF Finish, IInv, InLoop
    <2>2. UNCHANGED <<policy, input, pending, messages, contexts, result>>
      BY <1>6 DEF Finish
    <2>3. Visited' /\ NoBlocker' /\ MessagesExact' /\ Ordered(messages)' /\ Ordered(contexts)'
      BY <2>1, <2>2 DEF Visited, Ran, Matched, NoBlocker, Blocker, MessagesExact,
                        Reported, Ordered, InUrgencyOrder, PartsOf
    <2>4. Allowed'
      BY <1>6, <2>1, <2>2, <2>3 DEF Finish, Exit, Allowed
    <2> QED  BY <1>6, <2>4 DEF Finish, Exit, BeforeLoop, InLoop, AfterLoop
  <1>7. CASE UNCHANGED vars
    <2>1. /\ UNCHANGED <<pc, policy, input, pending, messages, contexts, output, exitCode,
                         result>>
      BY <1>7 DEF vars
    <2>2. /\ Matched' = Matched /\ (Visited' <=> Visited) /\ (NoBlocker' <=> NoBlocker)
          /\ MessagesExact' <=> MessagesExact
          /\ Ordered(messages)' <=> Ordered(messages)
          /\ Ordered(contexts)' <=> Ordered(contexts)
          /\ Quiet' <=> Quiet
      BY <2>1 DEF Visited, Ran, Matched, NoBlocker, Blocker, MessagesExact, Reported,
                  Ordered, InUrgencyOrder, PartsOf, Quiet
    <2>3. \A r \in Rules : BlockedBy(r)' <=> BlockedBy(r)
      BY <2>1, <2>2 DEF BlockedBy, Blocker
    <2>4. Matched \subseteq Rules
      BY DEF Matched, FilterRules
    <2> QED  BY <2>1, <2>2, <2>3, <2>4 DEF IInv, BeforeLoop, InLoop, AfterLoop, Abstained,
                                           Allowed
  <1> QED  BY <1>1, <1>2, <1>3, <1>4, <1>5, <1>6, <1>7 DEF Next

LEMMA Invariance == Spec => []IInv
  BY InitInv, NextInv, PTL DEF Spec

-----------------------------------------------------------------------------
(* The safety properties. *)

(* A handler's blocking answer stops the action at every event at which    *)
(* that is possible.                                                       *)
LEMMA BlockStops ==
    ASSUME NEW event \in BlockableEvents, NEW r, NEW out, NEW code,
           out = BlockOutput(event, r), code = BlockExit(event)
    PROVE  /\ Stops(out, code) /\ out.reason = r
           /\ out.systemMessage = <<>> /\ out.additionalContext = <<>>
  BY DEF Stops, BlockOutput, BlockExit, DenyOutput, StopBlockOutput, HaltOutput, NoOutput,
         BlockableEvents, HandledEvents

(* A nil answer stops it only by the exit code. *)
LEMMA NilStops ==
    ASSUME NEW out, NEW code, out = NoOutput
    PROVE  /\ Stops(out, code) <=> code = 2
           /\ out.reason = NoRule
           /\ out.systemMessage = <<>> /\ out.additionalContext = <<>>
  BY DEF Stops, NoOutput

(* An answer made of the collected parts does not stop it. *)
LEMMA PartsDoNotStop ==
    ASSUME NEW out, NEW m, NEW c,
           out = PartsOutput(m, c)
    PROVE  /\ ~Stops(out, 0) /\ out.reason = NoRule
           /\ out.systemMessage = m /\ out.additionalContext = c
  BY DEF Stops, PartsOutput, NoOutput

(* What that means for the three ways to be done. *)
LEMMA BlockedFacts ==
    ASSUME NEW r \in Rules, BlockedBy(r)
    PROVE  /\ Refused /\ output.reason = r
           /\ output.systemMessage = <<>> /\ output.additionalContext = <<>>
  BY BlockStops DEF BlockedBy, Refused

LEMMA AllowedFacts ==
    ASSUME Allowed
    PROVE  /\ ~Refused /\ output.reason = NoRule
           /\ output.systemMessage = messages /\ output.additionalContext = contexts
  BY PartsDoNotStop DEF Allowed, Refused

LEMMA QuietFacts ==
    ASSUME Quiet
    PROVE  /\ Refused <=> exitCode = 2
           /\ output.reason = NoRule
           /\ output.systemMessage = <<>> /\ output.additionalContext = <<>>
  BY NilStops DEF Quiet, Refused

(* Until the answer is given, output and exit code are those of a nil      *)
(* answer.                                                                 *)
LEMMA NotDone ==
    ASSUME IInv, pc # "done"
    PROVE  /\ ~Refused /\ output.reason = NoRule
           /\ output.systemMessage = <<>> /\ output.additionalContext = <<>>
  <1>1. output = NoOutput /\ exitCode = 0
    BY DEF IInv, TypeOK, BeforeLoop, Quiet, InLoop
  <1> QED  BY <1>1, NilStops DEF Refused

(* At a blockable event, a block rule that did not pass stops the action,  *)
(* whichever call of its check failed and whatever the other rules are.    *)
THEOREM FailsClosed == Spec => []FailClosed
  <1>1. IInv => FailClosed
    <2> SUFFICES ASSUME IInv, pc = "done", input.event \in BlockableEvents,
                        NEW r \in Rules, Blocker(r)
                 PROVE  Stopped \/ (stdout # output /\ input.event \in {"PreToolUse", "Stop"})
      BY DEF FailClosed
    <2>1. CASE Abstained
      BY <2>1 DEF Abstained, Quiet, Ran, Blocker, Violations, Statuses, Errors
    <2>2. CASE Allowed
      BY <2>2 DEF Allowed, NoBlocker
    <2>3. CASE \E s \in Matched : BlockedBy(s)
      <3>1. Refused /\ exitCode = BlockExit(input.event)
        BY <2>3, BlockedFacts DEF Matched, FilterRules, BlockedBy
      <3>2. input.event \in {"PreToolUse", "Stop"} \/ exitCode = 2
        BY <3>1 DEF BlockExit, BlockableEvents, HandledEvents
      <3> QED  BY <3>1, <3>2 DEF Stopped, Refused, Stops
    <2> QED  BY <2>1, <2>2, <2>3 DEF IInv, AfterLoop
  <1> QED  BY <1>1, Invariance, PTL

(* Only an unreadable input or a matching local block rule that did not    *)
(* pass stops an action.                                                   *)
THEOREM BlocksOnlyForCause == Spec => []NoSpuriousBlock
  <1>1. IInv => NoSpuriousBlock
    <2> SUFFICES ASSUME IInv, Stopped, input # NoInput
                 PROVE  /\ input.event \in BlockableEvents
                        /\ \E r \in FilterRules(policy, input) :
                              /\ output.reason = r /\ ~policy[r].remote /\ Blocker(r)
      BY DEF NoSpuriousBlock
    <2>0. Refused
      BY NilStops DEF IInv, Written, Stopped, Refused, Stops
    <2>1. pc = "done"
      BY <2>0, NotDone
    <2>2. CASE Abstained
      BY <2>0, <2>2, QuietFacts DEF Abstained
    <2>3. CASE Allowed
      BY <2>0, <2>3, AllowedFacts
    <2>4. CASE \E r \in Matched : BlockedBy(r)
      BY <2>4, BlockedFacts DEF Matched, FilterRules, BlockedBy
    <2> QED  BY <2>1, <2>2, <2>3, <2>4 DEF IInv, AfterLoop
  <1> QED  BY <1>1, Invariance, PTL

(* No rule is checked before a more urgent one. *)
THEOREM ChecksUrgentFirst == Spec => []UrgentFirst
  <1>1. IInv => UrgentFirst
    <2> SUFFICES ASSUME IInv, NEW r \in Rules, NEW s \in Matched,
                        Ran(r), ~policy[s].remote,
                        policy[s].priority < policy[r].priority
                 PROVE  Ran(s)
      BY DEF UrgentFirst, Matched, Ran
    <2>1. s \in Rules /\ TypeOK
      BY DEF Matched, FilterRules, IInv
    <2>2. CASE Visited
      <3>1. r \in Matched \ pending
        BY <2>2 DEF Visited
      <3>2. s \notin pending
        BY <2>1, <2>2, <3>1, Priorities DEF Visited
      <3> QED  BY <2>1, <2>2, <3>2 DEF Visited
    <2>3. CASE Quiet
      BY <2>3 DEF Quiet
    <2> QED  BY <2>1, <2>2, <2>3 DEF IInv, TypeOK, BeforeLoop, InLoop, AfterLoop,
                                     Abstained, Allowed, BlockedBy
  <1> QED  BY <1>1, Invariance, PTL

(* What the user is told comes in order of priority, each rule once. *)
THEOREM ReportsInOrder == Spec => []ReportInOrder
  <1>1. IInv => ReportInOrder
    <2> SUFFICES ASSUME IInv PROVE ReportInOrder
      OBVIOUS
    <2>1. InUrgencyOrder(<<>>)
      BY DEF InUrgencyOrder
    <2>3. CASE pc # "done"
      BY <2>1, <2>3, NotDone DEF ReportInOrder
    <2>4. CASE Abstained
      BY <2>1, <2>4, QuietFacts DEF Abstained, ReportInOrder
    <2>5. CASE Allowed
      BY <2>5, AllowedFacts DEF Allowed, Ordered, ReportInOrder
    <2>6. CASE \E r \in Matched : BlockedBy(r)
      <3>1. output.systemMessage = <<>> /\ output.additionalContext = <<>>
        BY <2>6, BlockedFacts DEF Matched, FilterRules
      <3> QED  BY <2>1, <3>1 DEF ReportInOrder
    <2> QED  BY <2>3, <2>4, <2>5, <2>6 DEF IInv, AfterLoop
  <1> QED  BY <1>1, Invariance, PTL

-----------------------------------------------------------------------------
(* Action properties. *)

(* A handler that lets the action pass has checked every local rule.       *)
THEOREM ChecksEveryRule == Spec => EveryRuleChecked
  <1>1. IInv /\ IInv' /\ [Next]_vars =>
           [pc = "loop" /\ pc' = "done" =>
               \/ Refused'
               \/ \A r \in FilterRules(policy, input) :
                     policy[r].remote \/ result'[r] # "notRun"]_vars
    <2> SUFFICES ASSUME IInv, IInv', [Next]_vars, pc = "loop", pc' = "done", ~Refused',
                        NEW r \in Matched, ~policy[r].remote
                 PROVE  result'[r] # "notRun"
      BY DEF Matched
    <2>1. Visited
      BY DEF IInv, InLoop
    <2>2. CASE Finish
      BY <2>1, <2>2 DEF Finish, Visited, Ran, Matched, FilterRules
    <2>3. ASSUME NEW s \in Rules, RunRule(s) PROVE FALSE
      <3>1. CASE SkipRemote(s)
        BY <3>1 DEF SkipRemote, Stay
      <3>2. ASSUME NEW status \in Statuses, NEW hasContext \in BOOLEAN, NEW t \in Nat,
                   Return(s, status, hasContext, t)
            PROVE  FALSE
        <4> DEFINE reaction == Handle(input.event, policy[s], status, hasContext)
        <4>0. input.event \in HandledEvents
          BY <2>1 DEF Visited
        <4>1. CASE reaction.block
          <5>1. input.event \in BlockableEvents
            BY <4>0, <4>1, HandleFacts
          <5>2. output' = BlockOutput(input.event, s) /\ exitCode' = BlockExit(input.event)
            BY <3>2, <4>1 DEF Return, Exit
          <5> QED  BY <5>1, <5>2, BlockStops DEF Refused
        <4>2. CASE ~reaction.block
          BY <3>2, <4>2 DEF Return, Stay
        <4> QED  BY <4>1, <4>2
      <3> QED  BY <2>3, <3>1, <3>2, RunRuleCases, Zenon DEF IInv
    <2> QED  BY <2>2, <2>3 DEF Next, ReadInput, ReadInputFails, NoConfig, Evaluate, vars
  <1> QED  BY <1>1, Invariance, PTL DEF Spec, EveryRuleChecked

(* Past the deadline a cmd_check that is come to does not pass and a       *)
(* secret_yelp does not fail, whatever used the time up.                   *)
THEOREM LateChecksUnseen == Spec => LateChecks
  <1>1. IInv /\ [Next]_vars =>
           [clock >= Deadline =>
               \A r \in Rules :
                  result'[r] # result[r] =>
                     /\ policy[r].check = "cmd_check"   => result'[r] # "pass"
                     /\ policy[r].check = "secret_yelp" => result'[r] # "fail"]_vars
    <2> SUFFICES ASSUME IInv, [Next]_vars, clock >= Deadline, NEW r \in Rules,
                        result'[r] # result[r]
                 PROVE  /\ policy[r].check = "cmd_check"   => result'[r] # "pass"
                        /\ policy[r].check = "secret_yelp" => result'[r] # "fail"
      OBVIOUS
    <2>1. TypeOK /\ clock \in Nat /\ result \in [Rules -> Statuses \cup {"notRun"}]
      BY DEF IInv, TypeOK
    <2>2. ~(Limit > clock)
      BY <2>1, DeadlineAssumption, CheckTimeoutAssumption DEF Limit, Earlier
    <2>3. PICK s \in Rules : RunRule(s)
      BY DEF Next, ReadInput, ReadInputFails, NoConfig, Evaluate, Finish, vars
    <2>4. s = r
      <3> SUFFICES ASSUME s # r PROVE FALSE
        OBVIOUS
      <3>1. ASSUME NEW status, NEW hasContext, NEW t, Return(s, status, hasContext, t)
            PROVE  result'[r] = result[r]
        BY <2>1, <3>1 DEF Return
      <3>2. CASE SkipRemote(s)
        BY <3>2 DEF SkipRemote
      <3> QED  BY <2>1, <2>3, <3>1, <3>2, RunRuleCases, Zenon
    <2>5. ASSUME NEW status, NEW hasContext, NEW t, Return(r, status, hasContext, t)
          PROVE  result'[r] = status
      BY <2>1, <2>5 DEF Return
    <2>6. CASE policy[r].check = "cmd_check"
      <3>1. \/ \E t : Return(r, "getError", FALSE, t) \/ Return(r, "initError", FALSE, t)
            \/ \E t, hasContext : Return(r, "fail", hasContext, t)
            \/ SkipRemote(r)
        BY <2>2, <2>3, <2>4, <2>6 DEF RunRule, GetFails, InitFails, ExecuteInProcess,
           ExecuteNotApplicable, ExecuteCommand, ExecuteScan, ExecuteGit
      <3> QED  BY <2>5, <2>6, <3>1 DEF SkipRemote
    <2>7. CASE policy[r].check = "secret_yelp"
      <3>1. ASSUME NEW t \in clock..Deadline, t # Deadline PROVE FALSE
        BY <2>1, <3>1, DeadlineAssumption
      <3>2. \/ \E t : Return(r, "getError", FALSE, t) \/ Return(r, "initError", FALSE, t)
            \/ \E t, hasContext : Return(r, "pass", hasContext, t)
            \/ SkipRemote(r)
        BY <2>3, <2>4, <2>7, <3>1 DEF RunRule, GetFails, InitFails, ExecuteInProcess,
           ExecuteNotApplicable, ExecuteCommand, ExecuteScan, ExecuteGit
      <3> QED  BY <2>5, <2>7, <3>2 DEF SkipRemote
    <2> QED  BY <2>6, <2>7
  <1> QED  BY <1>1, Invariance, PTL DEF Spec, LateChecks

-----------------------------------------------------------------------------
(* Refinement. *)

(* The two modules share their vocabulary. *)
LEMMA Vocabulary ==
    /\ Decision!HookInput = HookInput
    /\ Decision!NoInput = NoInput
    /\ Decision!HandledEvents = HandledEvents
    /\ Decision!BlockableEvents = BlockableEvents
    /\ Decision!Violations = Violations
    /\ Decision!Statuses = Statuses
    /\ Decision!FilterRules(policy, input) = FilterRules(policy, input)
  BY DEF Decision!HookInput, Decision!NoInput, NoInput, Decision!Events, Decision!HandledEvents,
         Decision!BlockableEvents, Decision!Violations, Decision!Statuses, Decision!Errors,
         Decision!FilterRules, Decision!MatchesEvent, Decision!MatchesTool,
         HookInput, Events, HandledEvents, BlockableEvents, Violations, Statuses, Errors,
         FilterRules, MatchesEvent, MatchesTool

(* Before a handler answers, the decision is open. *)
LEMMA OpenUntilDone ==
    ASSUME IInv, pc # "done"
    PROVE  DecisionOfAnswer = Decision!Open /\ EvidenceOfAnswer = [r \in Rules |-> "notRun"]
  <1>1. output.reason = NoRule /\ PartsOf(output.systemMessage) = {}
    BY NotDone DEF PartsOf
  <1>2. DecisionOfAnswer = Decision!Open
    BY <1>1 DEF DecisionOfAnswer, Decision!Open, Decision!NoInput, NoInput
  <1> QED  BY <1>2 DEF EvidenceOfAnswer

(* A step that ends at Abstained abstains or refuses. *)
LEMMA AbstainStep ==
    ASSUME IInv, IInv', pc # "done", pc' = "done", policy' = policy, Abstained'
    PROVE  Decision!Abstain \/ Decision!Refuse
  <1>1. DecisionOfAnswer = Decision!Open /\ EvidenceOfAnswer = [r \in Rules |-> "notRun"]
    BY OpenUntilDone
  <1>2. output' = NoOutput /\ \A r \in Rules : result'[r] = "notRun"
    BY DEF Abstained, Quiet, Ran
  <1>3. output'.reason = NoRule /\ output'.systemMessage = <<>>
    BY <1>2, NilStops
  <1>4. EvidenceOfAnswer' = [r \in Rules |-> "notRun"]
    BY <1>2 DEF EvidenceOfAnswer, IInv, TypeOK
  <1>5. DecisionOfAnswer' = [state |-> IF Refused' THEN "blocked" ELSE "allowed",
                             on |-> input', by |-> NoRule, told |-> {}]
    <2>1. PartsOf(output'.systemMessage) = {}
      BY <1>3 DEF PartsOf
    <2> QED  BY <1>3, <2>1 DEF DecisionOfAnswer
  <1>6. CASE input' = NoInput /\ Refused'
    <2>1. DecisionOfAnswer' = [Decision!Open EXCEPT !.state = "blocked"]
      BY <1>5, <1>6, Vocabulary DEF Decision!Open
    <2> QED  BY <1>1, <1>4, <2>1 DEF Decision!Refuse
  <1>7. CASE input' \in Decision!HookInput /\ ~Refused'
    BY <1>1, <1>4, <1>5, <1>7 DEF Decision!Abstain
  <1>8. \/ input' = NoInput /\ Refused'
        \/ input' \in Decision!HookInput /\ ~Refused'
    BY <1>2, NilStops, Vocabulary DEF Abstained, Refused
  <1> QED  BY <1>6, <1>7, <1>8

(* The rules HookDecision enforces are the matched local ones. *)
LEMMA EnforcedFacts ==
    \A r : r \in Decision!Enforced(input) <=> r \in Matched /\ ~policy[r].remote
  BY Vocabulary DEF Decision!Enforced, Matched

(* Once the policy stays the same, a rule prohibits the action on the      *)
(* evidence of the checks' results when it is a blocker.                   *)
LEMMA ProhibitsFacts ==
    ASSUME policy' = policy
    PROVE  \A r : Decision!Prohibits(result', r) <=> Blocker(r)'
  BY Vocabulary DEF Decision!Prohibits, Blocker

(* A step that ends at Allowed decides to allow. *)
LEMMA AllowStep ==
    ASSUME IInv, IInv', pc # "done", pc' = "done", UNCHANGED <<policy, input>>, Allowed'
    PROVE  Decision!Decide
  <1>1. DecisionOfAnswer = Decision!Open
    BY OpenUntilDone
  <1>2. /\ ~Refused' /\ output'.reason = NoRule /\ output'.systemMessage = messages'
    BY PartsDoNotStop DEF Allowed, Refused
  <1>3. EvidenceOfAnswer' = result' /\ result' \in Decision!Evidence
    BY Vocabulary DEF EvidenceOfAnswer, IInv, TypeOK, Decision!Evidence
  <1>4. /\ input \in HookInput /\ input.event \in HandledEvents /\ Matched' = Matched
        /\ Matched \subseteq Rules
        /\ \A r \in Rules : Ran(r)' <=> r \in Matched /\ ~policy[r].remote
    BY DEF Allowed, Visited, Matched, FilterRules
  <1>5. \A r \in Decision!Enforced(input) :
           /\ result'[r] # "notRun"
           /\ input.event \in BlockableEvents => ~Decision!Prohibits(result', r)
    <2>1. NoBlocker' /\ input' = input
      BY DEF Allowed
    <2> QED  BY <1>4, <2>1, EnforcedFacts, ProhibitsFacts DEF NoBlocker, Ran
  <1>6. PartsOf(messages') = Decision!Told(input, result')
    <2>1. PartsOf(messages') = {r \in Rules : Reported(r)'}
      BY DEF Allowed, MessagesExact, PartsOf
    <2>2. \A r \in Rules : Reported(r)' => r \in Decision!Enforced(input)
      BY <1>4, EnforcedFacts DEF Reported, Blocker, Ran, Violations, Statuses, Errors
    <2>3. \A r : r \in Decision!Enforced(input) => r \in Rules
      BY <1>4, EnforcedFacts
    <2> QED  BY <2>1, <2>2, <2>3, ProhibitsFacts DEF Decision!Told, Reported
  <1>7. DecisionOfAnswer' = [state |-> "allowed", on |-> input, by |-> NoRule,
                             told |-> Decision!Told(input, result')]
    BY <1>2, <1>6 DEF DecisionOfAnswer, PartsOf
  <1>8. Decision!Allow(input, EvidenceOfAnswer')
    BY <1>3, <1>4, <1>5, <1>7, Vocabulary DEF Decision!Allow
  <1> QED  BY <1>1, <1>3, <1>4, <1>8, Vocabulary, Zenon DEF Decision!Decide

(* A step that ends at BlockedBy(r) decides to block because of r. *)
LEMMA BlockStep ==
    ASSUME IInv, IInv', pc # "done", pc' = "done", UNCHANGED <<policy, input>>,
           NEW r \in Matched', BlockedBy(r)'
    PROVE  Decision!Decide
  <1>1. DecisionOfAnswer = Decision!Open
    BY OpenUntilDone
  <1>2. Matched' = Matched /\ Matched \subseteq Rules /\ r \in Rules
    BY DEF Matched, FilterRules
  <1>3. Refused' /\ output'.reason = r /\ output'.systemMessage = <<>>
    BY <1>2, BlockStops DEF BlockedBy, Refused
  <1>4. EvidenceOfAnswer' = result' /\ result' \in Decision!Evidence
    BY Vocabulary DEF EvidenceOfAnswer, IInv, TypeOK, Decision!Evidence
  <1>5. /\ input \in HookInput /\ input.event \in BlockableEvents
        /\ r \in Decision!Enforced(input) /\ Decision!Prohibits(result', r)
    BY <1>2, EnforcedFacts, ProhibitsFacts DEF BlockedBy, Visited
  <1>6. ASSUME NEW s \in Decision!Enforced(input) \ {r}
        PROVE  /\ ~Decision!Prohibits(result', s)
               /\ policy[s].priority < policy[r].priority => result'[s] # "notRun"
    <2>1. s \in Matched /\ s \in Rules /\ ~policy[s].remote /\ s # r
      BY <1>2, EnforcedFacts
    <2>2. ~Decision!Prohibits(result', s)
      BY <2>1, ProhibitsFacts DEF BlockedBy
    <2>3. s \notin pending' => Ran(s)'
      BY <1>2, <2>1 DEF BlockedBy, Visited
    <2>4. s \in pending' => policy[r].priority <= policy[s].priority
      BY DEF BlockedBy
    <2>5. policy[s].priority \in Int /\ policy[r].priority \in Int
      BY <1>2, <2>1, Priorities DEF IInv
    <2> QED  BY <2>2, <2>3, <2>4, <2>5 DEF Ran
  <1>7. DecisionOfAnswer' = [state |-> "blocked", on |-> input, by |-> r, told |-> {}]
    <2>1. PartsOf(output'.systemMessage) = {}
      BY <1>3 DEF PartsOf
    <2> QED  BY <1>3, <2>1 DEF DecisionOfAnswer
  <1>8. Decision!Block(input, EvidenceOfAnswer', r)
    BY <1>4, <1>5, <1>6, <1>7, Vocabulary DEF Decision!Block
  <1> QED  BY <1>1, <1>2, <1>4, <1>5, <1>8, Vocabulary, Zenon DEF Decision!Decide

(* The engine implements the one-step decision. *)
THEOREM Implements == Spec => ImplementsDecision
  <1>1. Init => Decision!Init
    <2> SUFFICES ASSUME Init PROVE Decision!Init
      OBVIOUS
    <2>1. IInv /\ pc # "done" /\ policy \in Policies
      BY InitInv DEF Init
    <2> QED  BY <2>1, OpenUntilDone DEF Decision!Init
  <1>2. IInv /\ IInv' /\ [Next]_vars => [Decision!Next]_(Decision!vars)
    <2> SUFFICES ASSUME IInv, IInv', [Next]_vars
                 PROVE  Decision!Next \/ UNCHANGED Decision!vars
      BY DEF Decision!vars
    <2>1. pc = "done" => UNCHANGED vars
      BY DEF Next, ReadInput, ReadInputFails, NoConfig, Evaluate, RunRule, SkipRemote,
             GetFails, InitFails, ExecuteInProcess, ExecuteNotApplicable, ExecuteCommand,
             ExecuteScan, ExecuteGit, Come, Finish, vars
    <2>2. policy' = policy
      BY DEF Next, ReadInput, ReadInputFails, NoConfig, Evaluate, RunRule, SkipRemote,
             GetFails, InitFails, ExecuteInProcess, ExecuteNotApplicable, ExecuteCommand,
             ExecuteScan, ExecuteGit, Come, Finish, vars
    <2>3. CASE UNCHANGED vars
      BY <2>3 DEF vars, Decision!vars, DecisionOfAnswer, EvidenceOfAnswer, Refused, PartsOf
    <2>4. CASE pc # "done" /\ pc' # "done"
      <3>1. DecisionOfAnswer = Decision!Open /\ EvidenceOfAnswer = [r \in Rules |-> "notRun"]
        BY <2>4, OpenUntilDone
      <3>2. (DecisionOfAnswer = Decision!Open
              /\ EvidenceOfAnswer = [r \in Rules |-> "notRun"])'
        <4>1. output' = NoOutput
          BY <2>4 DEF IInv, TypeOK, BeforeLoop, Quiet, InLoop
        <4>2. output'.reason = NoRule /\ output'.systemMessage = <<>>
          BY <4>1, NilStops
        <4>3. PartsOf(output'.systemMessage) = {}
          BY <4>2 DEF PartsOf
        <4>4. DecisionOfAnswer' = Decision!Open
          BY <2>4, <4>2, <4>3 DEF DecisionOfAnswer, Decision!Open, Decision!NoInput, NoInput,
                                 PartsOf
        <4>5. EvidenceOfAnswer' = [r \in Rules |-> "notRun"]
          BY <2>4 DEF EvidenceOfAnswer
        <4> QED  BY <4>4, <4>5
      <3> QED  BY <2>2, <3>1, <3>2 DEF Decision!vars, Decision!Open
    <2>5. CASE pc # "done" /\ pc' = "done"
      <3>1. input' = input
        BY <2>5 DEF Next, ReadInput, ReadInputFails, NoConfig, Evaluate, RunRule,
             SkipRemote, GetFails, InitFails, ExecuteInProcess, ExecuteNotApplicable,
             ExecuteCommand, ExecuteScan, ExecuteGit, Come, Finish, vars
      <3>2. Abstained' \/ Allowed' \/ \E r \in Matched' : BlockedBy(r)'
        BY <2>5 DEF IInv, AfterLoop
      <3> QED  BY <2>2, <2>5, <3>1, <3>2, AbstainStep, AllowStep, BlockStep
                  DEF Decision!Next
    <2> QED  BY <2>1, <2>3, <2>4, <2>5
  <1> QED  BY <1>1, <1>2, Invariance, PTL DEF Spec, ImplementsDecision, Decision!Spec
=============================================================================
