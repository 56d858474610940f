---------------------------- MODULE ChecksProofs ----------------------------
(***************************************************************************)
(* Proofs about Checks for any rules and any input: any expressions and    *)
(* patterns, texts of any length, paths of any depth, and other hook       *)
(* processes at any moment.                                                *)
(***************************************************************************)
EXTENDS Checks, Folding

(* The instance that a rule gets to itself, and whether it gets one. *)
Own(rule) == InitCheck(New(rule.type), rule)
Usable(rule, in) == rule.type \in Types /\ InitOK(rule, in)

Alone == Types \ (CommandTypes \cup {"secret_yelp"})

(* What an outcome of a rule may be. *)
Plausible(result, rule, in) ==
    /\ result.outcome \in {"pass", "fail", "error"}
    /\ result.context # <<>> => result.outcome = "pass" \/ rule.type \in CommandTypes
    /\ ~Usable(rule, in) => result = Error
    /\ Usable(rule, in) /\ rule.type \in Alone => result = Execute(Own(rule), in)
    /\ Usable(rule, in) /\ rule.type \notin Alone /\ result.outcome = "error" =>
          rule.type = "secret_yelp" /\ rule.plugins

(* A line that secret_yelp need not fail. *)
TextOf(y, in) == ExtractContent(in, IF y.scanField = "" THEN "content" ELSE y.scanField)
Cleared(y, in, l) ==
    \/ TextOf(y, in)[l] \cap Detected = {}
    \/ TextOf(y, in)[l] \cap y.exclude # {}
    \/ \E k \in 1..l : TooLong \in TextOf(y, in)[k]

InputInv == input \in Input /\ AllWellTyped(rules)

(* The instance is the rule's own, with nothing of an earlier rule in it. *)
InstanceInv ==
    /\ line >= 1
    /\ step # "get" => More /\ Rule.type \in Types
    /\ step = "init" => check = New(Rule.type)
    /\ step \in {"open", "write", "execute"} => InitOK(Rule, input) /\ check = Own(Rule)
    /\ step \in {"open", "write"} => Rule.type = "secret_yelp" /\ Rule.plugins /\ line = 1

ResultsInv ==
    /\ IsList(results)
    /\ \A i \in DOMAIN results : Plausible(results[i], rules[i], input)

(* The lines that secret_yelp has come past need not fail. *)
ScanInv ==
    step = "execute" /\ Rule.type = "secret_yelp" =>
        \A l \in DOMAIN TextOf(Rule, input) :
            l < line => Cleared(Rule, input, l) \/ <<Len(results) + 1, l>> \in missed

IInv ==
    /\ TypeOK
    /\ InputInv
    /\ InstanceInv
    /\ ResultsInv
    /\ ScanInv
    /\ ScannedToTheEnd

-----------------------------------------------------------------------------
(* Lists. *)

LEMMA ListOf ==
    ASSUME NEW S, NEW list \in Seq(S)
    PROVE  /\ IsList(list)
           /\ DOMAIN list = 1..Len(list) /\ Len(list) \in Nat
           /\ ToSet(list) = {list[i] : i \in 1..Len(list)}
<1>1. DOMAIN list = 1..Len(list) /\ Len(list) \in Nat
  OBVIOUS
<1>2. ToSet(list) = {list[i] : i \in 1..Len(list)}
  BY <1>1 DEF ToSet
<1>3. list \in Seq(ToSet(list))
  <2>1. list \in [1..Len(list) -> ToSet(list)]
    BY <1>1, <1>2
  <2> QED
    BY <1>1, <2>1
<1> QED
  BY <1>1, <1>2, <1>3 DEF IsList

LEMMA Appended ==
    ASSUME NEW list, IsList(list), NEW x
    PROVE  LET longer == Append(list, x)
           IN  /\ IsList(longer)
               /\ Len(list) \in Nat
               /\ Len(longer) = Len(list) + 1
               /\ DOMAIN list = 1..Len(list)
               /\ DOMAIN longer = 1..(Len(list) + 1)
               /\ \A i \in DOMAIN list : longer[i] = list[i]
               /\ longer[Len(list) + 1] = x
<1> DEFINE S == ToSet(list) \cup {x}
<1>1. list \in Seq(S)
  BY DEF IsList
<1> HIDE DEF S
<1>2. Append(list, x) \in Seq(S) /\ x \in S
  BY <1>1 DEF S
<1>3. IsList(Append(list, x))
  BY <1>2, ListOf
<1> QED
  BY <1>1, <1>2, <1>3

-----------------------------------------------------------------------------
(* Instances and outcomes. *)

LEMMA NewInstance ==
    ASSUME NEW type \in Types
    PROVE  /\ New(type).type = type
           /\ New(type).mode \in Modes
           /\ New(type).within \in BOOLEAN
BY DEF New, Modes

LEMMA OwnOfType ==
    ASSUME NEW rule
    PROVE  LET new == New(rule.type)
           IN  /\ rule.type = "dir_acl"       => Own(rule) = DirInit(new, rule)
               /\ rule.type = "repo_access"   => Own(rule) = RepoInit(new, rule)
               /\ rule.type = "secret_regex"  => Own(rule) = SecretInit(new, rule)
               /\ rule.type = "cmd_validate"  => Own(rule) = CmdInit(new, rule)
               /\ rule.type = "cel"           => Own(rule) = CelInit(new, rule)
               /\ rule.type = "prompt_modify" => Own(rule) = PromptInit(new, rule)
               /\ rule.type = "skill_inject"  => Own(rule) = SkillInit(new, rule)
               /\ rule.type = "secret_yelp"   => Own(rule) = YelpInit(new, rule)
               /\ rule.type \in CommandTypes  => Own(rule) = CommandInit(new, rule)
<1> DEFINE new == New(rule.type)
<1> HIDE DEF new
<1>1. Own(rule) = InitCheck(new, rule)
  BY DEF Own, new
<1> QED
  BY <1>1 DEF InitCheck, CommandTypes, new

LEMMA OwnInstance ==
    ASSUME NEW rule, WellTyped(rule), rule.type \in Types
    PROVE  /\ Own(rule).type = rule.type
           /\ Own(rule).mode \in Modes
           /\ Own(rule).within \in BOOLEAN
<1>1. rule.mode \in Modes /\ rule.within \in BOOLEAN
  BY Zenon DEF WellTyped, Params
<1>2. /\ Or(rule.mode, "", "denylist") \in Modes
      /\ Or(rule.mode, "", "allowlist") \in Modes
      /\ "" \in Modes
  BY Zenon, <1>1 DEF Or, Modes
<1>3. CASE rule.type = "dir_acl"
  <2>1. Own(rule) = DirInit(New(rule.type), rule)
    BY <1>3, OwnOfType
  <2> QED
    BY <1>1, <1>2, <2>1, ZenonT(60) DEF DirInit, New
<1>4. CASE rule.type = "repo_access"
  <2>1. Own(rule) = RepoInit(New(rule.type), rule)
    BY <1>4, OwnOfType
  <2> QED
    BY Zenon, <1>1, <1>2, <2>1 DEF RepoInit, New
<1>5. CASE rule.type = "secret_regex"
  <2>1. Own(rule) = SecretInit(New(rule.type), rule)
    BY <1>5, OwnOfType
  <2> QED
    BY Zenon, <1>2, <2>1 DEF SecretInit, New
<1>6. CASE rule.type = "cmd_validate"
  <2>1. Own(rule) = CmdInit(New(rule.type), rule)
    BY <1>6, OwnOfType
  <2> QED
    BY Zenon, <1>2, <2>1 DEF CmdInit, New
<1>7. CASE rule.type = "cel"
  <2>1. Own(rule) = CelInit(New(rule.type), rule)
    BY <1>7, OwnOfType
  <2> QED
    BY Zenon, <1>2, <2>1 DEF CelInit, New
<1>8. CASE rule.type = "prompt_modify"
  <2>1. Own(rule) = PromptInit(New(rule.type), rule)
    BY <1>8, OwnOfType
  <2> QED
    BY Zenon, <1>2, <2>1 DEF PromptInit, New
<1>9. CASE rule.type = "skill_inject"
  <2>1. Own(rule) = SkillInit(New(rule.type), rule)
    BY <1>9, OwnOfType
  <2> QED
    BY Zenon, <1>2, <2>1 DEF SkillInit, New
<1>10. CASE rule.type = "secret_yelp"
  <2>1. Own(rule) = YelpInit(New(rule.type), rule)
    BY <1>10, OwnOfType
  <2> QED
    BY <1>2, <2>1, ZenonT(60) DEF YelpInit, New
<1>11. CASE rule.type \in CommandTypes
  <2>1. Own(rule) = CommandInit(New(rule.type), rule)
    BY <1>11, OwnOfType
  <2> QED
    BY Zenon, <1>2, <2>1 DEF CommandInit, New
<1> QED
  BY <1>3, <1>4, <1>5, <1>6, <1>7, <1>8, <1>9, <1>10, <1>11 DEF Types

LEMMA PassIfOutcome ==
    ASSUME NEW condition
    PROVE  PassIf(condition).outcome \in {"pass", "fail"} /\ PassIf(condition).context = <<>>
BY DEF PassIf, Pass, Fail

LEMMA ExecuteOutcome ==
    ASSUME NEW c, c.type \in Alone, NEW in
    PROVE  /\ Execute(c, in).outcome \in {"pass", "fail", "error"}
           /\ Execute(c, in).context # <<>> => Execute(c, in).outcome = "pass"
<1>1. CASE c.type = "dir_acl"
  BY <1>1, PassIfOutcome DEF Execute, DirExecute, Pass
<1>2. CASE c.type = "repo_access"
  BY <1>2, PassIfOutcome DEF Execute, RepoExecute, Pass
<1>3. CASE c.type = "secret_regex"
  BY <1>3, PassIfOutcome DEF Execute, SecretExecute
<1>4. CASE c.type = "cmd_validate"
  BY <1>4, PassIfOutcome DEF Execute, CmdExecute
<1>5. CASE c.type = "cel"
  BY <1>5, PassIfOutcome DEF Execute, CelExecute, Error
<1>6. CASE c.type = "prompt_modify"
  BY <1>6 DEF Execute, PromptExecute, Pass
<1>7. CASE c.type = "skill_inject"
  BY <1>7 DEF Execute, SkillExecute, Pass
<1> QED
  BY <1>1, <1>2, <1>3, <1>4, <1>5, <1>6, <1>7 DEF Alone, Types, CommandTypes

LEMMA NextRule ==
    ASSUME IInv, More
    PROVE  /\ Len(results) + 1 \in DOMAIN rules
           /\ WellTyped(Rule)
           /\ Len(rules) \in Nat /\ Len(results) \in Nat
<1>1. rules \in Seq(ToSet(rules)) /\ results \in Seq(ToSet(results))
  BY DEF IInv, InputInv, ResultsInv, AllWellTyped, IsList
<1>2. Len(results) + 1 \in DOMAIN rules
  BY <1>1 DEF More
<1> QED
  BY <1>1, <1>2 DEF IInv, InputInv, AllWellTyped, Rule

(* The lines of a text are numbered. *)
LEMMA TextLines ==
    ASSUME IInv, NEW rule, WellTyped(rule)
    PROVE  TextOf(rule, input) \in Seq(SUBSET (Words \cup {TooLong}))
<1>1. rule.scanField \in TextFields \cup {""}
  BY Zenon DEF WellTyped, Params
<1> QED
  BY Zenon, <1>1 DEF IInv, InputInv, Input, TextOf, ExtractContent, TextFields

LEMMA TypeOfResults ==
    ASSUME InputInv, ResultsInv, Len(results) <= Len(rules)
    PROVE  \A i \in DOMAIN results :
              /\ results[i].outcome \in {"pass", "fail", "error"}
              /\ results[i].context # <<>> =>
                    results[i].outcome = "pass" \/ rules[i].type \in CommandTypes
BY DEF ResultsInv, Plausible

-----------------------------------------------------------------------------
(* A step either goes on with the rule at hand or returns its outcome.     *)

LEMMA GoOn ==
    ASSUME IInv, UNCHANGED <<rules, input, results>>, missed \subseteq missed'
    PROVE  InputInv' /\ ResultsInv' /\ ScannedToTheEnd'
<1>1. InputInv' /\ ResultsInv'
  BY DEF IInv, InputInv, ResultsInv
<1>2. ScannedToTheEnd'
  BY Zenon DEF IInv, ScannedToTheEnd
<1> QED
  BY <1>1, <1>2

LEMMA Returned ==
    ASSUME IInv, More, NEW r, Return(r), Plausible(r, Rule, input),
           UNCHANGED <<rules, input, check>>, line' \in Nat, line' >= 1,
           baseline' \in {"none", "cut", "whole"}, missed \subseteq missed',
           \A m \in missed' : m[1] \in DOMAIN rules /\ m[2] \in Nat,
           Rule.type = "secret_yelp" /\ r.outcome = "pass" =>
               \A l \in DOMAIN TextOf(Rule, input) :
                   Cleared(Rule, input, l) \/ <<Len(results) + 1, l>> \in missed
    PROVE  IInv'
<1> DEFINE n == Len(results) + 1
<1>1. /\ IsList(results')
      /\ Len(results) \in Nat /\ Len(results') = n
      /\ DOMAIN results = 1..Len(results)
      /\ DOMAIN results' = 1..n
      /\ \A i \in DOMAIN results : results'[i] = results[i]
      /\ results'[n] = r
  BY Appended DEF Return, IInv, ResultsInv
<1>2. \A i \in DOMAIN results' : i \in DOMAIN results \/ i = n
  BY <1>1
<1>3. InputInv'
  BY DEF IInv, InputInv
<1>4. step' = "get" /\ Rule = rules[n]
  BY DEF Return, Rule
<1> HIDE DEF n
<1>5. ResultsInv'
  <2>1. ASSUME NEW i \in DOMAIN results'
        PROVE  Plausible(results'[i], rules[i], input)
    BY <1>1, <1>2, <1>4 DEF IInv, ResultsInv
  <2> QED
    BY <1>1, <2>1 DEF ResultsInv
<1>6. ScannedToTheEnd'
  <2>1. ASSUME NEW i \in DOMAIN results', rules[i].type = "secret_yelp",
               results'[i].outcome = "pass", NEW l \in DOMAIN TextOf(rules[i], input)
        PROVE  Cleared(rules[i], input, l) \/ <<i, l>> \in missed'
    <3>1. CASE i = n
      BY <1>1, <1>4, <2>1, <3>1 DEF n
    <3>2. CASE i # n
      BY Zenon, <1>1, <1>2, <2>1, <3>2 DEF IInv, ScannedToTheEnd, TextOf, Cleared
    <3> QED
      BY <3>1, <3>2
  <2> QED
    BY Zenon, <2>1 DEF ScannedToTheEnd, TextOf, Cleared
<1>7. InstanceInv' /\ ScanInv'
  BY <1>4 DEF InstanceInv, ScanInv
<1>8. TypeOK'
  <2>1. n <= Len(rules)
    BY <1>1, NextRule DEF More, n
  <2>2. \A i \in DOMAIN results' :
           /\ results'[i].outcome \in {"pass", "fail", "error"}
           /\ results'[i].context # <<>> =>
                 results'[i].outcome = "pass" \/ rules'[i].type \in CommandTypes
    BY <1>5 DEF ResultsInv, Plausible
  <2> QED
    BY <1>1, <1>4, <2>1, <2>2 DEF IInv, TypeOK
<1> QED
  BY <1>3, <1>5, <1>6, <1>7, <1>8 DEF IInv

LEMMA NotPassed == Error.outcome # "pass" /\ Fail.outcome # "pass"
BY DEF Error, Fail

LEMMA ErrorPlausible ==
    ASSUME NEW rule, NEW in,
           Usable(rule, in) => rule.type \notin Alone /\ rule.type = "secret_yelp" /\ rule.plugins
    PROVE  Plausible(Error, rule, in)
BY DEF Plausible, Error

LEMMA OldLog ==
    ASSUME IInv
    PROVE  /\ line \in Nat /\ line >= 1 /\ baseline \in {"none", "cut", "whole"}
           /\ \A m \in missed : m[1] \in DOMAIN rules /\ m[2] \in Nat
BY DEF IInv, TypeOK, InstanceInv

LEMMA GetStep ==
    ASSUME IInv, GetCheck
    PROVE  IInv'
<1>1. CASE Rule.type \in Types
  <2>1. /\ check' = New(Rule.type) /\ step' = "init" /\ More
        /\ UNCHANGED <<rules, input, results, baseline, line, missed>>
    BY <1>1 DEF GetCheck, Get, scanVars
  <2>2. InputInv' /\ ResultsInv' /\ ScannedToTheEnd'
    BY <2>1, GoOn
  <2>3. TypeOK'
    BY <1>1, <2>1, NewInstance DEF IInv, TypeOK
  <2>4. InstanceInv' /\ ScanInv'
    BY <1>1, <2>1, OldLog DEF InstanceInv, ScanInv, More, Rule
  <2> QED
    BY <2>2, <2>3, <2>4 DEF IInv
<1>2. CASE Rule.type \notin Types
  <2>1. Plausible(Error, Rule, input)
    BY <1>2, ErrorPlausible DEF Usable
  <2> QED
    BY <1>2, <2>1, NotPassed, Returned, OldLog DEF GetCheck, scanVars
<1> QED
  BY <1>1, <1>2

LEMMA InitialiseStep ==
    ASSUME IInv, InitialiseCheck
    PROVE  IInv'
<1>1. /\ step = "init" /\ More /\ Rule.type \in Types /\ check = New(Rule.type)
      /\ line' = 1 /\ UNCHANGED <<rules, input, baseline, missed>>
  BY DEF InitialiseCheck, IInv, InstanceInv
<1>2. CASE InitOK(Rule, input)
  <2>1. /\ check' = Own(Rule) /\ UNCHANGED results
        /\ step' = IF Rule.type = "secret_yelp" /\ Rule.plugins THEN "open" ELSE "execute"
    BY <1>1, <1>2 DEF InitialiseCheck, Own
  <2>2. InputInv' /\ ResultsInv' /\ ScannedToTheEnd'
    BY <1>1, <2>1, GoOn
  <2>3. TypeOK'
    BY <1>1, <2>1, OwnInstance, NextRule DEF IInv, TypeOK
  <2>4. Rule' = Rule /\ More' = More
    BY <1>1, <2>1 DEF Rule, More
  <2>5. InstanceInv'
    BY <1>1, <1>2, <2>1, <2>4 DEF InstanceInv
  <2>6. ScanInv'
    <3>1. \A l \in DOMAIN TextOf(Rule, input) : ~(l < 1)
      BY <1>1, NextRule, TextLines
    <3> QED
      BY <1>1, <2>4, <3>1 DEF ScanInv
  <2> QED
    BY <2>2, <2>3, <2>5, <2>6 DEF IInv
<1>3. CASE ~InitOK(Rule, input)
  <2>1. Plausible(Error, Rule, input)
    BY <1>3, ErrorPlausible DEF Usable
  <2>3. Return(Error) /\ UNCHANGED check
    BY <1>3 DEF InitialiseCheck
  <2> QED
    BY <1>1, <2>1, <2>3, NotPassed, Returned, OldLog
<1> QED
  BY <1>2, <1>3

LEMMA ExecuteStep ==
    ASSUME IInv, ExecuteCheck
    PROVE  IInv'
<1>1. /\ More /\ Rule.type \in Types /\ check = Own(Rule) /\ InitOK(Rule, input)
  BY DEF ExecuteCheck, IInv, InstanceInv
<1>2. check.type = Rule.type
  BY <1>1, NextRule, OwnInstance
<1>3. Rule.type \in Alone
  BY <1>1, <1>2 DEF ExecuteCheck, Alone
<1>4. Plausible(Execute(check, input), Rule, input)
  BY <1>1, <1>2, <1>3, ExecuteOutcome DEF Plausible, Usable
<1>5. Return(Execute(check, input)) /\ UNCHANGED <<rules, input, check, baseline, line, missed>>
  BY DEF ExecuteCheck, scanVars
<1> QED
  BY <1>1, <1>3, <1>4, <1>5, Returned, OldLog DEF Alone

LEMMA CommandStep ==
    ASSUME IInv, RunCommand
    PROVE  IInv'
<1>1. /\ More /\ Rule.type \in Types /\ check = Own(Rule) /\ InitOK(Rule, input)
  BY DEF RunCommand, IInv, InstanceInv
<1>2. Rule.type \in CommandTypes
  BY <1>1, NextRule, OwnInstance DEF RunCommand
<1>3. \E r : Return(r) /\ r.outcome \in {"pass", "fail"}
  <2>1. CASE Applies(check, input)
    <3> PICK outcome \in {Pass, Fail}, output \in {<<>>, <<"output">>} :
               Return([outcome EXCEPT !.context = output])
      BY <2>1 DEF RunCommand
    <3>1. [outcome EXCEPT !.context = output].outcome \in {"pass", "fail"}
      BY DEF Pass, Fail
    <3> QED
      BY <3>1
  <2>2. CASE ~Applies(check, input)
    BY <2>2 DEF RunCommand, Pass
  <2> QED
    BY <2>1, <2>2
<1>4. PICK r : Return(r) /\ r.outcome \in {"pass", "fail"}
  BY <1>3
<1>5. Plausible(r, Rule, input) /\ Rule.type # "secret_yelp"
  BY <1>1, <1>2, <1>4 DEF Plausible, Usable, Alone, CommandTypes
<1>6. UNCHANGED <<rules, input, check, baseline, line, missed>>
  BY DEF RunCommand, scanVars
<1> QED
  BY <1>1, <1>4, <1>5, <1>6, Returned, OldLog

(* Writing the baseline can fail, which is not the outcome of a scan. *)
LEMMA BaselineStep ==
    ASSUME IInv, OpenBaseline \/ WriteBaseline
    PROVE  IInv'
<1>1. /\ More /\ Rule.type = "secret_yelp" /\ Rule.plugins
      /\ step \in {"open", "write"} /\ line = 1
      /\ check = Own(Rule) /\ InitOK(Rule, input) /\ Rule.type \in Types
      /\ UNCHANGED <<rules, input, check, line, missed>>
  BY DEF OpenBaseline, WriteBaseline, IInv, InstanceInv
<1>2. CASE Return(Error) /\ UNCHANGED baseline
  <2>1. Plausible(Error, Rule, input)
    BY <1>1, ErrorPlausible DEF Alone
  <2> QED
    BY <1>1, <1>2, <2>1, NotPassed, Returned, OldLog
<1>3. CASE /\ baseline' \in {"cut", "whole"} /\ step' \in {"write", "execute"}
           /\ UNCHANGED results
  <2>1. InputInv' /\ ResultsInv' /\ ScannedToTheEnd'
    BY <1>1, <1>3, GoOn
  <2>2. TypeOK'
    BY <1>1, <1>3 DEF IInv, TypeOK
  <2>3. Rule' = Rule /\ More' = More
    BY <1>1, <1>3 DEF Rule, More
  <2>4. InstanceInv'
    BY <1>1, <1>3, <2>3 DEF InstanceInv
  <2>5. ScanInv'
    <3>1. \A l \in DOMAIN TextOf(Rule, input) : ~(l < 1)
      BY <1>1, NextRule, TextLines
    <3> QED
      BY <1>1, <2>3, <3>1 DEF ScanInv
  <2> QED
    BY <2>1, <2>2, <2>4, <2>5 DEF IInv
<1> QED
  BY <1>2, <1>3 DEF OpenBaseline, WriteBaseline

LEMMA OtherStep ==
    ASSUME IInv, OtherOpens \/ OtherWrites
    PROVE  IInv'
<1>1. /\ baseline' \in {"cut", "whole"}
      /\ UNCHANGED <<rules, input, check, step, results, line, missed>>
  BY DEF OtherOpens, OtherWrites
<1>2. InputInv' /\ ResultsInv' /\ ScannedToTheEnd'
  BY <1>1, GoOn
<1>3. TypeOK'
  BY <1>1 DEF IInv, TypeOK
<1>4. InstanceInv' /\ ScanInv'
  BY <1>1 DEF IInv, InstanceInv, ScanInv, Rule, More
<1> QED
  BY <1>2, <1>3, <1>4 DEF IInv

(* The scanner comes past a line only if it is blank or excluded, nothing  *)
(* was found in it, or its scan failed.                                    *)
LEMMA ScanStep ==
    ASSUME IInv, ScanLine
    PROVE  IInv'
<1>1. /\ More /\ Rule.type \in Types /\ check = Own(Rule) /\ InitOK(Rule, input)
      /\ step = "execute" /\ check.type = "secret_yelp"
      /\ UNCHANGED <<rules, input, check, baseline>>
  BY DEF ScanLine, IInv, InstanceInv
<1>2. Rule.type = "secret_yelp" /\ WellTyped(Rule)
  BY <1>1, NextRule, OwnInstance
<1>3. /\ Lines = TextOf(Rule, input)
      /\ check.exclude = Rule.exclude
  <2>1. check = YelpInit(New(Rule.type), Rule)
    BY <1>1, <1>2, OwnOfType
  <2>2. /\ check.scanField = IF Rule.scanField = "" THEN "content" ELSE Rule.scanField
        /\ check.exclude = Rule.exclude
    BY Zenon, <2>1 DEF YelpInit, New
  <2> QED
    BY Zenon, <2>2 DEF Lines, TextOf
<1> DEFINE text == TextOf(Rule, input)
           n == Len(results) + 1
<1>4. DOMAIN text = 1..Len(text) /\ Len(text) \in Nat /\ line \in Nat /\ line >= 1
  BY <1>2, TextLines, OldLog
<1>5. \A l \in DOMAIN text : l < line => Cleared(Rule, input, l) \/ <<n, l>> \in missed
  BY <1>1, <1>2 DEF IInv, ScanInv
<1>6. n \in DOMAIN rules
  BY <1>1, NextRule
<1>7. CASE Scanned /\ Return(Pass) /\ UNCHANGED <<line, missed>>
  <2>1. ASSUME NEW l \in DOMAIN text
        PROVE  Cleared(Rule, input, l) \/ <<n, l>> \in missed
    <3>1. CASE l < line
      BY <1>5, <3>1
    <3>2. CASE ~(l < line)
      <4>1. line \in DOMAIN text /\ line \in 1..l
        BY <1>4, <3>2
      <4>2. TooLong \in text[line]
        BY <1>3, <1>7, <4>1 DEF Scanned
      <4> QED
        BY <4>1, <4>2 DEF Cleared
    <3> QED
      BY <3>1, <3>2
  <2>2. Plausible(Pass, Rule, input)
    BY <1>1, <1>2 DEF Plausible, Usable, Alone, Pass
  <2> QED
    BY <1>1, <1>7, <2>1, <2>2, Returned, OldLog
<1>8. ASSUME line' = line + 1, UNCHANGED <<step, results>>, missed \subseteq missed',
             missed' \subseteq missed \cup {<<n, line>>},
             Cleared(Rule, input, line) \/ <<n, line>> \in missed'
      PROVE  IInv'
  <2>1. InputInv' /\ ResultsInv' /\ ScannedToTheEnd'
    BY <1>1, <1>8, GoOn
  <2>2. \A m \in missed' : m[1] \in DOMAIN rules /\ m[2] \in Nat
    BY <1>4, <1>6, <1>8, OldLog
  <2>3. TypeOK'
    BY <1>1, <1>4, <1>8, <2>2 DEF IInv, TypeOK
  <2>4. Rule' = Rule /\ More' = More
    BY <1>1, <1>8 DEF Rule, More
  <2>5. InstanceInv'
    BY <1>1, <1>4, <1>8, <2>4 DEF InstanceInv
  <2>6. ScanInv'
    <3>1. \A l \in DOMAIN text : l < line + 1 => l < line \/ l = line
      BY <1>4
    <3> QED
      BY <1>1, <1>5, <1>8, <2>4, <3>1 DEF ScanInv
  <2> QED
    BY <2>1, <2>3, <2>5, <2>6 DEF IInv
<1>9. CASE ~Scanned /\ Excluded(line) /\ line' = line + 1 /\ UNCHANGED <<step, results, missed>>
  <2>1. Cleared(Rule, input, line)
    BY <1>3, <1>9 DEF Excluded, Cleared
  <2> QED
    BY <1>8, <1>9, <2>1
<1>10. CASE ScanFails
  BY <1>8, <1>10 DEF ScanFails
<1>11. CASE ScanEnds
  <2>1. CASE Lines[line] \cap Detected # {}
    <3>1. Plausible(Fail, Rule, input)
      BY <1>1, <1>2 DEF Plausible, Usable, Alone, Fail
    <3> QED
      BY <1>1, <1>11, <2>1, <3>1, NotPassed, Returned, OldLog DEF ScanEnds
  <2>2. CASE Lines[line] \cap Detected = {}
    <3>1. Cleared(Rule, input, line)
      BY <1>3, <2>2 DEF Cleared
    <3> QED
      BY <1>8, <1>11, <2>2, <3>1 DEF ScanEnds
  <2> QED
    BY <2>1, <2>2
<1> QED
  BY <1>7, <1>9, <1>10, <1>11 DEF ScanLine

LEMMA StepInv == IInv /\ [Next]_vars => IInv'
<1> SUFFICES ASSUME IInv, [Next]_vars PROVE IInv'
  OBVIOUS
<1>1. CASE UNCHANGED vars
  <2>1. InputInv' /\ ResultsInv' /\ ScannedToTheEnd'
    BY <1>1, GoOn DEF vars, scanVars
  <2>2. TypeOK' /\ InstanceInv' /\ ScanInv'
    BY <1>1 DEF vars, scanVars, IInv, TypeOK, InstanceInv, ScanInv, Rule, More
  <2> QED
    BY <2>1, <2>2 DEF IInv
<1> QED
  BY <1>1, GetStep, InitialiseStep, ExecuteStep, CommandStep, BaselineStep, OtherStep, ScanStep
     DEF Next

LEMMA InitInv == Init => IInv
<1> SUFFICES ASSUME Init PROVE IInv
  OBVIOUS
<1>1. InputInv
  BY Zenon, ScenariosAssumption DEF Init, InputInv
<1>2. IsList(results) /\ DOMAIN results = {} /\ Len(results) = 0
  <2>1. results = <<>>
    BY DEF Init
  <2>2. IsList(<<>>)
    <3>1. <<>> \in Seq({})
      OBVIOUS
    <3> QED
      BY <3>1, ListOf
  <2> QED
    BY <2>1, <2>2
<1>3. Len(rules) \in Nat
  BY <1>1 DEF InputInv, AllWellTyped, IsList
<1> QED
  BY <1>1, <1>2, <1>3 DEF Init, IInv, TypeOK, InstanceInv, ResultsInv, ScanInv, ScannedToTheEnd

-----------------------------------------------------------------------------
(* What follows from the invariant, whatever the steps are.                *)

LEMMA IndependentOf == IInv => Independent
BY DEF IInv, ResultsInv, Plausible, Usable, Alone, Independent, Own

LEMMA MistakesOf == IInv => MistakesErr
<1> SUFFICES ASSUME IInv, NEW i \in DOMAIN results,
                    \/ /\ rules[i].type \in {"secret_regex", "cmd_validate"}
                       /\ rules[i].patterns # Absent
                       /\ \E r \in ToSet(rules[i].patterns \o rules[i].allow) : Malformed \in r
                    \/ /\ rules[i].type \in {"secret_regex", "dir_acl", "repo_access"}
                       /\ rules[i].patterns = Absent
                    \/ rules[i].type \in CommandTypes /\ rules[i].command = Absent
             PROVE  results[i] = Error
  BY DEF MistakesErr
<1>1. Plausible(results[i], rules[i], input)
  BY DEF IInv, ResultsInv
<1>2. ~InitOK(rules[i], input)
  <2>1. CASE /\ rules[i].type \in {"secret_regex", "cmd_validate"}
             /\ rules[i].patterns # Absent
             /\ \E r \in ToSet(rules[i].patterns \o rules[i].allow) : Malformed \in r
    <3>1. WellTyped(rules[i])
      BY NextRule DEF IInv, InputInv, AllWellTyped, TypeOK, ResultsInv, IsList
    <3>2. rules[i].patterns \in Seq(Regex) /\ rules[i].allow \in Seq(Regex)
      BY Zenon, <2>1, <3>1 DEF WellTyped, Params, Maybe, OfPaths
    <3>3. ToSet(rules[i].patterns \o rules[i].allow)
             \subseteq ToSet(rules[i].patterns) \cup ToSet(rules[i].allow)
      <4> DEFINE s == rules[i].patterns
                 t == rules[i].allow
      <4>1. s \in Seq(Regex) /\ t \in Seq(Regex)
        BY <3>2
      <4> HIDE DEF s, t
      <4>2. ASSUME NEW k \in DOMAIN (s \o t)
            PROVE  (s \o t)[k] \in ToSet(s) \cup ToSet(t)
        <5>1. \/ k \in DOMAIN s /\ (s \o t)[k] = s[k]
              \/ k - Len(s) \in DOMAIN t /\ (s \o t)[k] = t[k - Len(s)]
          BY <4>1
        <5> QED
          BY <5>1 DEF ToSet
      <4>3. ToSet(s \o t) \subseteq ToSet(s) \cup ToSet(t)
        BY <4>2 DEF ToSet
      <4> QED
        BY <4>3 DEF s, t
    <3>4. ~Compiles(rules[i].patterns) \/ ~Compiles(rules[i].allow)
      BY <2>1, <3>3 DEF Compiles
    <3> QED
      BY <2>1, <3>4 DEF InitOK, OfPaths, CommandTypes
  <2>2. CASE /\ rules[i].type \in {"secret_regex", "dir_acl", "repo_access"}
             /\ rules[i].patterns = Absent
    BY <2>2 DEF InitOK, OfPaths, CommandTypes
  <2>3. CASE rules[i].type \in CommandTypes /\ rules[i].command = Absent
    BY <2>3 DEF InitOK, OfPaths, CommandTypes
  <2> QED
    BY <2>1, <2>2, <2>3
<1> QED
  BY <1>1, <1>2 DEF Plausible, Usable

LEMMA SecretsOf == IInv => SecretsFound
<1> SUFFICES ASSUME IInv, NEW i \in DOMAIN results,
                    rules[i].type = "secret_regex", rules[i].scanField \in {"", "content"},
                    NEW p \in Listed(rules[i]),
                    NEW w \in p \cap UNION ToSet(input.texts[IF input.tool = "Edit"
                                                           THEN "new_string" ELSE "content"]),
                    \A a \in ToSet(rules[i].allow) : w \notin a
             PROVE  results[i].outcome # "pass"
  BY Zenon DEF SecretsFound
<1> DEFINE s == rules[i]
           own == Own(s)
<1>1. Plausible(results[i], s, input)
  BY Zenon DEF IInv, ResultsInv
<1>2. CASE ~Usable(s, input)
  <2>1. results[i] = Error
    BY Zenon, <1>1, <1>2 DEF Plausible
  <2> QED
    BY Zenon, <2>1, NotPassed
<1>3. CASE Usable(s, input)
  <2>1. results[i] = Execute(own, input)
    BY Zenon, <1>1, <1>3 DEF Plausible, Alone, Types, CommandTypes
  <2>2. own = SecretInit(New("secret_regex"), s)
    BY Zenon, OwnOfType
  <2>3. /\ own.type = "secret_regex"
        /\ own.scanField = "content"
        /\ own.patterns = Compiled(s.patterns)
        /\ own.allow = ToSet(s.allow)
    <3>1. Or(s.scanField, "", "content") = "content"
      BY Zenon DEF Or
    <3> HIDE DEF s, own
    <3> QED
      BY Zenon, <2>2, <3>1 DEF SecretInit, New
  <2>4. s.patterns # Absent /\ p \in own.patterns
    BY Zenon, <2>3 DEF Listed, Compiled
  <2>5. Execute(own, input) = SecretExecute(own, input)
    BY Zenon, <2>3 DEF Execute
  <2>6. w \in UNION ToSet(ExtractContent(input, own.scanField))
    BY Zenon, <2>3 DEF ExtractContent
  <2>7. SecretExecute(own, input) = Fail
    BY Zenon, <2>3, <2>4, <2>6 DEF SecretExecute, IsAllowed, PassIf
  <2> QED
    <3>1. results[i] = Fail
      BY Zenon, <2>1, <2>5, <2>7
    <3> QED
      BY Zenon, <3>1, NotPassed
<1> QED
  BY Zenon, <1>2, <1>3

LEMMA RepoOf == IInv => RepoByIdentity
<1> SUFFICES ASSUME IInv, NEW i \in DOMAIN results, rules[i].type = "repo_access",
                    InitOK(rules[i], input), input.origin # Absent, input.origin.port = Absent,
                    input.origin.user \/ input.origin.scheme \in {"https", "http"}
             PROVE  LET u == input.origin
                        plain == [scheme |-> "https", user |-> FALSE, port |-> Absent,
                                  host |-> u.host, path |-> u.path]
                        r == InitCheck(New("repo_access"), rules[i])
                    IN  results[i] = RepoExecute(r, [input EXCEPT !.origin = plain])
  BY DEF RepoByIdentity
<1> DEFINE u == input.origin
           plain == [scheme |-> "https", user |-> FALSE, port |-> Absent,
                     host |-> u.host, path |-> u.path]
           other == [input EXCEPT !.origin = plain]
           r == Own(rules[i])
<1>1. u \in Origin /\ input \in Input
  BY DEF IInv, InputInv, Input, Maybe
<1>2. plain \in Origin
  BY <1>1 DEF Origin, Maybe
<1>3. plain # Absent
  BY <1>2, AbsentAssumption
<1>4. other.origin = plain /\ other.cwd = input.cwd
  BY <1>1 DEF Input
<1>5. NormalizeRemoteURL(u) = <<u.host>> \o u.path
  <2>1. CASE u.user
    BY <2>1 DEF NormalizeRemoteURL
  <2>2. CASE ~u.user /\ u.scheme \in {"https", "http"}
    BY Zenon, <2>2 DEF NormalizeRemoteURL
  <2> QED
    BY <1>1, <2>1, <2>2 DEF Origin
<1>6. NormalizeRemoteURL(plain) = <<u.host>> \o u.path
  BY DEF NormalizeRemoteURL
<1>7. DetectRepo(r, other) = DetectRepo(r, input)
  BY <1>3, <1>4, <1>5, <1>6 DEF DetectRepo
<1>8. RepoExecute(r, other) = RepoExecute(r, input)
  BY <1>7 DEF RepoExecute
<1>9. results[i] = Execute(r, input)
  BY DEF IInv, ResultsInv, Plausible, Usable, Alone, Types, CommandTypes
<1>10. r.type = "repo_access"
  <2>1. r = RepoInit(New("repo_access"), rules[i])
    BY OwnOfType
  <2> HIDE DEF r
  <2> QED
    BY <2>1 DEF RepoInit, New
<1>11. Execute(r, input) = RepoExecute(r, input)
  BY <1>10 DEF Execute
<1> QED
  BY <1>8, <1>9, <1>11 DEF Own

-----------------------------------------------------------------------------
(* The file a path leads to: filepath.Clean against Reached. *)

Names == STRING \cup {""}

(* What Clean returns: the root and names. *)
Cleaned ==
    {s \in Seq(Names) : s # <<>> /\ s[1] = Root[1] /\ \A i \in 2..Len(s) : s[i] \notin Dots \cup {".."}}

(* s without its last parts, but never without the root. *)
Pop(s, ups) == SubSeq(s, 1, IF ups < Len(s) THEN Len(s) - ups ELSE 1)

LEMMA RootClean == Root \in Cleaned
<1>1. PICK e \in Names : Root = <<e>>
  BY Zenon DEF Root, Names
<1>2. PICK s : s = <<e>>
  OBVIOUS
<1>3. s \in Seq(Names) /\ Len(s) = 1 /\ s[1] = e
  BY <1>2
<1>4. Root = s
  BY <1>1, <1>2
<1>5. 2..1 = {}
  OBVIOUS
<1> QED
  <2>1. s # <<>> /\ s[1] = Root[1] /\ \A i \in 2..Len(s) : s[i] \notin Dots \cup {".."}
    BY <1>3, <1>4, <1>5
  <2>2. s \in Cleaned
    BY <1>3, <2>1 DEF Cleaned
  <2> QED
    BY <1>4, <2>2

LEMMA EnterCases ==
    ASSUME NEW s, NEW part
    PROVE  /\ part \in Dots => Enter(s, part) = s
           /\ part = ".." => Enter(s, part) = IF Len(s) > 1 THEN Front(s) ELSE s
           /\ part \notin Dots \cup {".."} => Enter(s, part) = Append(s, part)
BY Zenon DEF Enter, Dots

LEMMA FurtherCases ==
    ASSUME NEW left, NEW part
    PROVE  /\ part \in Dots => Further(left, part) = left
           /\ part = ".." => Further(left, part) = [ups \in Nat |-> left[ups + 1]]
           /\ part \notin Dots \cup {".."} =>
                 Further(left, part) = [ups \in Nat |-> IF ups > 0 THEN left[ups - 1]
                                                        ELSE Append(left[0], part)]
BY Zenon DEF Further, Dots

LEMMA EnterClean ==
    ASSUME NEW s \in Cleaned, NEW part \in Names
    PROVE  Enter(s, part) \in Cleaned
<1>1. /\ s \in Seq(Names) /\ Len(s) \in Nat /\ Len(s) >= 1 /\ s[1] = Root[1]
      /\ \A i \in 2..Len(s) : s[i] \notin Dots \cup {".."}
  BY DEF Cleaned
<1>2. CASE part \in Dots
  BY <1>2, EnterCases
<1>3. CASE part = ".." /\ Len(s) > 1
  <2>1. PICK t : t = Front(s)
    OBVIOUS
  <2>2. t \in Seq(Names) /\ Len(t) = Len(s) - 1 /\ \A i \in 1..Len(t) : t[i] = s[i]
    BY <1>1, <1>3, <2>1 DEF Front
  <2>3. t \in Cleaned
    BY <1>1, <1>3, <2>2 DEF Cleaned
  <2> QED
    BY <1>3, <2>1, <2>3, EnterCases
<1>4. CASE part = ".." /\ ~(Len(s) > 1)
  BY <1>4, EnterCases
<1>5. CASE part \notin Dots \cup {".."}
  <2>1. PICK t : t = Append(s, part)
    OBVIOUS
  <2>2. /\ t \in Seq(Names) /\ Len(t) = Len(s) + 1 /\ t[Len(s) + 1] = part
        /\ \A i \in 1..Len(s) : t[i] = s[i]
    BY <1>1, <2>1
  <2>3. t \in Cleaned
    BY <1>1, <1>5, <2>2 DEF Cleaned
  <2> QED
    BY <1>5, <2>1, <2>3, EnterCases
<1> QED
  BY <1>2, <1>3, <1>4, <1>5

LEMMA PrefixOfPrefix ==
    ASSUME NEW s \in Seq(Names), NEW n \in 0..Len(s), NEW m \in 0..n
    PROVE  SubSeq(SubSeq(s, 1, n), 1, m) = SubSeq(s, 1, m)
<1>1. PICK t, x, y : t = SubSeq(s, 1, n) /\ x = SubSeq(t, 1, m) /\ y = SubSeq(s, 1, m)
  OBVIOUS
<1>2. t \in Seq(Names) /\ Len(t) = n /\ \A i \in 1..n : t[i] = s[i]
  BY <1>1, SubSeqProperties
<1>3. x \in Seq(Names) /\ Len(x) = m /\ \A i \in 1..m : x[i] = t[i]
  BY <1>1, <1>2, SubSeqProperties
<1>4. y \in Seq(Names) /\ Len(y) = m /\ \A i \in 1..m : y[i] = s[i]
  BY <1>1, SubSeqProperties
<1>5. \A i \in 1..m : x[i] = y[i]
  BY <1>2, <1>3, <1>4
<1>6. x = y
  BY <1>3, <1>4, <1>5
<1> QED
  BY <1>1, <1>6

(* A part that is entered, and then so many ".." behind it. *)
LEMMA PopEntered ==
    ASSUME NEW s \in Cleaned, NEW part \in Names, NEW ups \in Nat
    PROVE  /\ part \in Dots => Pop(Enter(s, part), ups) = Pop(s, ups)
           /\ part = ".." => Pop(Enter(s, part), ups) = Pop(s, ups + 1)
           /\ part \notin Dots \cup {".."} =>
                 Pop(Enter(s, part), ups) = IF ups > 0 THEN Pop(s, ups - 1) ELSE Append(Pop(s, 0), part)
<1>1. s \in Seq(Names) /\ Len(s) \in Nat /\ Len(s) >= 1
  BY DEF Cleaned
<1>2. ASSUME part \in Dots PROVE Pop(Enter(s, part), ups) = Pop(s, ups)
  BY <1>2, EnterCases
<1>3. ASSUME part = ".." PROVE Pop(Enter(s, part), ups) = Pop(s, ups + 1)
  <2>1. CASE Len(s) > 1
    <3>0. Len(s) - 1 \in 0..Len(s)
      BY <1>1
    <3>1. PICK n \in 0..Len(s) : n = Len(s) - 1
      BY <3>0
    <3>2. PICK t : t = SubSeq(s, 1, n)
      OBVIOUS
    <3>3. Enter(s, part) = t
      BY <1>3, <2>1, <3>1, <3>2, EnterCases DEF Front
    <3>4. Len(t) = n
      BY <1>1, <3>1, <3>2
    <3>8. (IF ups < n THEN n - ups ELSE 1) \in 0..n
      BY <1>1, <2>1, <3>1
    <3>5. PICK m \in 0..n : m = IF ups < n THEN n - ups ELSE 1
      BY <3>8
    <3>6. m = IF ups + 1 < Len(s) THEN Len(s) - (ups + 1) ELSE 1
      BY <1>1, <3>1, <3>5
    <3>7. SubSeq(t, 1, m) = SubSeq(s, 1, m)
      BY <1>1, <3>2, PrefixOfPrefix
    <3> QED
      BY <3>3, <3>4, <3>5, <3>6, <3>7 DEF Pop
  <2>2. CASE ~(Len(s) > 1)
    <3>1. Enter(s, part) = s
      BY <1>3, <2>2, EnterCases
    <3>2. (IF ups < Len(s) THEN Len(s) - ups ELSE 1) = 1
      BY <1>1, <2>2
    <3>3. (IF ups + 1 < Len(s) THEN Len(s) - (ups + 1) ELSE 1) = 1
      BY <1>1, <2>2
    <3> QED
      BY <3>1, <3>2, <3>3 DEF Pop
  <2> QED
    BY <2>1, <2>2
<1>4. ASSUME part \notin Dots \cup {".."}
      PROVE  Pop(Enter(s, part), ups) = IF ups > 0 THEN Pop(s, ups - 1) ELSE Append(Pop(s, 0), part)
  <2>1. PICK t : t = Append(s, part)
    OBVIOUS
  <2>2. Enter(s, part) = t /\ t \in Seq(Names) /\ Len(t) = Len(s) + 1
    BY <1>1, <1>4, <2>1, EnterCases
  <2>3. SubSeq(t, 1, Len(t)) = t /\ SubSeq(s, 1, Len(s)) = s
    BY <1>1, <2>2
  <2>4. CASE ups = 0
    <3>1. Pop(t, ups) = t /\ Pop(s, 0) = s
      BY <1>1, <2>2, <2>3, <2>4 DEF Pop
    <3> QED
      BY <2>1, <2>2, <2>4, <3>1
  <2>5. CASE ups > 0
    <3>1. PICK n \in 0..Len(t) : n = Len(s)
      BY <1>1, <2>2
    <3>2. SubSeq(t, 1, n) = s
      BY <1>1, <2>1, <3>1
    <3>3. PICK m \in 0..n : m = IF ups < Len(t) THEN Len(t) - ups ELSE 1
      BY <1>1, <2>2, <2>5, <3>1
    <3>4. m = IF ups - 1 < Len(s) THEN Len(s) - (ups - 1) ELSE 1
      BY <1>1, <2>2, <3>3
    <3>5. SubSeq(t, 1, m) = SubSeq(s, 1, m)
      BY <2>2, <3>2, PrefixOfPrefix
    <3> QED
      BY <2>2, <2>5, <3>3, <3>4, <3>5 DEF Pop
  <2> QED
    BY <2>4, <2>5
<1> QED
  BY <1>2, <1>3, <1>4

LEMMA CleanedPath ==
    ASSUME NEW s \in Cleaned
    PROVE  s \in Seq(Names) /\ Len(s) \in Nat /\ Len(s) >= 1
BY DEF Cleaned

(* The paths that Clean comes through. *)
LEMMA EnterFold ==
    ASSUME NEW n \in Nat, NEW parts \in [1..n -> Names], NEW base \in Cleaned
    PROVE  \E g \in [0..n -> Cleaned] :
              /\ g[0] = base
              /\ \A k \in 1..n : g[k] = Enter(g[k - 1], parts[k])
              /\ FoldLeft(Enter, base, parts) = g[n]
<1> DEFINE S == Cleaned
           move == [k \in 1..n |-> [x \in S |-> Enter(x, parts[k])]]
           iter == CHOOSE f : f = [s \in SUBSET (1..n) |->
               IF s = {} THEN base ELSE Enter(f[s \ {Max(s)}], parts[Max(s)])]
<1>1. DOMAIN parts = 1..n /\ \A k \in 1..n : parts[k] \in Names
  OBVIOUS
<1>2. move \in [1..n -> [S -> S]]
  BY <1>1, EnterClean
<1>3. \A k \in 1..n, x \in S : move[k][x] = Enter(x, parts[k])
  OBVIOUS
<1>4. FoldLeft(Enter, base, parts) = iter[1..n]
  BY <1>1 DEF FoldLeft, MapThenFoldSet
<1>5. base \in S
  OBVIOUS
<1> HIDE DEF S, move, iter
<1>6. PICK it \in [SUBSET (1..n) -> S] : FoldsTo(it, base, n, move)
  BY <1>2, <1>5, Folds
<1>7. \A s \in SUBSET (1..n) : s # {} => Max(s) \in 1..n /\ s \ {Max(s)} \in SUBSET (1..n)
  <2>1. \A s \in SUBSET (1..n) : s \in SUBSET (0..n)
    OBVIOUS
  <2> QED
    BY <2>1, MaxOf
<1>8. it = [s \in SUBSET (1..n) |->
               IF s = {} THEN base ELSE Enter(it[s \ {Max(s)}], parts[Max(s)])]
  BY <1>3, <1>5, <1>6, <1>7 DEF FoldsTo
<1>9. iter = [s \in SUBSET (1..n) |->
               IF s = {} THEN base ELSE Enter(iter[s \ {Max(s)}], parts[Max(s)])]
  BY <1>8 DEF iter
<1>10. iter[{}] = base
  <2>1. {} \in SUBSET (1..n)
    OBVIOUS
  <2> QED
    BY <1>5, <1>9, <2>1
<1>11. ASSUME NEW k \in 1..n, iter[1..(k - 1)] \in S
       PROVE  iter[1..k] = move[k][iter[1..(k - 1)]]
  <2>1. /\ 1..k # {} /\ 1..k \in SUBSET (1..n)
        /\ Max(1..k) = k /\ (1..k) \ {k} = 1..(k - 1)
    BY FirstOnes
  <2>2. iter[1..k] = Enter(iter[1..(k - 1)], parts[k])
    BY <1>9, <2>1
  <2> QED
    BY <1>3, <1>11, <2>2
<1>12. Moves(iter, S, n, move)
  BY <1>11 DEF Moves
<1>13. PICK g \in [0..n -> S] : History(g, base, n, move, iter[1..n])
  BY <1>2, <1>5, <1>10, <1>12, Beginnings
<1>14. \A k \in 1..n : g[k - 1] \in S /\ g[k] = Enter(g[k - 1], parts[k])
  <2>1. \A k \in 1..n : k - 1 \in 0..n
    OBVIOUS
  <2> QED
    BY <1>3, <1>13, <2>1 DEF History
<1> QED
  BY <1>4, <1>5, <1>13, <1>14 DEF S, History

LEMMA FurtherKept ==
    ASSUME NEW left \in [Nat -> Seq(Names)], NEW part \in Names
    PROVE  Further(left, part) \in [Nat -> Seq(Names)]
<1>1. CASE part \in Dots
  BY <1>1, FurtherCases
<1>2. CASE part = ".."
  <2>1. [ups \in Nat |-> left[ups + 1]] \in [Nat -> Seq(Names)]
    OBVIOUS
  <2> QED
    BY <1>2, <2>1, FurtherCases
<1>3. CASE part \notin Dots \cup {".."}
  <2>1. ASSUME NEW ups \in Nat
        PROVE  (IF ups > 0 THEN left[ups - 1] ELSE Append(left[0], part)) \in Seq(Names)
    <3>1. CASE ups > 0
      <4>1. ups - 1 \in Nat
        BY <3>1
      <4> QED
        BY <3>1, <4>1
    <3>2. CASE ~(ups > 0)
      <4>1. left[0] \in Seq(Names)
        OBVIOUS
      <4> QED
        BY <3>2, <4>1
    <3> QED
      BY <3>1, <3>2
  <2>2. [ups \in Nat |-> IF ups > 0 THEN left[ups - 1] ELSE Append(left[0], part)]
            \in [Nat -> Seq(Names)]
    BY <2>1
  <2> QED
    BY <1>3, <2>2, FurtherCases
<1> QED
  BY <1>1, <1>2, <1>3

(* What is left after each part of a path. *)
LEMMA FurtherFold ==
    ASSUME NEW n \in Nat, NEW parts \in [1..n -> Names], NEW base \in [Nat -> Seq(Names)]
    PROVE  \E g \in [0..n -> [Nat -> Seq(Names)]] :
              /\ g[0] = base
              /\ \A k \in 1..n : g[k] = Further(g[k - 1], parts[k])
              /\ FoldLeft(Further, base, parts) = g[n]
<1> DEFINE S == [Nat -> Seq(Names)]
           move == [k \in 1..n |-> [x \in S |-> Further(x, parts[k])]]
           iter == CHOOSE f : f = [s \in SUBSET (1..n) |->
               IF s = {} THEN base ELSE Further(f[s \ {Max(s)}], parts[Max(s)])]
<1>1. DOMAIN parts = 1..n /\ \A k \in 1..n : parts[k] \in Names
  OBVIOUS
<1>2. move \in [1..n -> [S -> S]]
  BY <1>1, FurtherKept
<1>3. \A k \in 1..n, x \in S : move[k][x] = Further(x, parts[k])
  OBVIOUS
<1>4. FoldLeft(Further, base, parts) = iter[1..n]
  BY <1>1 DEF FoldLeft, MapThenFoldSet
<1>5. base \in S
  OBVIOUS
<1> HIDE DEF S, move, iter
<1>6. PICK it \in [SUBSET (1..n) -> S] : FoldsTo(it, base, n, move)
  BY <1>2, <1>5, Folds
<1>7. \A s \in SUBSET (1..n) : s # {} => Max(s) \in 1..n /\ s \ {Max(s)} \in SUBSET (1..n)
  <2>1. \A s \in SUBSET (1..n) : s \in SUBSET (0..n)
    OBVIOUS
  <2> QED
    BY <2>1, MaxOf
<1>8. it = [s \in SUBSET (1..n) |->
               IF s = {} THEN base ELSE Further(it[s \ {Max(s)}], parts[Max(s)])]
  BY <1>3, <1>5, <1>6, <1>7 DEF FoldsTo
<1>9. iter = [s \in SUBSET (1..n) |->
               IF s = {} THEN base ELSE Further(iter[s \ {Max(s)}], parts[Max(s)])]
  BY <1>8 DEF iter
<1>10. iter[{}] = base
  <2>1. {} \in SUBSET (1..n)
    OBVIOUS
  <2> QED
    BY <1>5, <1>9, <2>1
<1>11. ASSUME NEW k \in 1..n, iter[1..(k - 1)] \in S
       PROVE  iter[1..k] = move[k][iter[1..(k - 1)]]
  <2>1. /\ 1..k # {} /\ 1..k \in SUBSET (1..n)
        /\ Max(1..k) = k /\ (1..k) \ {k} = 1..(k - 1)
    BY FirstOnes
  <2>2. iter[1..k] = Further(iter[1..(k - 1)], parts[k])
    BY <1>9, <2>1
  <2> QED
    BY <1>3, <1>11, <2>2
<1>12. Moves(iter, S, n, move)
  BY <1>11 DEF Moves
<1>13. PICK g \in [0..n -> S] : History(g, base, n, move, iter[1..n])
  BY <1>2, <1>5, <1>10, <1>12, Beginnings
<1>14. \A k \in 1..n : g[k - 1] \in S /\ g[k] = Further(g[k - 1], parts[k])
  <2>1. \A k \in 1..n : k - 1 \in 0..n
    OBVIOUS
  <2> QED
    BY <1>3, <1>13, <2>1 DEF History
<1> QED
  BY <1>4, <1>5, <1>13, <1>14 DEF S, History

(* What Clean returns is the file the path leads to. *)
LEMMA CleanReached ==
    ASSUME NEW path \in Seq(Names)
    PROVE  Clean(path) \in Cleaned /\ Reached(path) = Clean(path)
<1>1. PICK n \in Nat : n = Len(path) /\ path \in [1..n -> Names]
  <2>1. Len(path) \in Nat /\ path \in [1..Len(path) -> Names]
    OBVIOUS
  <2> QED
    BY Zenon, <2>1
<1>2. PICK base : base = [ups \in Nat |-> Root]
  OBVIOUS
<1>3. base \in [Nat -> Seq(Names)] /\ \A ups \in Nat : base[ups] = Root
  BY <1>2, RootClean DEF Cleaned
<1>4. path \in [1..n -> Names]
  BY <1>1
<1>5. PICK c \in [0..n -> Cleaned] :
         /\ c[0] = Root
         /\ \A k \in 1..n : c[k] = Enter(c[k - 1], path[k])
         /\ FoldLeft(Enter, Root, path) = c[n]
  BY <1>4, RootClean, ZenonT(60), EnterFold
<1>6. base \in [Nat -> Seq(Names)]
  BY <1>3
<1>7. PICK g \in [0..n -> [Nat -> Seq(Names)]] :
         /\ g[0] = base
         /\ \A k \in 1..n : g[k] = Further(g[k - 1], path[k])
         /\ FoldLeft(Further, base, path) = g[n]
  BY <1>4, <1>6, ZenonT(60), FurtherFold
<1> DEFINE T == {k \in 0..n : \A ups \in Nat : g[k][ups] = Pop(c[k], ups)}
<1>8. 0 \in T
  <2>1. Root \in Seq(Names) /\ Len(Root) = 1
    BY Zenon, RootClean DEF Root, Cleaned
  <2>2. SubSeq(Root, 1, 1) = Root
    <3>1. SubSeq(Root, 1, Len(Root)) = Root
      BY <2>1
    <3> QED
      BY <2>1, <3>1
  <2>3. \A ups \in Nat : (IF ups < 1 THEN 1 - ups ELSE 1) = 1
    OBVIOUS
  <2>4. \A ups \in Nat : Pop(Root, ups) = Root
    BY <2>1, <2>2, <2>3 DEF Pop
  <2>5. 0 \in 0..n
    OBVIOUS
  <2> QED
    BY <1>3, <1>5, <1>7, <2>4, <2>5
<1>9. ASSUME NEW k \in 1..n, k - 1 \in T PROVE k \in T
  <2>1. k \in 0..n /\ k - 1 \in 0..n /\ path[k] \in Names
    BY <1>1
  <2>2. PICK s \in Cleaned, left \in [Nat -> Seq(Names)], part \in Names :
           s = c[k - 1] /\ left = g[k - 1] /\ part = path[k]
    BY <1>5, <1>7, <2>1
  <2>3. c[k] = Enter(s, part) /\ g[k] = Further(left, part)
    BY <1>5, <1>7, <2>2
  <2>4. \A ups \in Nat : left[ups] = Pop(s, ups)
    BY <1>9, <2>2
  <2>5. ASSUME NEW ups \in Nat PROVE Further(left, part)[ups] = Pop(Enter(s, part), ups)
    <3>1. CASE part \in Dots
      <4>1. Pop(Enter(s, part), ups) = Pop(s, ups)
        BY <3>1, Zenon, PopEntered
      <4>2. Further(left, part) = left
        BY <3>1, FurtherCases
      <4> QED
        BY <2>4, <4>1, <4>2
    <3>2. CASE part = ".."
      <4>1. ups + 1 \in Nat /\ left[ups + 1] = Pop(s, ups + 1)
        BY <2>4
      <4>2. [u \in Nat |-> left[u + 1]][ups] = left[ups + 1]
        OBVIOUS
      <4>3. Further(left, part) = [u \in Nat |-> left[u + 1]]
        BY <3>2, Zenon, FurtherCases
      <4>4. Pop(Enter(s, part), ups) = Pop(s, ups + 1)
        BY <3>2, PopEntered
      <4> QED
        BY <4>1, <4>2, <4>3, <4>4
    <3>3. CASE part \notin Dots \cup {".."}
      <4>1. PICK f : f = [u \in Nat |-> IF u > 0 THEN left[u - 1] ELSE Append(left[0], part)]
        OBVIOUS
      <4>2. f[ups] = IF ups > 0 THEN left[ups - 1] ELSE Append(left[0], part)
        BY <4>1
      <4>3. left[0] = Pop(s, 0) /\ (ups > 0 => left[ups - 1] = Pop(s, ups - 1))
        BY <2>4
      <4>4. Further(left, part) = f
        BY <3>3, <4>1, Zenon DEF Further, Dots
      <4>5. Pop(Enter(s, part), ups) = IF ups > 0 THEN Pop(s, ups - 1) ELSE Append(Pop(s, 0), part)
        BY <3>3, Zenon, PopEntered
      <4> QED
        BY <4>2, <4>3, <4>4, <4>5
    <3> QED
      BY <3>1, <3>2, <3>3
  <2> QED
    BY <2>1, <2>3, <2>5
<1> HIDE DEF T
<1>10. n \in T
  <2>1. 0..n \subseteq T
    BY <1>8, <1>9, UpTo
  <2> QED
    BY <2>1
<1>11. c[n] \in Cleaned /\ g[n][0] = Pop(c[n], 0)
  BY <1>10 DEF T
<1>12. Pop(c[n], 0) = c[n]
  <2>1. PICK s \in Cleaned : s = c[n]
    BY <1>11
  <2>2. s \in Seq(Names) /\ Len(s) \in Nat /\ Len(s) >= 1
    BY CleanedPath
  <2>3. Pop(s, 0) = s
    BY <2>2 DEF Pop
  <2> QED
    BY <2>1, <2>3
<1>13. Clean(path) = c[n] /\ Reached(path) = g[n][0]
  BY <1>2, <1>5, <1>7 DEF Clean, Reached
<1> QED
  BY <1>11, <1>12, <1>13

(* A path that needs no cleaning. *)
LEMMA CleanAlready ==
    ASSUME NEW path \in Cleaned
    PROVE  Clean(path) = path
<1>1. PICK n \in Nat : n = Len(path)
  BY CleanedPath
<1>2. /\ path \in Seq(Names) /\ n >= 1
      /\ path[1] = Root[1] /\ \A i \in 2..n : path[i] \notin Dots \cup {".."}
  BY <1>1, CleanedPath DEF Cleaned
<1>3. path \in [1..n -> Names]
  BY <1>1, <1>2
<1>4. PICK c \in [0..n -> Cleaned] :
         /\ c[0] = Root
         /\ \A k \in 1..n : c[k] = Enter(c[k - 1], path[k])
         /\ FoldLeft(Enter, Root, path) = c[n]
  BY <1>3, RootClean, ZenonT(60), EnterFold
<1>5. SubSeq(path, 1, 1) = Root
  <2>1. PICK s, t : s = SubSeq(path, 1, 1) /\ t = Root
    OBVIOUS
  <2>2. s \in Seq(Names) /\ Len(s) = 1 /\ s[1] = path[1]
    BY <1>1, <1>2, <2>1, SubSeqProperties
  <2>3. t \in Seq(Names) /\ Len(t) = 1
    BY Zenon, <2>1, RootClean, CleanedPath DEF Root
  <2>4. s = t
    BY <1>2, <2>1, <2>2, <2>3
  <2> QED
    BY <2>1, <2>4
<1>6. Root[1] \in Dots
  BY DEF Root, Dots
<1> DEFINE T == {k \in 0..n : k >= 1 => c[k] = SubSeq(path, 1, k)}
<1>7. 0 \in T
  OBVIOUS
<1>8. ASSUME NEW k \in 1..n, k - 1 \in T PROVE k \in T
  <2>1. k \in 0..n /\ c[k] = Enter(c[k - 1], path[k])
    BY <1>4
  <2>2. CASE k = 1
    <3>1. c[k - 1] = Root /\ path[k] \in Dots
      BY <1>2, <1>4, <1>6, <2>2
    <3>2. Enter(Root, path[k]) = Root
      BY <3>1, EnterCases
    <3> QED
      BY <1>5, <2>1, <2>2, <3>1, <3>2
  <2>3. CASE k # 1
    <3>1. k - 1 >= 1 /\ k \in 2..n
      BY <2>3
    <3>2. PICK s : s = SubSeq(path, 1, k - 1)
      OBVIOUS
    <3>3. c[k - 1] = s /\ path[k] \notin Dots \cup {".."}
      BY <1>2, <1>8, <3>1, <3>2
    <3>4. Enter(s, path[k]) = Append(s, path[k])
      BY <3>3, EnterCases
    <3>5. Append(s, path[k]) = SubSeq(path, 1, k)
      <4>1. PICK j \in Nat : j = k - 1 /\ j + 1 = k /\ j + 1 \in 1..Len(path)
        BY <1>1, <3>1
      <4>2. SubSeq(path, 1, j + 1) = Append(SubSeq(path, 1, j), path[j + 1])
        BY <1>2, <4>1
      <4> QED
        BY <3>2, <4>1, <4>2
    <3> QED
      BY <2>1, <3>3, <3>4, <3>5
  <2> QED
    BY <2>2, <2>3
<1> HIDE DEF T
<1>9. n \in T
  <2>1. 0..n \subseteq T
    BY <1>7, <1>8, UpTo
  <2> QED
    BY <2>1
<1>10. c[n] = SubSeq(path, 1, n)
  BY <1>2, <1>9 DEF T
<1>11. SubSeq(path, 1, n) = path
  BY <1>1, <1>2
<1> QED
  BY <1>4, <1>10, <1>11 DEF Clean

-----------------------------------------------------------------------------
(* A pattern that covers a file: Covers against MatchGlob. *)

Ends(end, pattern, path) ==
    /\ end \in [0..Len(pattern) -> 0..Len(path)]
    /\ end[0] = 0 /\ end[Len(pattern)] = Len(path)
    /\ \A i \in DOMAIN pattern :
          \/ pattern[i] = "**" /\ end[i - 1] <= end[i]
          \/ /\ pattern[i] # "**" /\ end[i] = end[i - 1] + 1
             /\ Fits(pattern[i], path[end[i]])

(* Up to the first "**" part and part stand opposite each other. *)
LEMMA Straight ==
    ASSUME NEW pattern \in Seq(Names), NEW path \in Seq(Names), NEW end,
           Ends(end, pattern, path), NEW m \in 0..Len(pattern),
           \A j \in 1..m : pattern[j] # "**"
    PROVE  /\ m <= Len(path) /\ end[m] = m
           /\ \A j \in 1..m : Fits(pattern[j], path[j])
<1> DEFINE T == {j \in 0..m : end[j] = j}
<1>0. m \in Nat /\ Len(path) \in Nat /\ Len(pattern) \in Nat /\ DOMAIN pattern = 1..Len(pattern)
  OBVIOUS
<1>1. 0 \in T
  BY <1>0 DEF Ends
<1>2. \A j \in 1..m : end[j] = end[j - 1] + 1 /\ Fits(pattern[j], path[end[j]])
  <2>1. \A j \in 1..m : j \in DOMAIN pattern
    BY <1>0
  <2> QED
    BY <2>1, Zenon DEF Ends
<1>3. \A j \in 1..m : j - 1 \in T => j \in T
  BY <1>0, <1>2
<1>4. \A j \in 0..m : end[j] = j
  <2> HIDE DEF T
  <2>1. 0..m \subseteq T
    BY <1>0, <1>1, <1>3, UpTo
  <2> QED
    BY <2>1 DEF T
<1>5. m \in 0..m /\ end[m] \in 0..Len(path)
  BY <1>0 DEF Ends
<1>6. \A j \in 1..m : j \in 0..m
  OBVIOUS
<1>7. \A j \in 1..m : Fits(pattern[j], path[j])
  <2> TAKE j \in 1..m
  <2>1. end[j] = j
    BY <1>4, <1>6
  <2> QED
    BY <1>2, <2>1
<1>8. end[m] = m
  BY <1>4, <1>5
<1> QED
  BY <1>0, <1>5, <1>7, <1>8

(* A name without wildcards matches itself only. *)
LEMMA Literal ==
    ASSUME NEW glob, ~Wild(glob), NEW name, Fits(glob, name)
    PROVE  glob = name
<1>1. ASSUME <<glob, name>> \in Fitting PROVE Wild(glob)
  <2>1. PICK f \in Fitting : f = <<glob, name>>
    BY <1>1
  <2>2. f[1] = glob
    BY <2>1
  <2> QED
    BY <2>2 DEF Wild
<1> QED
  BY <1>1 DEF Fits, Wild

(* A part that is "**" and no more has nothing around it. *)
LEMMA StarAlone ==
    /\ "**" \in DOMAIN Pieces /\ Len(Pieces["**"]) = 2
    /\ Named(Pieces["**"][1]) = <<>> /\ Named(Pieces["**"][2]) = <<>>
<1>1. PICK none : none = ""
  OBVIOUS
<1>2. "**" \in DOMAIN Pieces /\ Pieces["**"] = <<none, none>>
  BY Zenon, <1>1, PiecesAssumption
<1>3. PICK around : around = Pieces["**"]
  OBVIOUS
<1>4. around = <<none, none>>
  BY <1>2, <1>3
<1>5. Len(around) = 2 /\ around[1] = none /\ around[2] = none
  BY <1>4
<1>6. Named(none) = <<>>
  BY Zenon, <1>1 DEF Named
<1> QED
  BY Zenon, <1>2, <1>3, <1>5, <1>6

(* Where the only "**" of a pattern is. *)
LEMMA TheStar ==
    ASSUME NEW pattern \in Seq(Names), NEW s \in DOMAIN pattern, Stars(pattern) = {s},
           pattern[s] = "**"
    PROVE  /\ s \in 1..Len(pattern) /\ Len(pattern) \in Nat
           /\ \A j \in 1..Len(pattern) : j # s => pattern[j] # "**"
           /\ Before(pattern) = SubSeq(pattern, 1, s - 1)
           /\ After(pattern) = SubSeq(pattern, s + 1, Len(pattern))
<1>1. (CHOOSE i \in Stars(pattern) : TRUE) = s
  OBVIOUS
<1>2. DOMAIN pattern = 1..Len(pattern) /\ Len(pattern) \in Nat
  OBVIOUS
<1>3. \A j \in 1..Len(pattern) : j # s => pattern[j] # "**"
  BY Zenon, <1>2, StarAlone DEF Stars
<1>4. PICK n : n = Len(pattern)
  OBVIOUS
<1>5. PICK before, after : before = SubSeq(pattern, 1, s - 1) /\ after = SubSeq(pattern, s + 1, n)
  OBVIOUS
<1>6. before \in Seq(Names) /\ after \in Seq(Names)
  <2>1. n \in Nat /\ s \in 1..n
    BY <1>2, <1>4
  <2>2. 1 \in 1..(n + 1) /\ s + 1 \in 1..(n + 1) /\ s - 1 \in 0..n /\ n \in s..n
    BY <2>1
  <2>3. before \in Seq(Names)
    BY <1>4, <1>5, <2>1, <2>2, SubSeqProperties
  <2>4. after \in Seq(Names)
    BY <1>4, <1>5, <2>1, <2>2, SubSeqProperties
  <2> QED
    BY <2>3, <2>4
<1>7. before \o <<>> = before /\ <<>> \o after = after
  BY <1>6
<1>8. Before(pattern) = before \o <<>>
  BY Zenon, <1>1, <1>5, StarAlone DEF Before
<1>9. After(pattern) = <<>> \o after
  BY Zenon, <1>1, <1>4, <1>5, StarAlone DEF After
<1> QED
  BY Zenon, <1>2, <1>3, <1>4, <1>5, <1>7, <1>8, <1>9

LEMMA FitsNames ==
    ASSUME NEW glob, NEW name, Fits(glob, name), name \notin Dots \cup {".."}
    PROVE  glob \notin Dots \cup {".."}
<1>1. CASE glob = name
  BY <1>1
<1>2. CASE glob \in {"*", "**"}
  BY Zenon, <1>2 DEF Dots
<1>3. CASE <<glob, name>> \in Fitting
  <2>1. PICK f \in Fitting : f = <<glob, name>>
    BY <1>3
  <2>2. f[1] = glob
    BY <2>1
  <2> QED
    BY Zenon, <2>2, FittingAssumption DEF Dots
<1> QED
  BY <1>1, <1>2, <1>3 DEF Fits

(* What a pattern with one "**" says of a file it covers. *)
LEMMA AroundStar ==
    ASSUME NEW pattern \in Seq(Names), NEW path \in Seq(Names), NEW s \in DOMAIN pattern,
           Stars(pattern) = {s}, pattern[s] = "**", Plain(pattern), Covers(pattern, path)
    PROVE  /\ s - 1 <= Len(path) /\ \A j \in 1..(s - 1) : pattern[j] = path[j]
           /\ Len(pattern) = s \/ /\ Len(pattern) = s + 1
                                  /\ s <= Len(path)
                                  /\ Fits(pattern[s + 1], path[Len(path)])
<1>1. /\ s \in 1..Len(pattern) /\ Len(pattern) \in Nat
      /\ \A j \in 1..Len(pattern) : j # s => pattern[j] # "**"
  BY TheStar
<1>2. PICK end : Ends(end, pattern, path)
  BY Zenon DEF Covers, Ends
<1>3. PICK m \in 0..Len(pattern) : m = s - 1
  <2>1. s - 1 \in 0..Len(pattern)
    BY <1>1
  <2> QED
    BY <2>1
<1>4. \A j \in 1..m : pattern[j] # "**"
  <2> TAKE j \in 1..m
  <2>1. s \in 1..Len(pattern) /\ Len(pattern) \in Nat
    BY <1>1
  <2>2. PICK n : n = Len(pattern)
    OBVIOUS
  <2>3. j \in 1..n /\ j # s
    BY <1>3, <2>1, <2>2
  <2> QED
    BY <1>1, <2>2, <2>3
<1>5. m <= Len(path) /\ end[m] = m /\ \A j \in 1..m : Fits(pattern[j], path[j])
  BY <1>2, <1>4, Straight
<1>9. PICK t \in DOMAIN pattern :
        /\ Stars(pattern) = {t} /\ \A j \in 1..(t - 1) : ~Wild(pattern[j])
        /\ Len(pattern) <= t + 1
  BY Zenon DEF Plain
<1>10. (\A j \in 1..m : ~Wild(pattern[j])) /\ Len(pattern) <= s + 1
  <2>1. t = s
    BY Zenon, <1>9
  <2> QED
    BY <1>3, <1>9, <2>1
<1>11. \A j \in 1..m : pattern[j] = path[j]
  BY <1>5, <1>10, Literal
<1>14. CASE Len(pattern) = s
  BY <1>3, <1>5, <1>11, <1>14
<1>15. CASE Len(pattern) # s
  <2>1. Len(pattern) = s + 1 /\ s + 1 \in 1..Len(pattern) /\ pattern[s + 1] # "**"
    <3>1. PICK n : n = Len(pattern)
      OBVIOUS
    <3>2. n \in Nat /\ s \in 1..n /\ n # s /\ n <= s + 1
      BY <1>1, <1>10, <1>15, <3>1
    <3>3. n = s + 1 /\ s + 1 \in 1..n /\ s + 1 # s
      BY <3>2
    <3> QED
      BY <1>1, <3>1, <3>3
  <2>2. PICK k : k = s + 1
    OBVIOUS
  <2>3. DOMAIN pattern = 1..Len(pattern)
    OBVIOUS
  <2>4. k \in DOMAIN pattern /\ pattern[k] # "**" /\ s \in DOMAIN pattern /\ k - 1 = s
    BY <1>1, <2>1, <2>2, <2>3
  <2>5. end[k] = end[k - 1] + 1 /\ Fits(pattern[k], path[end[k]])
    BY <1>2, <2>4, Zenon DEF Ends
  <2>6. end[s - 1] <= end[s]
    BY <1>1, <1>2 DEF Ends
  <2>7. end[k] = Len(path)
    BY <1>2, <2>1, <2>2 DEF Ends
  <2>8. end[s] \in 0..Len(path) /\ Len(path) \in Nat
    BY <1>1, <1>2 DEF Ends
  <2>9. s <= Len(path)
    BY <1>1, <1>3, <1>5, <2>4, <2>5, <2>6, <2>7, <2>8, SMTT(60)
  <2>10. Fits(pattern[s + 1], path[Len(path)])
    BY <2>2, <2>5, <2>7
  <2> QED
    BY <1>3, <1>5, <1>11, <2>1, <2>9, <2>10
<1> QED
  BY <1>14, <1>15

(* A pattern that begins at the root needs no cleaning if it covers a file. *)
LEMMA CoveringClean ==
    ASSUME NEW pattern \in Seq(Names), NEW path \in Cleaned, Len(pattern) >= 1,
           pattern[1] = Root[1], Plain(pattern), Covers(pattern, path)
    PROVE  pattern \in Cleaned
<1>1. /\ path \in Seq(Names) /\ Len(path) \in Nat /\ Len(path) >= 1
      /\ \A i \in 2..Len(path) : path[i] \notin Dots \cup {".."}
  BY CleanedPath DEF Cleaned
<1>2. Len(pattern) \in Nat /\ DOMAIN pattern = 1..Len(pattern) /\ pattern # <<>>
  OBVIOUS
<1> SUFFICES ASSUME NEW i \in 2..Len(pattern) PROVE pattern[i] \notin Dots \cup {".."}
  BY <1>2 DEF Cleaned
<1>3. CASE Stars(pattern) = {}
  <2>1. PICK end : Ends(end, pattern, path)
    BY Zenon DEF Covers, Ends
  <2>0. Len(pattern) \in 0..Len(pattern)
    BY <1>2
  <2>2. PICK m \in 0..Len(pattern) : m = Len(pattern)
    BY <2>0
  <2>3. \A j \in 1..m : pattern[j] # "**"
    BY Zenon, <1>2, <1>3, <2>2, StarAlone DEF Stars
  <2>4. m <= Len(path) /\ \A j \in 1..m : Fits(pattern[j], path[j])
    BY <1>1, <2>1, <2>3, Straight
  <2>5. i \in 1..m /\ i \in 2..Len(path)
    BY <1>1, <1>2, <2>2, <2>4
  <2> QED
    BY <1>1, <2>4, <2>5, FitsNames
<1>4. CASE Stars(pattern) # {}
  <2>1. PICK s \in DOMAIN pattern : Stars(pattern) = {s} /\ pattern[s] = "**"
    BY Zenon, <1>4 DEF Plain
  <2>2. /\ s - 1 <= Len(path) /\ \A j \in 1..(s - 1) : pattern[j] = path[j]
        /\ Len(pattern) = s \/ /\ Len(pattern) = s + 1
                               /\ s <= Len(path)
                               /\ Fits(pattern[s + 1], path[Len(path)])
    BY <1>1, <2>1, AroundStar
  <2>3. s \in 1..Len(pattern) /\ pattern[s] = "**"
    BY <2>1, TheStar
  <2>4. s # 1
    BY Zenon, <2>3 DEF Root
  <2>5. CASE i < s
    <3>1. i \in 1..(s - 1) /\ i \in 2..Len(path)
      BY <1>1, <1>2, <2>2, <2>3, <2>5
    <3> QED
      BY <1>1, <2>2, <3>1
  <2>6. CASE i = s
    BY <2>3, <2>6 DEF Dots
  <2>7. CASE i > s
    <3>1. i = s + 1 /\ Len(path) \in 2..Len(path)
      BY <1>1, <1>2, <2>2, <2>3, <2>4, <2>7
    <3>2. Fits(pattern[i], path[Len(path)])
      BY <1>2, <2>2, <2>3, <2>7, <3>1
    <3> QED
      BY <1>1, <3>1, <3>2, FitsNames
  <2> QED
    BY <1>2, <2>3, <2>5, <2>6, <2>7
<1> QED
  BY <1>3, <1>4

(* The code's matching finds every file that a plain pattern covers. *)
LEMMA CoveredMatches ==
    ASSUME NEW pattern \in Seq(Names), NEW path \in Seq(Names), Len(path) >= 1,
           Plain(pattern), Covers(pattern, path)
    PROVE  MatchGlob(pattern, path)
<1>1. Len(pattern) \in Nat /\ DOMAIN pattern = 1..Len(pattern) /\ Len(path) \in Nat
      /\ DOMAIN path = 1..Len(path)
  OBVIOUS
<1>2. CASE Stars(pattern) = {}
  <2>1. PICK end : Ends(end, pattern, path)
    BY Zenon DEF Covers, Ends
  <2>0. Len(pattern) \in 0..Len(pattern)
    BY <1>1
  <2>2. PICK m \in 0..Len(pattern) : m = Len(pattern)
    BY <2>0
  <2>3. \A j \in 1..m : pattern[j] # "**"
    BY Zenon, <1>1, <1>2, <2>2, StarAlone DEF Stars
  <2>4. end[m] = m /\ \A j \in 1..m : Fits(pattern[j], path[j])
    BY <2>1, <2>3, Straight
  <2>5. Len(pattern) = Len(path)
    BY <2>1, <2>2, <2>4 DEF Ends
  <2>6. MatchPath(pattern, path)
    BY <1>1, <2>2, <2>4, <2>5 DEF MatchPath
  <2>7. ~ \E i \in DOMAIN pattern : Stars(pattern) = {i}
    BY <1>2
  <2> QED
    BY <2>6, <2>7 DEF MatchGlob
<1>3. CASE Stars(pattern) # {}
  <2>1. PICK s \in DOMAIN pattern : Stars(pattern) = {s} /\ pattern[s] = "**"
    BY Zenon, <1>3 DEF Plain
  <2>2. /\ s - 1 <= Len(path) /\ \A j \in 1..(s - 1) : pattern[j] = path[j]
        /\ Len(pattern) = s \/ /\ Len(pattern) = s + 1
                               /\ s <= Len(path)
                               /\ Fits(pattern[s + 1], path[Len(path)])
    BY <2>1, AroundStar
  <2>3. /\ s \in 1..Len(pattern)
        /\ Before(pattern) = SubSeq(pattern, 1, s - 1)
        /\ After(pattern) = SubSeq(pattern, s + 1, Len(pattern))
    BY <2>1, TheStar
  <2>4. s - 1 \in 0..Len(pattern)
    BY <1>1, <2>3
  <2>5. PICK m \in 0..Len(pattern) : m = s - 1
    BY <2>4
  <2>6. PICK before, after : before = Before(pattern) /\ after = After(pattern)
    OBVIOUS
  <2>7. m = s - 1 /\ before = Before(pattern) /\ after = After(pattern)
    BY <2>5, <2>6
  <2>8. before \in Seq(Names) /\ Len(before) = m /\ \A j \in 1..m : before[j] = pattern[j]
    <3>1. before = SubSeq(pattern, 1, m)
      BY <2>3, <2>7
    <3> QED
      BY <3>1, SubSeqProperties
  <2>9. before = <<>> \/ HasPrefix(path, before)
    <3>1. CASE m = 0
      BY <2>8, <3>1
    <3>2. CASE m # 0
      <4>1. m \in 1..m /\ m - 1 \in 0..m /\ m <= Len(path) /\ path[m] = before[m]
        BY <2>2, <2>7, <2>8, <3>2
      <4>2. PICK k \in 0..m : k = m - 1
        BY <4>1
      <4>3. PICK a, b : a = SubSeq(path, 1, k) /\ b = SubSeq(before, 1, k)
        OBVIOUS
      <4>4. a \in Seq(Names) /\ Len(a) = k /\ \A j \in 1..k : a[j] = path[j]
        BY <1>1, <4>1, <4>2, <4>3, SubSeqProperties
      <4>5. b \in Seq(Names) /\ Len(b) = k /\ \A j \in 1..k : b[j] = before[j]
        BY <2>8, <4>2, <4>3, SubSeqProperties
      <4>6. \A j \in 1..k : a[j] = b[j]
        <5> TAKE j \in 1..k
        <5>1. j \in 1..m /\ j \in 1..(s - 1)
          BY <2>7, <4>2
        <5>2. path[j] = pattern[j] /\ before[j] = pattern[j]
          BY <2>2, <2>8, <5>1
        <5> QED
          BY <4>4, <4>5, <5>2
      <4>7. a = b
        BY <4>4, <4>5, <4>6
      <4>8. SubSeq(path, 1, Len(before) - 1) = a /\ Front(before) = b
        BY <2>8, <4>2, <4>3 DEF Front
      <4> QED
        BY <2>8, <4>1, <4>7, <4>8 DEF HasPrefix
    <3> QED
      BY <3>1, <3>2
  <2>10. after = <<>> \/ MatchPath(after, <<Base(path)>>)
    <3>1. CASE Len(pattern) = s
      <4>1. after = <<>>
        BY <1>1, <2>3, <2>7, <3>1
      <4> QED
        BY <4>1
    <3>2. CASE Len(pattern) # s
      <4>0. s + 1 \in 1..Len(pattern) /\ s + 1 = Len(pattern)
        BY <1>1, <2>2, <2>3, <3>2
      <4>1. PICK k \in 1..Len(pattern) : k = s + 1 /\ k = Len(pattern)
        BY <4>0
      <4>2. after = SubSeq(pattern, k, k)
        BY <2>3, <2>7, <4>1
      <4>3. Len(after) = 1 /\ after[1] = pattern[k]
        <5>1. k \in 1..(Len(pattern) + 1) /\ k \in k - 1..Len(pattern)
          BY <1>1, <4>1
        <5>2. Len(after) = k - k + 1 /\ \A i \in 1..(k - k + 1) : after[i] = pattern[k + i - 1]
          BY <4>2, <5>1, SubSeqProperties
        <5>3. k - k + 1 = 1 /\ 1 \in 1..1 /\ k + 1 - 1 = k
          OBVIOUS
        <5> QED
          BY <5>2, <5>3
      <4>4. Fits(pattern[k], Base(path))
        BY <2>2, <3>2, <4>1 DEF Base
      <4> QED
        BY <4>3, <4>4 DEF MatchPath
    <3> QED
      BY <3>1, <3>2
  <2> QED
    BY <2>1, <2>7, <2>9, <2>10, StarAlone, Zenon DEF MatchGlob, Empty
<1> QED
  BY <1>2, <1>3

Spelled(q) == IF q[1] = "~" /\ Home # Absent THEN Home \o Tail(q) ELSE q

LEMMA PathNames ==
    ASSUME NEW path \in Path
    PROVE  path \in Seq(Names) /\ Len(path) \in Nat /\ Len(path) >= 1
<1>1. path \in Seq(STRING) /\ path # <<>>
  BY DEF Path
<1>2. STRING \subseteq Names
  BY Zenon DEF Names
<1>3. path \in Seq(Names)
  <2>1. PICK n \in Nat : n = Len(path) /\ path \in [1..n -> STRING]
    <3>1. Len(path) \in Nat /\ path \in [1..Len(path) -> STRING]
      BY <1>1
    <3> QED
      BY Zenon, <3>1
  <2>2. path \in [1..n -> Names]
    BY <1>2, <2>1
  <2> QED
    BY <2>2
<1> QED
  BY <1>1, <1>3

LEMMA Elements ==
    ASSUME NEW S, NEW list \in Seq(S)
    PROVE  \A x \in ToSet(list) : x \in S
<1>1. ToSet(list) = {list[j] : j \in 1..Len(list)}
  BY ListOf
<1>2. \A j \in 1..Len(list) : list[j] \in S
  OBVIOUS
<1> QED
  BY <1>1, <1>2

LEMMA RootPart == Root[1] = ""
BY DEF Root

(* A pattern that covers a file matches it once its "~" is expanded. *)
LEMMA ExpandedMatches ==
    ASSUME NEW q \in Path, NEW path \in Cleaned, Plain(Spelled(q)), Covers(Spelled(q), path)
    PROVE  MatchGlob(ExpandHome(q), path)
<1>1. path \in Seq(Names) /\ Len(path) >= 1
  BY CleanedPath
<1>2. CASE q[1] = "~" /\ Home # Absent
  <2>1. PICK home, rest : home = Home /\ rest = Tail(q)
    OBVIOUS
  <2>2. home \in Seq(Names) /\ Len(home) \in Nat /\ Len(home) >= 1 /\ home[1] = Root[1]
    BY Zenon, <1>2, <2>1, HomeAssumption, PathNames, RootPart
  <2>3. rest \in Seq(Names)
    BY <2>1, PathNames
  <2>4. PICK pattern : pattern = home \o rest
    OBVIOUS
  <2>5. pattern \in Seq(Names) /\ Len(pattern) >= 1 /\ pattern[1] = home[1]
    BY <2>2, <2>3, <2>4
  <2>6. Spelled(q) = pattern /\ ExpandHome(q) = Clean(pattern)
    BY <1>2, <2>1, <2>4 DEF Spelled, ExpandHome
  <2>7. pattern \in Cleaned
    BY <2>2, <2>5, <2>6, CoveringClean
  <2>8. Clean(pattern) = pattern
    BY <2>7, CleanAlready
  <2> QED
    BY <1>1, <2>5, <2>6, <2>8, CoveredMatches
<1>3. CASE ~(q[1] = "~" /\ Home # Absent)
  <2>1. Spelled(q) = q /\ ExpandHome(q) = q
    BY <1>3 DEF Spelled, ExpandHome
  <2>2. q \in Seq(Names)
    BY PathNames
  <2> QED
    BY <1>1, <2>1, <2>2, CoveredMatches
<1> QED
  BY <1>2, <1>3

(* The check looks at the file the tool's path leads to. *)
LEMMA ResolveReaches ==
    ASSUME NEW cwd \in Path, NEW path \in Path
    PROVE  /\ Resolve(cwd, path) \in Cleaned
           /\ Reached(IF path[1] = "" THEN path ELSE cwd \o path) = Resolve(cwd, path)
<1>1. path \in Seq(Names) /\ cwd \in Seq(Names)
  BY PathNames
<1>2. PICK whole : whole = IF path[1] = "" THEN path ELSE cwd \o path
  OBVIOUS
<1>3. whole \in Seq(Names)
  <2>1. cwd \o path \in Seq(Names)
    BY <1>1
  <2> QED
    BY Zenon, <1>1, <1>2, <2>1
<1>4. Clean(whole) \in Cleaned /\ Reached(whole) = Clean(whole)
  BY <1>3, CleanReached
<1>5. Resolve(cwd, path) = Clean(whole)
  BY Zenon, <1>2 DEF Resolve, IsAbs
<1> QED
  BY Zenon, <1>2, <1>4, <1>5

LEMMA RuleTyped ==
    ASSUME IInv, NEW i \in DOMAIN results
    PROVE  WellTyped(rules[i])
<1>1. results \in Seq(ToSet(results)) /\ rules \in Seq(ToSet(rules)) /\ Len(results) <= Len(rules)
  BY DEF IInv, ResultsInv, InputInv, AllWellTyped, IsList, TypeOK
<1>2. /\ DOMAIN results = 1..Len(results) /\ Len(results) \in Nat
      /\ DOMAIN rules = 1..Len(rules) /\ Len(rules) \in Nat
  BY <1>1, ListOf
<1>3. i \in DOMAIN rules
  BY <1>1, <1>2
<1> QED
  BY <1>3 DEF IInv, InputInv, AllWellTyped

LEMMA DenylistOf == IInv => DenylistCovers
<1> SUFFICES ASSUME IInv, NEW i \in DOMAIN results,
                    rules[i].type = "dir_acl", rules[i].mode \in {"", "denylist"},
                    results[i].outcome = "pass",
                    NEW q \in Listed(rules[i]), NEW f \in PathFields,
                    Plain(Spelled(q)), input.paths[f] # Absent,
                    \/ rules[i].pathField = f
                    \/ f = "file_path" /\ rules[i].pathField \in {"", "auto"},
                    Covers(Spelled(q), Reached(IF input.paths[f][1] = "" THEN input.paths[f]
                                               ELSE input.cwd \o input.paths[f]))
             PROVE  FALSE
  BY Zenon DEF DenylistCovers, Spelled
<1> DEFINE d == rules[i]
           own == Own(d)
<1>1. Plausible(results[i], d, input)
  BY Zenon DEF IInv, ResultsInv
<1>2. Usable(d, input) /\ d.patterns # Absent
  <2>1. results[i] # Error
    BY Zenon, NotPassed
  <2>2. Usable(d, input)
    BY Zenon, <1>1, <2>1 DEF Plausible
  <2> QED
    BY Zenon, <2>2 DEF Usable, InitOK, OfPaths, CommandTypes
<1>3. results[i] = Execute(own, input)
  BY Zenon, <1>1, <1>2 DEF Plausible, Alone, Types, CommandTypes
<1>4. own = DirInit(New("dir_acl"), d)
  BY Zenon, OwnOfType
<1>5. WellTyped(d)
  BY Zenon, RuleTyped
<1>6. d.patterns \in Seq(Path)
  <2>1. d \in Params(Path)
    BY Zenon, <1>5 DEF WellTyped, OfPaths
  <2> HIDE DEF d
  <2> QED
    BY Zenon, <1>2, <2>1 DEF Params, Maybe
<1>7. q \in Path /\ q \in ToSet(d.patterns)
  <2>1. q \in ToSet(d.patterns)
    BY Zenon, <1>2 DEF Listed
  <2>2. \A p \in ToSet(d.patterns) : p \in Path
    <3>1. PICK list : list = d.patterns
      OBVIOUS
    <3>2. list \in Seq(Path)
      BY Zenon, <1>6, <3>1
    <3> QED
      BY Zenon, <3>1, <3>2, Elements
  <2> QED
    BY Zenon, <2>1, <2>2
<1>8. /\ own.type = "dir_acl" /\ own.mode = "denylist"
      /\ own.pathField = Or(d.pathField, "", "auto")
      /\ own.patterns = {ExpandHome(p) : p \in ToSet(d.patterns)}
  <2>1. Or(d.mode, "", "denylist") = "denylist"
    BY Zenon DEF Or
  <2> HIDE DEF d, own
  <2> QED
    BY Zenon, <1>4, <2>1 DEF DirInit, New
<1>9. input \in Input /\ input.paths \in [PathFields -> Maybe(Path)] /\ input.cwd \in Path
  BY Zenon DEF IInv, InputInv, Input
<1>10. PICK path : path = input.paths[f]
  OBVIOUS
<1>11. path \in Path /\ path # Absent
  BY Zenon, <1>9, <1>10 DEF Maybe
<1>12. ExtractPath(own, input) = path
  <2>1. CASE d.pathField \notin {"", "auto"}
    <3>1. own.pathField = f
      BY Zenon, <1>8, <2>1 DEF Or
    <3> QED
      BY Zenon, <1>8, <1>10, <2>1, <3>1 DEF ExtractPath, Or
  <2>2. CASE d.pathField \in {"", "auto"}
    <3>1. f = "file_path"
      BY Zenon, <2>2 DEF PathFields
    <3>2. own.pathField = "auto"
      BY Zenon, <1>8, <2>2 DEF Or
    <3> QED
      BY Zenon, <1>10, <1>11, <3>1, <3>2 DEF ExtractPath
  <2> QED
    BY Zenon, <2>1, <2>2
<1>13. PICK file : file = Resolve(input.cwd, path)
  OBVIOUS
<1>14. file \in Cleaned /\ Covers(Spelled(q), file)
  BY Zenon, <1>9, <1>10, <1>11, <1>13, ResolveReaches
<1>15. MatchGlob(ExpandHome(q), file)
  BY Zenon, <1>7, <1>14, ExpandedMatches
<1>16. Matched(own, file)
  BY Zenon, <1>7, <1>8, <1>15 DEF Matched
<1>17. DirExecute(own, input) = Fail
  BY Zenon, <1>8, <1>11, <1>12, <1>13, <1>16 DEF DirExecute, PassIf
<1>18. Execute(own, input) = DirExecute(own, input)
  BY Zenon, <1>8 DEF Execute
<1> QED
  BY Zenon, <1>3, <1>17, <1>18, NotPassed

-----------------------------------------------------------------------------

(* The invariant of the handler's loop over the checks: whose instance it  *)
(* holds, what outcomes there can be, how far a scan has come.             *)
THEOREM Invariance == Spec => []IInv
BY InitInv, StepInv, PTL DEF Spec

(* Every outcome is that of the rule's own parameters in an instance of    *)
(* its own, whatever rules of its type were initialised before it          *)
(* (registry.go Get).                                                      *)
THEOREM RulesIndependent == Spec => []Independent
BY Invariance, IndependentOf, PTL

(* A secret that an expression matches and no exception does fails the     *)
(* rule, whatever else is in the text (SecretDetect.Execute).              *)
THEOREM SecretsAreFound == Spec => []SecretsFound
BY Invariance, SecretsOf, PTL

(* A denylist fails every file that one of its plain patterns covers,      *)
(* however the tool spells the path, for paths and patterns of any depth   *)
(* (DirACL.Execute).                                                       *)
THEOREM DenylistsCover == Spec => []DenylistCovers
BY Invariance, DenylistOf, PTL

(* What detect-secrets finds on any line fails the rule, whatever became   *)
(* of the lines before it (SecretYelp.Execute).                            *)
THEOREM EveryLineScanned == Spec => []ScannedToTheEnd
<1>1. IInv => ScannedToTheEnd
  BY DEF IInv
<1> QED
  BY <1>1, Invariance, PTL

(* An expression that does not compile, wherever in the lists of a         *)
(* secret_regex or cmd_validate, and patterns or a command that a rule has *)
(* to have and has not, make its outcome an error (the Inits of both,      *)
(* dir_acl.go, repo_access.go, linter.go, cmd_check.go).                   *)
THEOREM MistakesAreErrors == Spec => []MistakesErr
BY Invariance, MistakesOf, PTL

(* An origin with a user, or over https or http, and without a port, is to *)
(* a rule what https://host/path is (normalizeRemoteURL).                  *)
THEOREM ReposByIdentity == Spec => []RepoByIdentity
BY Invariance, RepoOf, PTL
=============================================================================
