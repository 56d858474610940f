-------------------------- MODULE RuleWizardProofs --------------------------
(***************************************************************************)
(* Proofs about RuleWizard: for any answers, lists of any length and any   *)
(* inputs, a rule that the dialogue saves is one that the checks take.     *)
(***************************************************************************)
EXTENDS RuleWizard, ChecksProofs

Patterned == {"secret_regex", "cmd_validate"} \cup OfPaths

(* What has been asked is answered: a question without a usable answer is  *)
(* still to come, is one of those left.                                    *)
PatternsOf(rule) == IF rule.patterns = Absent THEN <<>> ELSE rule.patterns
Answered(rule, left) ==
    /\ rule.type \in Patterned /\ left \cap {"patterns", "paths"} = {} => PatternsOf(rule) # <<>>
    /\ rule.type = "cel" /\ "expression" \notin left => rule.expression # {}
    /\ rule.type \in CommandTypes /\ "command" \notin left => rule.command # Absent
    /\ rule.type \in {"secret_regex", "cmd_validate"} => Compiles(PatternsOf(rule))
    /\ rule.type = "cmd_validate" => Compiles(rule.allow)

(* The rule that is made, and once saved is the only one. *)
DraftInv ==
    IF draft = Absent THEN asked = <<>>
    ELSE /\ draft.type \in Types
         /\ WellTyped(draft)
         /\ asked \in Seq(ToSet(Questions(draft.type)))
         /\ Answered(draft, ToSet(asked))
         /\ rules # <<>> => rules = <<draft>> /\ asked = <<>> /\ ~Nothing

WizardInv == IInv /\ DraftInv

-----------------------------------------------------------------------------
(* The questions of each type. *)

LEMMA QuestionSets ==
    /\ ToSet(Questions("secret_regex")) = {"scanField", "patterns", "exceptions"}
    /\ ToSet(Questions("dir_acl")) = {"mode", "pathField", "within", "paths"}
    /\ ToSet(Questions("cmd_validate")) = {"patterns", "allow"}
    /\ ToSet(Questions("repo_access")) = {"mode", "detectFrom", "paths"}
    /\ ToSet(Questions("cel")) = {"expression"}
    /\ ToSet(Questions("linter")) = {"command", "extensions"}
    /\ ToSet(Questions("secret_yelp")) = {"plugins", "exclude"}
    /\ ToSet(Questions("prompt_modify")) = {"system", "prepend", "append"}
    /\ ToSet(Questions("skill_inject")) = {"text", "file"}
    /\ ToSet(Questions("cmd_check")) = {"command"}
<1>1. ASSUME NEW a PROVE ToSet(<<a>>) = {a}
  BY DEF ToSet
<1>2. ASSUME NEW a, NEW b PROVE ToSet(<<a, b>>) = {a, b}
  <2>1. DOMAIN <<a, b>> = {1, 2}
    OBVIOUS
  <2> QED
    BY <2>1 DEF ToSet
<1>3. ASSUME NEW a, NEW b, NEW c PROVE ToSet(<<a, b, c>>) = {a, b, c}
  <2>1. DOMAIN <<a, b, c>> = {1, 2, 3}
    OBVIOUS
  <2> QED
    BY <2>1 DEF ToSet
<1>4. ASSUME NEW a, NEW b, NEW c, NEW d PROVE ToSet(<<a, b, c, d>>) = {a, b, c, d}
  <2>1. DOMAIN <<a, b, c, d>> = {1, 2, 3, 4}
    OBVIOUS
  <2> QED
    BY <2>1 DEF ToSet
<1>5. /\ Questions("secret_regex") = <<"scanField", "patterns", "exceptions">>
      /\ Questions("dir_acl") = <<"mode", "pathField", "within", "paths">>
      /\ Questions("cmd_validate") = <<"patterns", "allow">>
      /\ Questions("repo_access") = <<"mode", "detectFrom", "paths">>
  BY DEF Questions
<1>6. /\ Questions("cel") = <<"expression">>
      /\ Questions("linter") = <<"command", "extensions">>
      /\ Questions("secret_yelp") = <<"plugins", "exclude">>
      /\ Questions("prompt_modify") = <<"system", "prepend", "append">>
      /\ Questions("skill_inject") = <<"text", "file">>
      /\ Questions("cmd_check") = <<"command">>
  BY DEF Questions, OtherQuestions
<1> QED
  BY <1>1, <1>2, <1>3, <1>4, <1>5, <1>6

LEMMA QuestionsList ==
    ASSUME NEW type \in Types
    PROVE  Questions(type) \in Seq(ToSet(Questions(type)))
<1>1. ASSUME NEW a PROVE IsList(<<a>>)
  <2>1. <<a>> \in Seq({a})
    OBVIOUS
  <2> QED
    BY <2>1, ListOf
<1>2. ASSUME NEW a, NEW b PROVE IsList(<<a, b>>)
  <2>1. <<a, b>> \in Seq({a, b})
    OBVIOUS
  <2> QED
    BY <2>1, ListOf
<1>3. ASSUME NEW a, NEW b, NEW c PROVE IsList(<<a, b, c>>)
  <2>1. <<a, b, c>> \in Seq({a, b, c})
    OBVIOUS
  <2> QED
    BY <2>1, ListOf
<1>4. ASSUME NEW a, NEW b, NEW c, NEW d PROVE IsList(<<a, b, c, d>>)
  <2>1. <<a, b, c, d>> \in Seq({a, b, c, d})
    OBVIOUS
  <2> QED
    BY <2>1, ListOf
<1>5. CASE type \in {"secret_regex", "dir_acl", "cmd_validate", "repo_access"}
  <2>1. \/ Questions(type) = <<"scanField", "patterns", "exceptions">>
        \/ Questions(type) = <<"mode", "pathField", "within", "paths">>
        \/ Questions(type) = <<"patterns", "allow">>
        \/ Questions(type) = <<"mode", "detectFrom", "paths">>
    BY <1>5 DEF Questions
  <2> QED
    BY <2>1, <1>2, <1>3, <1>4 DEF IsList
<1>6. CASE type \notin {"secret_regex", "dir_acl", "cmd_validate", "repo_access"}
  <2>1. Questions(type) = OtherQuestions(type)
    BY <1>6 DEF Questions
  <2>2. \/ OtherQuestions(type) = <<"expression">>
        \/ OtherQuestions(type) = <<"command", "extensions">>
        \/ OtherQuestions(type) = <<"plugins", "exclude">>
        \/ OtherQuestions(type) = <<"system", "prepend", "append">>
        \/ OtherQuestions(type) = <<"text", "file">>
        \/ OtherQuestions(type) = <<"command">>
    BY <1>6 DEF OtherQuestions, Types, CommandTypes
  <2> QED
    BY <2>1, <2>2, <1>1, <1>2, <1>3 DEF IsList
<1> QED
  BY <1>5, <1>6

(* Which questions which types ask. *)
LEMMA QuestionOf ==
    ASSUME NEW type \in Types, NEW q \in ToSet(Questions(type))
    PROVE  /\ q = "patterns" => type \in {"secret_regex", "cmd_validate"}
           /\ q = "paths" => type \in OfPaths
           /\ q = "exceptions" => type = "secret_regex"
           /\ q = "allow" => type = "cmd_validate"
           /\ q = "expression" => type = "cel"
           /\ q = "command" => type \in CommandTypes
           /\ q \in DOMAIN Options \/
              q \in {"patterns", "paths", "exceptions", "allow", "expression", "command",
                    "extensions", "exclude", "system", "prepend", "append", "text", "file"}
<1>1. DOMAIN Options = {"scanField", "mode", "pathField", "detectFrom", "within", "plugins"}
  BY DEF Options
<1> QED
  BY <1>1, QuestionSets DEF Types, CommandTypes, OfPaths

(* What a type that looks for something has to ask. *)
LEMMA Required ==
    ASSUME NEW type \in Types
    PROVE  LET left == ToSet(Questions(type))
           IN  /\ type \in Patterned => left \cap {"patterns", "paths"} # {}
               /\ type = "cel" => "expression" \in left
               /\ type \in CommandTypes => "command" \in left
BY QuestionSets DEF Types, CommandTypes, OfPaths, Patterned

LEMMA AskedNext ==
    ASSUME NEW S, NEW list \in Seq(S), list # <<>>
    PROVE  /\ Head(list) \in ToSet(list)
           /\ Head(list) \in S
           /\ Tail(list) \in Seq(S)
           /\ ToSet(Tail(list)) \subseteq ToSet(list)
           /\ ToSet(list) \subseteq {Head(list)} \cup ToSet(Tail(list))
<1>1. Tail(list) \in Seq(S) /\ Len(Tail(list)) = Len(list) - 1 /\ Len(list) \in Nat \ {0}
  OBVIOUS
<1>2. DOMAIN list = 1..Len(list) /\ DOMAIN Tail(list) = 1..(Len(list) - 1)
  BY <1>1
<1>3. \A i \in 1..(Len(list) - 1) : Tail(list)[i] = list[i + 1]
  OBVIOUS
<1>4. Head(list) = list[1]
  OBVIOUS
<1>5. \A i \in 2..Len(list) : i - 1 \in 1..(Len(list) - 1) /\ Tail(list)[i - 1] = list[i]
  BY <1>1, <1>3
<1>6. \A i \in 1..(Len(list) - 1) : i + 1 \in 1..Len(list)
  BY <1>1
<1>7. 1 \in DOMAIN list /\ list[1] \in S
  BY <1>1, <1>2
<1>8. \A i \in 1..Len(list) : i = 1 \/ i \in 2..Len(list)
  BY <1>1
<1>9. ToSet(list) = {list[i] : i \in 1..Len(list)}
  BY <1>2 DEF ToSet
<1>10. ToSet(Tail(list)) = {Tail(list)[i] : i \in 1..(Len(list) - 1)}
  BY <1>2 DEF ToSet
<1>11. ToSet(Tail(list)) \subseteq ToSet(list)
  BY <1>3, <1>6, <1>9, <1>10
<1>12. ToSet(list) \subseteq {Head(list)} \cup ToSet(Tail(list))
  <2> SUFFICES ASSUME NEW i \in 1..Len(list)
               PROVE  list[i] \in {Head(list)} \cup ToSet(Tail(list))
    BY <1>9
  <2> QED
    BY <1>4, <1>5, <1>8, <1>10
<1>13. Head(list) \in ToSet(list)
  BY <1>2, <1>4, <1>7, <1>9
<1> QED
  BY <1>1, <1>4, <1>7, <1>11, <1>12, <1>13
-----------------------------------------------------------------------------
(* The rule that is made. *)

(* A longer list has an item, and compiles if the list and its last item do. *)
LEMMA Longer ==
    ASSUME NEW S, NEW list \in Seq(S), NEW x \in S
    PROVE  /\ Append(list, x) \in Seq(S)
           /\ Append(list, x) # <<>>
           /\ ToSet(Append(list, x)) = ToSet(list) \cup {x}
<1>1. /\ Append(list, x) \in Seq(S)
      /\ Len(Append(list, x)) = Len(list) + 1
      /\ Len(list) \in Nat
  OBVIOUS
<1>2. \A i \in 1..Len(list) + 1 :
         Append(list, x)[i] = IF i = Len(list) + 1 THEN x ELSE list[i]
  BY <1>1
<1>3. /\ ToSet(list) = {list[i] : i \in 1..Len(list)}
      /\ ToSet(Append(list, x)) = {Append(list, x)[i] : i \in 1..Len(list) + 1}
  BY <1>1, ListOf
<1>4. ToSet(Append(list, x)) \subseteq ToSet(list) \cup {x}
  BY <1>1, <1>2, <1>3
<1>5. x \in ToSet(Append(list, x))
  BY <1>1, <1>2, <1>3
<1>6. ToSet(list) \subseteq ToSet(Append(list, x))
  <2> SUFFICES ASSUME NEW i \in 1..Len(list) PROVE list[i] \in ToSet(Append(list, x))
    BY <1>3
  <2>1. i \in 1..Len(list) + 1 /\ i # Len(list) + 1
    BY <1>1
  <2> QED
    BY <1>2, <1>3, <2>1
<1> QED
  BY <1>1, <1>4, <1>5, <1>6

LEMMA EmptyList == ToSet(<<>>) = {} /\ \A S : <<>> \in Seq(S)
BY DEF ToSet

(* While there are questions the rule is not saved. *)
LEMMA Asking ==
    ASSUME DraftInv, asked # <<>>
    PROVE  LET type == draft.type
           IN  /\ draft # Absent /\ rules = <<>>
               /\ type \in Types
               /\ draft \in Params(IF type \in OfPaths THEN Path ELSE Regex)
               /\ Head(asked) \in ToSet(Questions(type))
               /\ Tail(asked) \in Seq(ToSet(Questions(type)))
               /\ asked \in Seq(ToSet(Questions(type)))
               /\ ToSet(asked) \subseteq {Head(asked)} \cup ToSet(Tail(asked))
               /\ Answered(draft, ToSet(asked))
<1>1. /\ draft # Absent /\ rules = <<>> /\ draft.type \in Types /\ WellTyped(draft)
      /\ asked \in Seq(ToSet(Questions(draft.type)))
      /\ Answered(draft, ToSet(asked))
  BY DEF DraftInv
<1> QED
  BY <1>1, AskedNext DEF WellTyped

(* An answer to the first question, after which it may be asked again. *)
LEMMA AnsweredNext ==
    ASSUME DraftInv, asked # <<>>, NEW rule, NEW list, list \in {asked, Tail(asked)},
           rule \in Params(IF draft.type \in OfPaths THEN Path ELSE Regex),
           rule.type = draft.type, rule # Absent,
           Answered(rule, ToSet(list)),
           rules' = rules, draft' = rule, asked' = list
    PROVE  DraftInv'
<1>1. rules = <<>> /\ draft.type \in Types /\ list \in Seq(ToSet(Questions(draft.type)))
  BY Asking
<1> QED
  BY <1>1 DEF DraftInv, WellTyped

LEMMA NotAbsent ==
    ASSUME NEW type, NEW rule \in Params(IF type \in OfPaths THEN Path ELSE Regex)
    PROVE  rule # Absent
BY AbsentAssumption

LEMMA ChooseStep == DraftInv /\ Choose => DraftInv'
<1> SUFFICES ASSUME DraftInv, Choose PROVE DraftInv'
  OBVIOUS
<1>1. PICK q \in DOMAIN Options :
         Ask(q) /\ \E option \in Options[q] : draft' = [draft EXCEPT ![q] = option]
  BY DEF Choose
<1>2. PICK option \in Options[q] : draft' = [draft EXCEPT ![q] = option]
  BY <1>1
<1>3. asked # <<>> /\ Head(asked) = q /\ asked' = Tail(asked) /\ rules' = rules
  BY <1>1 DEF Ask, Choose, vars
<1> DEFINE Pattern == IF draft.type \in OfPaths THEN Path ELSE Regex
<1>4. draft \in Params(Pattern) /\ Answered(draft, ToSet(asked))
      /\ ToSet(asked) \subseteq {q} \cup ToSet(Tail(asked))
  BY <1>3, Asking
<1> HIDE DEF Pattern
<1>5. /\ draft' \in Params(Pattern)
      /\ draft'.type = draft.type /\ draft'.patterns = draft.patterns
      /\ draft'.allow = draft.allow
      /\ draft'.expression = draft.expression /\ draft'.command = draft.command
  <2>1. CASE q = "scanField"
    <3>1. option \in TextFields \cup {""}
      BY <2>1 DEF Options, TextFields
    <3>2. [draft EXCEPT !.scanField = option] \in Params(Pattern)
      BY <1>4, <3>1, Zenon DEF Params
    <3>3. draft' = [draft EXCEPT !.scanField = option]
      BY <1>2, <2>1
    <3> QED
      BY <1>4, <3>2, <3>3 DEF Params
  <2>2. CASE q = "mode"
    <3>1. option \in Modes
      BY <2>2 DEF Options, Modes
    <3>2. [draft EXCEPT !.mode = option] \in Params(Pattern)
      BY <1>4, <3>1, Zenon DEF Params
    <3>3. draft' = [draft EXCEPT !.mode = option]
      BY <1>2, <2>2
    <3> QED
      BY <1>4, <3>2, <3>3 DEF Params
  <2>3. CASE q = "pathField"
    <3>1. option \in PathFields \cup {"", "auto"}
      BY <2>3 DEF Options, PathFields
    <3>2. [draft EXCEPT !.pathField = option] \in Params(Pattern)
      BY <1>4, <3>1, Zenon DEF Params
    <3>3. draft' = [draft EXCEPT !.pathField = option]
      BY <1>2, <2>3
    <3> QED
      BY <1>4, <3>2, <3>3 DEF Params
  <2>4. CASE q = "detectFrom"
    <3>1. option \in {"", "git_remote", "directory"}
      BY <2>4 DEF Options
    <3>2. [draft EXCEPT !.detectFrom = option] \in Params(Pattern)
      BY <1>4, <3>1, Zenon DEF Params
    <3>3. draft' = [draft EXCEPT !.detectFrom = option]
      BY <1>2, <2>4
    <3> QED
      BY <1>4, <3>2, <3>3 DEF Params
  <2>5. CASE q = "within"
    <3>1. option \in BOOLEAN
      BY <2>5 DEF Options
    <3>2. [draft EXCEPT !.within = option] \in Params(Pattern)
      BY <1>4, <3>1, Zenon DEF Params
    <3>3. draft' = [draft EXCEPT !.within = option]
      BY <1>2, <2>5
    <3> QED
      BY <1>4, <3>2, <3>3 DEF Params
  <2>6. CASE q = "plugins"
    <3>1. option \in BOOLEAN
      BY <2>6 DEF Options
    <3>2. [draft EXCEPT !.plugins = option] \in Params(Pattern)
      BY <1>4, <3>1, Zenon DEF Params
    <3>3. draft' = [draft EXCEPT !.plugins = option]
      BY <1>2, <2>6
    <3> QED
      BY <1>4, <3>2, <3>3 DEF Params
  <2>7. q \in {"scanField", "mode", "pathField", "detectFrom", "within", "plugins"}
    BY DEF Options
  <2> QED
    BY <2>1, <2>2, <2>3, <2>4, <2>5, <2>6, <2>7
<1>6. q \notin {"patterns", "paths", "expression", "command"}
  BY DEF Options
<1>7. Answered(draft', ToSet(Tail(asked)))
  BY <1>4, <1>5, <1>6 DEF Answered, PatternsOf
<1>8. draft' # Absent
  BY <1>5, NotAbsent DEF Pattern
<1> QED
  BY <1>3, <1>5, <1>7, <1>8, AnsweredNext DEF Pattern

LEMMA LeaveStep == DraftInv /\ Leave => DraftInv'
<1> SUFFICES ASSUME DraftInv, Leave PROVE DraftInv'
  OBVIOUS
<1>1. PICK q : Ask(q) /\ (q \in Optional \/ (q = "paths" /\ Entered # <<>>))
  BY DEF Leave
<1>2. asked # <<>> /\ Head(asked) = q /\ asked' = Tail(asked) /\ rules' = rules
      /\ draft' = draft
  BY <1>1 DEF Ask, Leave, vars
<1>3. /\ draft \in Params(IF draft.type \in OfPaths THEN Path ELSE Regex)
      /\ draft # Absent
      /\ Answered(draft, ToSet(asked))
      /\ ToSet(asked) \subseteq {q} \cup ToSet(Tail(asked))
  BY <1>2, Asking
<1>4. q \notin {"patterns", "expression", "command"}
  BY <1>1 DEF Optional
<1>5. q = "paths" => PatternsOf(draft) # <<>>
  BY <1>1 DEF Optional, Entered, PatternsOf
<1>6. Answered(draft, ToSet(Tail(asked)))
  BY <1>3, <1>4, <1>5 DEF Answered
<1> QED
  BY <1>2, <1>3, <1>6, AnsweredNext

LEMMA EnterStep == DraftInv /\ EnterAnswer => DraftInv'
<1> SUFFICES ASSUME DraftInv, EnterAnswer PROVE DraftInv'
  OBVIOUS
<1>1. PICK q \in DOMAIN Answers :
         /\ Ask(q)
         /\ \E answer \in Answers[q] : Accepts(q, answer) /\ draft' = Noted(q, answer)
         /\ asked' \in {asked, Tail(asked)}
  BY DEF EnterAnswer
<1>2. PICK answer \in Answers[q] : Accepts(q, answer) /\ draft' = Noted(q, answer)
  BY <1>1
<1>3. asked # <<>> /\ Head(asked) = q /\ rules' = rules
  BY <1>1 DEF Ask, EnterAnswer, vars
<1> DEFINE type == draft.type
           Pattern == IF type \in OfPaths THEN Path ELSE Regex
<1>4. /\ type \in Types /\ q \in ToSet(Questions(type))
      /\ draft \in Params(Pattern)
      /\ Answered(draft, ToSet(asked))
      /\ ToSet(asked) \subseteq {q} \cup ToSet(Tail(asked))
  BY <1>3, Asking
<1>5. q \notin DOMAIN Options
  BY AnswersAssumption
<1>6. /\ q = "patterns" => type \in {"secret_regex", "cmd_validate"}
      /\ q = "paths" => type \in OfPaths
      /\ q = "exceptions" => type = "secret_regex"
      /\ q = "allow" => type = "cmd_validate"
      /\ q = "expression" => type = "cel"
      /\ q = "command" => type \in CommandTypes
      /\ q \in {"patterns", "paths", "exceptions", "allow", "expression", "command",
               "extensions", "exclude", "system", "prepend", "append", "text", "file"}
  BY <1>4, <1>5, QuestionOf
<1>7. answer \in CASE q \in Expressions -> Regex
                   [] q = "paths"      -> Path
                   [] q = "exclude"    -> Words
                   [] OTHER            -> STRING
  BY AnswersAssumption
<1>8. /\ draft.patterns \in Maybe(Seq(Pattern)) /\ draft.allow \in Seq(Regex)
      /\ draft.extensions \in SUBSET STRING /\ draft.exclude \in SUBSET Words
      /\ draft.allow # Absent
  BY <1>4, AbsentAssumption, ZenonT(60) DEF Params
<1>9. ToSet(asked) \subseteq {q} \cup ToSet(asked')
  BY <1>1, <1>4
<1> SUFFICES draft' \in Params(Pattern) /\ draft'.type = type /\ Answered(draft', ToSet(asked'))
  BY <1>1, <1>3, NotAbsent, AnsweredNext
<1> HIDE DEF Pattern
<1>10. CASE q \in {"patterns", "paths"}
  <2> DEFINE list == PatternsOf(draft)
             longer == Append(list, answer)
  <2>1. draft' = [draft EXCEPT !.patterns = longer]
    <3>1. Field(q) = "patterns" /\ q \in Lists
      BY <1>10 DEF Field, Lists
    <3>2. longer = Append(IF draft.patterns = Absent THEN <<>> ELSE draft.patterns, answer)
      BY <1>8 DEF PatternsOf
    <3>3. Noted(q, answer) =
            [draft EXCEPT !.patterns = Append(IF draft.patterns = Absent THEN <<>> ELSE draft.patterns, answer)]
      BY <3>1, <1>10 DEF Noted, Lists, Sets
    <3> QED
      BY <1>2, <3>2, <3>3
  <2>2. list \in Seq(Pattern)
    BY <1>8, EmptyList DEF PatternsOf, Maybe
  <2>3. answer \in Pattern
    BY <1>6, <1>7, <1>10 DEF Pattern, OfPaths, Expressions
  <2>4. longer \in Seq(Pattern) /\ longer # <<>> /\ ToSet(longer) = ToSet(list) \cup {answer}
    BY <2>2, <2>3, Longer
  <2> HIDE DEF longer
  <2>5. [draft EXCEPT !.patterns = longer] \in Params(Pattern)
    <3>1. longer \in Maybe(Seq(Pattern))
      BY <2>4 DEF Maybe
    <3> QED
      BY <1>4, <3>1, Zenon DEF Params
  <2>6. /\ draft'.type = type /\ draft'.patterns = longer /\ draft'.allow = draft.allow
        /\ draft'.expression = draft.expression /\ draft'.command = draft.command
    BY <1>4, <2>1 DEF Params
  <2>7. PatternsOf(draft') = longer \/ (PatternsOf(draft') = <<>> /\ longer = Absent)
    BY <2>6 DEF PatternsOf
  <2>8. longer # Absent
    <3>1. Seq(Pattern) \in {Seq(Path), Seq(Regex)}
      BY DEF Pattern
    <3> QED
      BY <2>4, <3>1, AbsentAssumption
  <2>9. type \in {"secret_regex", "cmd_validate"} => Compiles(longer)
    <3>1. type \in {"secret_regex", "cmd_validate"} => q = "patterns"
      BY <1>6, <1>10 DEF OfPaths
    <3> QED
      BY <1>2, <1>4, <2>4, <3>1 DEF Answered, Accepts, Compiles
  <2>10. Answered(draft', ToSet(asked'))
    <3>1. type # "cel" /\ type \notin CommandTypes
      BY <1>6, <1>10 DEF OfPaths, CommandTypes
    <3> QED
      BY <1>4, <2>4, <2>6, <2>7, <2>8, <2>9, <3>1 DEF Answered
  <2> QED
    BY <2>1, <2>5, <2>6, <2>10
<1>11. CASE q \in {"exceptions", "allow"}
  <2> DEFINE longer == Append(draft.allow, answer)
  <2>1. draft' = [draft EXCEPT !.allow = longer]
    <3>1. Field(q) = "allow" /\ q \in Lists
      BY <1>11 DEF Field, Lists
    <3>2. longer = Append(IF draft.allow = Absent THEN <<>> ELSE draft.allow, answer)
      BY <1>8 DEF PatternsOf
    <3>3. Noted(q, answer) =
            [draft EXCEPT !.allow = Append(IF draft.allow = Absent THEN <<>> ELSE draft.allow, answer)]
      BY <3>1, <1>11 DEF Noted, Lists, Sets
    <3> QED
      BY <1>2, <3>2, <3>3
  <2>2. answer \in Regex
    BY <1>7, <1>11 DEF Expressions
  <2>3. longer \in Seq(Regex) /\ ToSet(longer) = ToSet(draft.allow) \cup {answer}
    BY <1>8, <2>2, Longer
  <2> HIDE DEF longer
  <2>4. [draft EXCEPT !.allow = longer] \in Params(Pattern)
    BY <1>4, <2>3, Zenon DEF Params
  <2>5. /\ draft'.type = type /\ draft'.patterns = draft.patterns /\ draft'.allow = longer
        /\ draft'.expression = draft.expression /\ draft'.command = draft.command
    BY <1>4, <2>1 DEF Params
  <2>6. type = "cmd_validate" => Compiles(longer)
    BY <1>2, <1>4, <1>6, <1>11, <2>3 DEF Answered, Accepts, Compiles
  <2>7. Answered(draft', ToSet(asked'))
    <3>1. "patterns" # q /\ "paths" # q /\ "expression" # q /\ "command" # q
      BY <1>11
    <3> QED
      BY <1>4, <1>9, <2>5, <2>6, <3>1 DEF Answered, PatternsOf
  <2> QED
    BY <2>1, <2>4, <2>5, <2>7
<1>12. CASE q = "expression"
  <2>1. draft' = [draft EXCEPT !.expression = answer]
    BY <1>2, <1>12 DEF Noted, Field, Lists, Sets
  <2>2. answer \in Regex /\ answer # {}
    BY <1>2, <1>7, <1>12 DEF Expressions, Accepts
  <2>3. [draft EXCEPT !.expression = answer] \in Params(Pattern)
    BY <1>4, <2>2, Zenon DEF Params
  <2>4. draft'.type = type /\ draft'.expression = answer
    BY <1>4, <2>1 DEF Params
  <2>5. Answered(draft', ToSet(asked'))
    BY <1>6, <1>12, <2>2, <2>4 DEF Answered, Patterned, OfPaths, CommandTypes
  <2> QED
    BY <2>1, <2>3, <2>4, <2>5
<1>13. CASE q = "command"
  <2>1. draft' = [draft EXCEPT !.command = answer]
    BY <1>2, <1>13 DEF Noted, Field, Lists, Sets
  <2>2. answer \in Maybe(STRING) /\ answer # Absent
    BY <1>7, <1>13, AbsentAssumption DEF Expressions, Maybe
  <2>3. [draft EXCEPT !.command = answer] \in Params(Pattern)
    BY <1>4, <2>2, Zenon DEF Params
  <2>4. draft'.type = type /\ draft'.command = answer
    BY <1>4, <2>1 DEF Params
  <2>5. Answered(draft', ToSet(asked'))
    BY <1>6, <1>13, <2>2, <2>4 DEF Answered, Patterned, OfPaths, CommandTypes
  <2> QED
    BY <2>1, <2>3, <2>4, <2>5
<1>14. CASE q \in {"extensions", "exclude", "system", "prepend", "append", "text", "file"}
  <2>1. /\ draft' \in Params(Pattern)
        /\ draft'.type = draft.type /\ draft'.patterns = draft.patterns
        /\ draft'.allow = draft.allow
        /\ draft'.expression = draft.expression /\ draft'.command = draft.command
    <3>1. CASE q = "extensions"
      <4>1. draft.extensions \cup {answer} \in SUBSET STRING
        BY <1>7, <1>8, <3>1 DEF Expressions
      <4>2. [draft EXCEPT !.extensions = draft.extensions \cup {answer}] \in Params(Pattern)
        BY <1>4, <4>1, Zenon DEF Params
      <4>3. draft' = [draft EXCEPT !.extensions = draft.extensions \cup {answer}]
        BY <1>2, <3>1 DEF Noted, Field, Lists, Sets
      <4> QED
        BY <1>4, <4>2, <4>3 DEF Params
    <3>2. CASE q = "exclude"
      <4>1. draft.exclude \cup {answer} \in SUBSET Words
        BY <1>7, <1>8, <3>2 DEF Expressions
      <4>2. [draft EXCEPT !.exclude = draft.exclude \cup {answer}] \in Params(Pattern)
        BY <1>4, <4>1, Zenon DEF Params
      <4>3. draft' = [draft EXCEPT !.exclude = draft.exclude \cup {answer}]
        BY <1>2, <3>2 DEF Noted, Field, Lists, Sets
      <4> QED
        BY <1>4, <4>2, <4>3 DEF Params
    <3>3. CASE q = "system"
      <4>1. answer \in Maybe(STRING)
        BY <1>7, <3>3 DEF Expressions, Maybe
      <4>2. [draft EXCEPT !.system = answer] \in Params(Pattern)
        BY <1>4, <4>1, Zenon DEF Params
      <4>3. draft' = [draft EXCEPT !.system = answer]
        BY <1>2, <3>3 DEF Noted, Field, Lists, Sets
      <4> QED
        BY <1>4, <4>2, <4>3 DEF Params
    <3>4. CASE q = "prepend"
      <4>1. answer \in Maybe(STRING)
        BY <1>7, <3>4 DEF Expressions, Maybe
      <4>2. [draft EXCEPT !.prepend = answer] \in Params(Pattern)
        BY <1>4, <4>1, Zenon DEF Params
      <4>3. draft' = [draft EXCEPT !.prepend = answer]
        BY <1>2, <3>4 DEF Noted, Field, Lists, Sets
      <4> QED
        BY <1>4, <4>2, <4>3 DEF Params
    <3>5. CASE q = "append"
      <4>1. answer \in Maybe(STRING)
        BY <1>7, <3>5 DEF Expressions, Maybe
      <4>2. [draft EXCEPT !.append = answer] \in Params(Pattern)
        BY <1>4, <4>1, Zenon DEF Params
      <4>3. draft' = [draft EXCEPT !.append = answer]
        BY <1>2, <3>5 DEF Noted, Field, Lists, Sets
      <4> QED
        BY <1>4, <4>2, <4>3 DEF Params
    <3>6. CASE q = "text"
      <4>1. answer \in Maybe(STRING)
        BY <1>7, <3>6 DEF Expressions, Maybe
      <4>2. [draft EXCEPT !.text = answer] \in Params(Pattern)
        BY <1>4, <4>1, Zenon DEF Params
      <4>3. draft' = [draft EXCEPT !.text = answer]
        BY <1>2, <3>6 DEF Noted, Field, Lists, Sets
      <4> QED
        BY <1>4, <4>2, <4>3 DEF Params
    <3>7. CASE q = "file"
      <4>1. answer \in Maybe(STRING)
        BY <1>7, <3>7 DEF Expressions, Maybe
      <4>2. [draft EXCEPT !.file = answer] \in Params(Pattern)
        BY <1>4, <4>1, Zenon DEF Params
      <4>3. draft' = [draft EXCEPT !.file = answer]
        BY <1>2, <3>7 DEF Noted, Field, Lists, Sets
      <4> QED
        BY <1>4, <4>2, <4>3 DEF Params
    <3> QED
      BY <1>14, <3>1, <3>2, <3>3, <3>4, <3>5, <3>6, <3>7
  <2>2. Answered(draft', ToSet(asked'))
    <3>1. "patterns" # q /\ "paths" # q /\ "expression" # q /\ "command" # q
      BY <1>14
    <3> QED
      BY <1>4, <1>9, <2>1, <3>1 DEF Answered, PatternsOf
  <2> QED
    BY <2>1, <2>2
<1> QED
  BY <1>6, <1>10, <1>11, <1>12, <1>13, <1>14

LEMMA AskAgainStep == DraftInv /\ AskAgain => DraftInv'
<1> SUFFICES ASSUME DraftInv, AskAgain PROVE DraftInv'
  OBVIOUS
<1>1. /\ draft # Absent /\ rules = <<>> /\ rules' = rules /\ draft' = draft
      /\ asked' = Questions(draft.type)
      /\ draft.type \in {"prompt_modify", "skill_inject"}
  BY DEF AskAgain, Nothing, vars
<1>2. draft.type \in Types /\ WellTyped(draft)
  BY <1>1 DEF DraftInv
<1>3. asked' \in Seq(ToSet(Questions(draft.type)))
  BY <1>1, <1>2, QuestionsList
<1>4. Answered(draft, ToSet(asked'))
  BY <1>1 DEF Answered, Patterned, OfPaths, CommandTypes
<1> QED
  BY <1>1, <1>2, <1>3, <1>4 DEF DraftInv

-----------------------------------------------------------------------------
(* The rule is saved. *)

LEMMA DecideDraft == DraftInv /\ Decide => DraftInv'
<1> SUFFICES ASSUME DraftInv, Decide PROVE DraftInv'
  OBVIOUS
<1>1. asked = <<>> /\ asked' = <<>> /\ rules = <<>> /\ draft # Absent /\ ~Nothing
  BY DEF Decide
<1>2. CASE rules' = <<draft>> /\ draft' = draft
  BY <1>1, <1>2 DEF DraftInv, Nothing
<1>3. CASE draft' = Absent
  BY <1>1, <1>3 DEF DraftInv
<1> QED
  BY <1>2, <1>3 DEF Decide

(* Before there is a rule, the handler has done nothing. *)
LEMMA NothingDone ==
    ASSUME IInv, rules = <<>>
    PROVE  results = <<>> /\ step = "get" /\ missed = {}
<1>1. results \in Seq(ToSet(results)) /\ Len(results) <= 0
  BY DEF IInv, ResultsInv, IsList, TypeOK
<1>2. results = <<>>
  BY <1>1
<1>3. step = "get"
  BY <1>2 DEF IInv, InstanceInv, More
<1>4. missed = {}
  BY DEF IInv, TypeOK
<1> QED
  BY <1>2, <1>3, <1>4

LEMMA DecideInv == WizardInv /\ Decide => IInv'
<1> SUFFICES ASSUME WizardInv, Decide PROVE IInv'
  OBVIOUS
<1>1. /\ UNCHANGED <<input, check, step, results, baseline, line, missed>>
      /\ rules = <<>> /\ draft # Absent
      /\ rules' \in {<<>>, <<draft>>}
  BY DEF Decide, scanVars
<1>2. results = <<>> /\ step = "get" /\ missed = {}
  BY <1>1, NothingDone DEF WizardInv
<1>3. WellTyped(draft)
  BY <1>1 DEF WizardInv, DraftInv
<1>4. AllWellTyped(rules') /\ Len(rules') \in Nat
  <2>1. <<draft>> \in Seq({draft}) /\ <<>> \in Seq({draft})
    OBVIOUS
  <2>2. IsList(rules')
    BY <1>1, <2>1, ListOf
  <2>3. \A i \in DOMAIN rules' : rules'[i] = draft
    BY <1>1
  <2>4. Len(rules') \in Nat
    BY <1>1
  <2> QED
    BY <1>3, <2>2, <2>3, <2>4 DEF AllWellTyped
<1>5. TypeOK'
  BY <1>1, <1>2, <1>4 DEF WizardInv, IInv, TypeOK
<1>6. InputInv'
  BY <1>1, <1>4 DEF WizardInv, IInv, InputInv
<1>7. InstanceInv'
  BY <1>1, <1>2 DEF WizardInv, IInv, InstanceInv
<1>8. ResultsInv' /\ ScannedToTheEnd'
  BY <1>1, <1>2 DEF WizardInv, IInv, ResultsInv, IsList, ScannedToTheEnd
<1>9. ScanInv'
  BY <1>1, <1>2 DEF ScanInv
<1> QED
  BY <1>5, <1>6, <1>7, <1>8, <1>9 DEF IInv

-----------------------------------------------------------------------------
(* The inductive invariant. *)

LEMMA WizardInitInv == WizardInit => WizardInv
<1> SUFFICES ASSUME WizardInit PROVE WizardInv
  OBVIOUS
<1>1. IInv
  BY InitInv DEF WizardInit
<1>2. CASE rules = <<>>
  <2>1. PICK t \in Types : draft = Unset(t) /\ asked = Questions(t)
    BY <1>2 DEF WizardInit
  <2>2. draft.type = t /\ draft.patterns = Absent /\ draft.allow = <<>>
    BY <2>1 DEF Unset
  <2>3. Unset(t) \in Params(IF t \in OfPaths THEN Path ELSE Regex)
    <3> DEFINE Pattern == IF t \in OfPaths THEN Path ELSE Regex
    <3> HIDE DEF Pattern
    <3>1. /\ t \in Types \cup {"plugin"} /\ "" \in Modes
          /\ "" \in PathFields \cup {"", "auto"} /\ "" \in {"", "git_remote", "directory"}
          /\ "" \in TextFields \cup {""}
          /\ FALSE \in BOOLEAN /\ <<>> \in Seq(Regex) /\ {} \in Regex
          /\ \A S : Absent \in Maybe(S) /\ {} \in SUBSET S
      BY DEF Modes, Regex, Maybe
    <3>2. Unset(t) \in Params(Pattern)
      BY <3>1 DEF Unset, Params
    <3> QED
      BY <3>2 DEF Pattern
  <2>4. asked \in Seq(ToSet(Questions(t)))
    BY <2>1, QuestionsList
  <2>5. Answered(draft, ToSet(asked))
    <3>1. PatternsOf(draft) = <<>> /\ Compiles(<<>>)
      BY <2>2, EmptyList DEF PatternsOf, Compiles
    <3> QED
      BY <2>1, <2>2, <3>1, Required DEF Answered
  <2>6. draft # Absent
    BY <2>1, <2>3, NotAbsent
  <2> QED
    BY <1>1, <1>2, <2>1, <2>2, <2>3, <2>4, <2>5, <2>6 DEF WizardInv, DraftInv, WellTyped
<1>3. CASE rules # <<>>
  BY <1>1, <1>3 DEF WizardInit, WizardInv, DraftInv
<1> QED
  BY <1>2, <1>3

LEMMA RulesKept == Next => rules' = rules
BY DEF Next, GetCheck, InitialiseCheck, ExecuteCheck, RunCommand, OpenBaseline, WriteBaseline,
       OtherOpens, OtherWrites, ScanLine

LEMMA WizardStepInv == WizardInv /\ [WizardNext]_<<vars, wizardVars>> => WizardInv'
<1> SUFFICES ASSUME WizardInv, [WizardNext]_<<vars, wizardVars>> PROVE WizardInv'
  OBVIOUS
<1> USE DEF WizardInv
<1>1. CASE Choose
  BY <1>1, ChooseStep, StepInv DEF Choose
<1>2. CASE EnterAnswer
  BY <1>2, EnterStep, StepInv DEF EnterAnswer
<1>3. CASE Leave
  BY <1>3, LeaveStep, StepInv DEF Leave
<1>4. CASE AskAgain
  BY <1>4, AskAgainStep, StepInv DEF AskAgain
<1>5. CASE Decide
  BY <1>5, DecideDraft, DecideInv
<1>6. CASE Next /\ UNCHANGED wizardVars
  <2>1. rules' = rules /\ draft' = draft /\ asked' = asked
    BY <1>6, RulesKept DEF wizardVars
  <2>2. IInv'
    BY <1>6, StepInv
  <2> QED
    BY <2>1, <2>2 DEF DraftInv, Nothing
<1>7. CASE UNCHANGED <<vars, wizardVars>>
  <2>1. rules' = rules /\ draft' = draft /\ asked' = asked
    BY <1>7 DEF vars, wizardVars
  <2>2. IInv'
    BY <1>7, StepInv
  <2> QED
    BY <2>1, <2>2 DEF DraftInv, Nothing
<1> QED
  BY <1>1, <1>2, <1>3, <1>4, <1>5, <1>6, <1>7 DEF WizardNext

-----------------------------------------------------------------------------
(* What the checks make of the saved rule. *)

LEMMA ExecuteErrs ==
    ASSUME NEW c, c.type \in Alone, NEW in, Execute(c, in).outcome = "error"
    PROVE  c.type = "cel" /\ in.command = Absent
<1>1. \A condition : PassIf(condition).outcome # "error"
  BY DEF PassIf, Pass, Fail
<1>2. Pass.outcome # "error"
  BY DEF Pass
<1>3. c.type # "dir_acl"
  BY <1>1, <1>2 DEF Execute, DirExecute
<1>4. c.type # "repo_access"
  BY <1>1, <1>2 DEF Execute, RepoExecute
<1>5. c.type # "secret_regex"
  BY <1>1 DEF Execute, SecretExecute
<1>6. c.type # "cmd_validate"
  BY <1>1 DEF Execute, CmdExecute
<1>7. c.type # "prompt_modify"
  BY DEF Execute, PromptExecute, Pass
<1>8. c.type # "skill_inject"
  BY DEF Execute, SkillExecute, Pass
<1>9. c.type = "cel"
  BY <1>3, <1>4, <1>5, <1>6, <1>7, <1>8 DEF Alone, Types, CommandTypes
<1>10. Execute(c, in) = CelExecute(c, in)
  BY <1>9 DEF Execute
<1> QED
  BY <1>1, <1>9, <1>10 DEF CelExecute

(* Parameters that were all asked for fail Init in few ways. *)
LEMMA SavedUnusable ==
    ASSUME NEW rule, rule.type \in Types, Answered(rule, {}), NEW in, ~InitOK(rule, in),
           rule.type = "skill_inject" => {rule.text, rule.file} # {Absent}
    PROVE  \/ rule.type = "cel" /\ Malformed \in rule.expression
           \/ rule.type = "secret_regex" /\ \E r \in ToSet(rule.allow) : Malformed \in r
           \/ rule.type = "secret_yelp" /\ ~in.installed
<1>1. CASE rule.type \in OfPaths
  BY <1>1 DEF InitOK, Answered, PatternsOf, Patterned, OfPaths
<1>2. CASE rule.type = "secret_regex"
  <2>1. rule.patterns # Absent /\ Compiles(rule.patterns)
    BY <1>2 DEF Answered, PatternsOf, Patterned
  <2>2. ~Compiles(rule.allow)
    BY <1>2, <2>1 DEF InitOK, OfPaths, CommandTypes
  <2> QED
    BY <1>2, <2>2 DEF Compiles
<1>3. CASE rule.type = "cmd_validate"
  <2>1. rule.patterns # Absent /\ Compiles(rule.patterns) /\ Compiles(rule.allow)
    BY <1>3 DEF Answered, PatternsOf, Patterned
  <2> QED
    BY <1>3, <2>1 DEF InitOK, OfPaths, CommandTypes
<1>4. CASE rule.type = "cel"
  BY <1>4 DEF InitOK, OfPaths, CommandTypes, Answered
<1>5. CASE rule.type = "skill_inject"
  BY <1>5 DEF InitOK, OfPaths, CommandTypes
<1>6. CASE rule.type = "secret_yelp"
  BY <1>6 DEF InitOK, OfPaths, CommandTypes
<1>7. CASE rule.type \in CommandTypes
  <2>1. rule.command # Absent
    BY <1>7 DEF Answered
  <2> QED
    BY <1>7, <2>1 DEF InitOK, OfPaths, CommandTypes
<1>8. CASE rule.type = "prompt_modify"
  BY <1>8 DEF InitOK, OfPaths, CommandTypes
<1> QED
  BY <1>1, <1>2, <1>3, <1>4, <1>5, <1>6, <1>7, <1>8 DEF Types, OfPaths

LEMMA AcceptedOf == WizardInv => WizardAccepted
<1> SUFFICES ASSUME WizardInv, NEW i \in DOMAIN results, rules[i] = draft
             PROVE  /\ draft.type \in Patterned => Entered # <<>>
                    /\ results[i] = Error =>
                          \/ draft.type = "cel"
                             /\ (Malformed \in draft.expression \/ input.command = Absent)
                          \/ draft.type = "secret_regex"
                             /\ \E r \in ToSet(draft.allow) : Malformed \in r
                          \/ draft.type = "secret_yelp" /\ (~input.installed \/ draft.plugins)
  BY DEF WizardAccepted, Patterned, OfPaths
<1>1. i \in DOMAIN rules
  <2>1. /\ results \in Seq(ToSet(results)) /\ rules \in Seq(ToSet(rules))
        /\ Len(results) <= Len(rules)
    BY DEF WizardInv, IInv, InputInv, ResultsInv, AllWellTyped, IsList, TypeOK
  <2> QED
    BY <2>1
<1>2. draft # Absent /\ rules # <<>>
  <2>1. WellTyped(rules[i])
    BY <1>1 DEF WizardInv, IInv, InputInv, AllWellTyped
  <2>2. rules[i] # Absent
    BY <2>1, NotAbsent DEF WellTyped
  <2> QED
    BY <1>1, <2>2
<1>3. draft.type \in Types /\ ~Nothing /\ Answered(draft, {})
  BY <1>2, EmptyList DEF WizardInv, DraftInv
<1>4. ASSUME draft.type \in Patterned PROVE Entered # <<>>
  BY <1>3, <1>4 DEF Answered, PatternsOf, Entered
<1>5. Plausible(results[i], draft, input)
  BY DEF WizardInv, IInv, ResultsInv
<1>6. ASSUME results[i] = Error, ~InitOK(draft, input)
      PROVE  \/ draft.type = "cel" /\ Malformed \in draft.expression
             \/ draft.type = "secret_regex" /\ \E r \in ToSet(draft.allow) : Malformed \in r
             \/ draft.type = "secret_yelp" /\ ~input.installed
  <2>1. draft.type = "skill_inject" => {draft.text, draft.file} # {Absent}
    BY <1>3 DEF Nothing
  <2> QED
    BY <1>3, <1>6, <2>1, SavedUnusable
<1>7. ASSUME results[i] = Error, InitOK(draft, input)
      PROVE  \/ draft.type = "cel" /\ input.command = Absent
             \/ draft.type = "secret_yelp" /\ draft.plugins
  <2>1. Usable(draft, input) /\ results[i].outcome = "error"
    BY <1>3, <1>7 DEF Usable, Error
  <2>2. CASE draft.type \in Alone
    <3>1. WellTyped(draft)
      BY <1>2 DEF WizardInv, DraftInv
    <3>2. Own(draft).type = draft.type
      BY <1>3, <3>1, OwnInstance
    <3>3. Execute(Own(draft), input).outcome = "error"
      BY <1>5, <2>1, <2>2 DEF Plausible
    <3> QED
      BY <2>2, <3>2, <3>3, ExecuteErrs
  <2>3. CASE draft.type \notin Alone
    BY <1>5, <2>1, <2>3 DEF Plausible
  <2> QED
    BY <2>2, <2>3
<1> QED
  BY <1>4, <1>6, <1>7

LEMMA WizardTypeOf == WizardInv => WizardTypeOK
<1> SUFFICES ASSUME WizardInv PROVE WizardTypeOK
  OBVIOUS
<1>1. TypeOK
  BY DEF WizardInv, IInv
<1>2. ASSUME draft # Absent
      PROVE  /\ draft.type \in Types
             /\ ToSet(asked) \subseteq ToSet(Questions(draft.type))
             /\ draft.mode \in Modes
             /\ draft.within \in BOOLEAN
  <2>1. /\ draft.type \in Types /\ WellTyped(draft)
        /\ asked \in Seq(ToSet(Questions(draft.type)))
    BY <1>2 DEF WizardInv, DraftInv
  <2>2. ToSet(asked) \subseteq ToSet(Questions(draft.type))
    <3>1. ToSet(asked) = {asked[i] : i \in 1..Len(asked)}
      BY <2>1, ListOf
    <3>2. \A i \in 1..Len(asked) : asked[i] \in ToSet(Questions(draft.type))
      BY <2>1
    <3> QED
      BY <3>1, <3>2
  <2> QED
    BY <2>1, <2>2 DEF WellTyped, Params
<1> QED
  BY <1>1, <1>2 DEF WizardTypeOK

-----------------------------------------------------------------------------

(* The dialogue and the checks keep the invariant of both: of a rule that  *)
(* is being made only what is still to be asked is missing.                *)
THEOREM WizardInvariance == WizardSpec => []WizardInv
BY WizardInitInv, WizardStepInv, PTL DEF WizardSpec

(* The dialogue makes rules of the parameters that their types have.       *)
THEOREM WizardTypeCorrect == WizardSpec => []WizardTypeOK
BY WizardInvariance, WizardTypeOf, PTL

(* A rule that the dialogue saves has something to look for, and its check *)
(* takes it but for what the dialogue does not look at: an expression in   *)
(* CEL, an exception to a secret_regex, and what secret_yelp needs to run  *)
(* (rules_params.go).                                                      *)
THEOREM SavedRulesWork == WizardSpec => []WizardAccepted
BY WizardInvariance, AcceptedOf, PTL

(* Six properties proved of the rules in a file hold, as they are stated   *)
(* in Checks, of those the dialogue adds: rules run independently, a       *)
(* denylist fails what its plain patterns cover, the two searches for      *)
(* secrets find them, malformed expressions err and an origin is known by  *)
(* its host and path.                                                      *)
THEOREM SavedRulesChecked ==
    WizardSpec => [](/\ Independent
                     /\ DenylistCovers
                     /\ SecretsFound
                     /\ ScannedToTheEnd
                     /\ MistakesErr
                     /\ RepoByIdentity)
<1>1. IInv => ScannedToTheEnd
  BY DEF IInv
<1>2. WizardInv => IInv
  BY DEF WizardInv
<1> QED
  BY <1>1, <1>2, WizardInvariance, IndependentOf, DenylistOf, SecretsOf,
     MistakesOf, RepoOf, PTL
=============================================================================
