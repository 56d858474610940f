----------------------------- MODULE RuleWizard -----------------------------
(***************************************************************************)
(* The dialogue of "constitution rules add" that asks for the parameters   *)
(* of a check, and what the check then makes of the rule it saves.  The    *)
(* questions and the checks are written apart: what the one lets through   *)
(* the other has to take.                                                  *)
(*                                                                         *)
(* A prompt takes one word of a line, and leaves the others to the prompts *)
(* that follow, which take them for their answers (tui_ext.go:58).  So an  *)
(* answer is any word at all, the user's or the rest of an earlier line.   *)
(* A prompt that refuses a word asks again, and nothing changes.           *)
(***************************************************************************)
EXTENDS Checks

CONSTANTS
    Answers,    \* for each question that takes words, the answers it may get
    MaxItems    \* bound: the length of a list that is entered

VARIABLES
    draft,      \* the rule that is made, or was saved
    asked       \* the questions that are left

wizardVars == <<draft, asked>>

(* What is chosen from a menu, or by yes or no. *)
Options ==
    [scanField  |-> {"content", "new_string", "command"},
     mode       |-> {"denylist", "allowlist"},
     pathField  |-> {"auto", "file_path", "path", "pattern"},
     detectFrom |-> {"git_remote", "directory"},
     within     |-> BOOLEAN,
     plugins    |-> BOOLEAN]

(* The name of a pattern, a working directory, a timeout, the binary and   *)
(* the limits of plugins are left out, and the exclude_secrets that the    *)
(* check never looks at.                                                   *)
OtherQuestions(type) ==
    CASE type = "cel"           -> <<"expression">>
      [] type = "linter"        -> <<"command", "extensions">>
      [] type = "secret_yelp"   -> <<"plugins", "exclude">>
      [] type = "prompt_modify" -> <<"system", "prepend", "append">>
      [] type = "skill_inject"  -> <<"text", "file">>
      [] type = "cmd_check"     -> <<"command">>

(* "exceptions" are the allow patterns of a secret_regex, "paths" the      *)
(* patterns of a dir_acl or repo_access.                                   *)
Questions(type) ==
    CASE type = "secret_regex"  -> <<"scanField", "patterns", "exceptions">>
      [] type = "dir_acl"       -> <<"mode", "pathField", "within", "paths">>
      [] type = "cmd_validate"  -> <<"patterns", "allow">>
      [] type = "repo_access"   -> <<"mode", "detectFrom", "paths">>
      [] OTHER                  -> OtherQuestions(type)

Optional == {"exceptions", "allow", "extensions", "exclude", "system", "prepend",
             "append", "text", "file"}

Field(q) ==
    CASE q = "exceptions" -> "allow"
      [] q = "paths"      -> "patterns"
      [] OTHER            -> q
Lists == {"patterns", "allow", "exceptions", "paths"}
Sets == {"extensions", "exclude"}
Expressions == {"patterns", "allow", "exceptions", "expression"}

ASSUME AnswersAssumption ==
    /\ \A t \in Types : ToSet(Questions(t)) \subseteq DOMAIN Answers \cup DOMAIN Options
    /\ DOMAIN Answers \cap DOMAIN Options = {}
    /\ \A q \in DOMAIN Answers :
          Answers[q] \subseteq CASE q \in Expressions -> Regex
                                [] q = "paths"      -> Path
                                [] q = "exclude"    -> Words
                                [] OTHER            -> STRING
ASSUME ItemsAssumption == MaxItems \in Nat

WizardInit ==
    /\ Init
    /\ IF rules = <<>>
       THEN \E t \in Types : draft = Unset(t) /\ asked = Questions(t)
       ELSE draft = Absent /\ asked = <<>>

Ask(q) == asked # <<>> /\ Head(asked) = q
Entered == IF draft.patterns = Absent THEN <<>> ELSE draft.patterns

Choose ==
    /\ \E q \in DOMAIN Options :
          /\ Ask(q)
          /\ \E option \in Options[q] : draft' = [draft EXCEPT ![q] = option]
    /\ asked' = Tail(asked)
    /\ UNCHANGED vars

(* Mutant: promptRegex takes what does not compile. *)
AcceptsAny(q, answer) == q \in Expressions => answer # {}

(* promptRegex compiles its answer; the loop for exceptions of a           *)
(* secret_regex and the one for an expression do not.                      *)
Accepts(q, answer) ==
    /\ q \in Expressions => answer # {}
    /\ q \in {"patterns", "allow"} => Malformed \notin answer

(* Lists and sets are entered item by item. *)
Noted(q, answer) ==
    [draft EXCEPT ![Field(q)] =
        CASE q \in Lists -> Append(IF @ = Absent THEN <<>> ELSE @, answer)
          [] q \in Sets  -> @ \cup {answer}
          [] OTHER       -> answer]

Another(q) ==
    \/ q \in Lists /\ Len(draft'[Field(q)]) < MaxItems
    \/ q \in Sets

EnterAnswer ==
    /\ \E q \in DOMAIN Answers :
          /\ Ask(q)
          /\ \E answer \in Answers[q] :
                /\ Accepts(q, answer)
                /\ draft' = Noted(q, answer)
          /\ asked' = Tail(asked) \/ (Another(q) /\ asked' = asked)
    /\ UNCHANGED vars

(* An empty answer ends a list, and leaves out what may be left out; a     *)
(* list of paths has at least one.                                         *)
Leave ==
    /\ \/ \E q \in Optional : Ask(q)
       \/ Ask("paths") /\ Entered # <<>>
    /\ asked' = Tail(asked)
    /\ UNCHANGED <<vars, draft>>

Nothing ==
    \/ draft.type = "prompt_modify" /\ {draft.system, draft.prepend, draft.append} = {Absent}
    \/ draft.type = "skill_inject" /\ {draft.text, draft.file} = {Absent}

AskAgain ==
    /\ asked = <<>> /\ rules = <<>>
    /\ draft # Absent
    /\ Nothing
    /\ asked' = Questions(draft.type)
    /\ UNCHANGED <<vars, draft>>

(* The rule is saved, or not; the next hook of its event takes it up. *)
Decide ==
    /\ asked = <<>> /\ rules = <<>>
    /\ draft # Absent
    /\ ~Nothing
    /\ \/ rules' = <<draft>> /\ UNCHANGED draft
       \/ draft' = Absent /\ UNCHANGED rules
    /\ UNCHANGED <<input, check, step, results, scanVars, asked>>

WizardNext ==
    \/ Choose \/ EnterAnswer \/ Leave \/ AskAgain \/ Decide
    \/ Next /\ UNCHANGED wizardVars

WizardSpec == WizardInit /\ [][WizardNext]_<<vars, wizardVars>>

-----------------------------------------------------------------------------
(* Properties. *)

WizardTypeOK ==
    /\ TypeOK
    /\ draft # Absent =>
          /\ draft.type \in Types
          /\ ToSet(asked) \subseteq ToSet(Questions(draft.type))
          /\ draft.mode \in Modes
          /\ draft.within \in BOOLEAN

(* A rule that the dialogue saves works: the check it names takes its      *)
(* parameters, and has something to look for.  Only what the dialogue does *)
(* not look at may err: an expression in CEL, an exception to a            *)
(* secret_regex, and what secret_yelp needs to run (rules_params.go:79).   *)
WizardAccepted ==
    \A i \in DOMAIN results : rules[i] = draft =>
        /\ draft.type \in {"secret_regex", "dir_acl", "cmd_validate", "repo_access"} =>
              Entered # <<>>
        /\ results[i] = Error =>
              \/ draft.type = "cel" /\ (Malformed \in draft.expression \/ input.command = Absent)
              \/ draft.type = "secret_regex" /\ \E r \in ToSet(draft.allow) : Malformed \in r
              \/ draft.type = "secret_yelp" /\ (~input.installed \/ draft.plugins)
=============================================================================
