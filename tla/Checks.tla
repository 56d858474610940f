------------------------------- MODULE Checks -------------------------------
(***************************************************************************)
(* The checks of internal/check: those that look at the input alone        *)
(* (dir_acl, secret_regex, cmd_validate, repo_access, cel, prompt_modify   *)
(* and skill_inject), those that run a command, which may answer anything  *)
(* (linter and cmd_check), and secret_yelp, which has detect-secrets look  *)
(* at the input line by line.  A handler takes one rule after the other    *)
(* through Get, Init and Execute; HookEngine says what it does with the    *)
(* outcomes.                                                               *)
(*                                                                         *)
(* A path, and a pattern of paths, is the sequence of its parts between    *)
(* slashes, so that an absolute one begins with the part "".  A part is    *)
(* matched as a whole: Fitting says which names a part with wildcards      *)
(* matches, Beginning which names begin with which, and Pieces what is     *)
(* around each "**" of a part.  A regular expression is the set of words   *)
(* it matches, a text the sequence of its lines, and a line the set of     *)
(* words in it.                                                            *)
(***************************************************************************)
EXTENDS Naturals, Sequences, SequencesExt

CONSTANTS
    Words,      \* what regular expressions tell apart in texts and commands
    Detected,   \* the words detect-secrets takes for secrets
    TooLong,    \* a word that makes its line longer than a bufio.Scanner holds
    Malformed,  \* in the place of a word: the expression does not compile
    Absent,     \* a parameter, a field, a file or a repository that is not there
    Unlike,     \* a part of a repository's name that no pattern matches by name
    Home,       \* the user's home directory, Absent if it is not known
    Fitting,    \* pairs of a part of a pattern with wildcards and a name
    Beginning,  \* pairs of a name and another it begins with
    Pieces,     \* for each part with "**" in it, what strings.Split makes of it
    Scenarios   \* lists of rules and the inputs they are applied to

PathFields == {"file_path", "path", "pattern"}
TextFields == {"content", "new_string", "command"}
CommandTypes == {"linter", "cmd_check"}
Types == {"dir_acl", "secret_regex", "cmd_validate", "repo_access", "cel",
          "prompt_modify", "skill_inject", "secret_yelp"} \cup CommandTypes

Path == Seq(STRING) \ {<<>>}
Regex == SUBSET (Words \cup {Malformed})
Maybe(S) == {Absent} \cup S

Origin == [scheme : {"scp", "ssh", "https", "http"}, user : BOOLEAN, port : Maybe(STRING),
           host : STRING, path : Path]
Input == [tool : STRING, cwd : Path, paths : [PathFields -> Maybe(Path)],
          texts : [TextFields -> Seq(SUBSET (Words \cup {TooLong}))],
          command : Maybe(Words), origin : Maybe(Origin), file : Maybe(STRING),
          installed : BOOLEAN]

Modes == {"", "denylist", "allowlist", "deny"}       \* the last for any other

(* The type of a rule's check, "plugin" for one that there is not, and its *)
(* parameters.  What the patterns are is up to the type.                   *)
Params(Pattern) ==
    [type : Types \cup {"plugin"}, mode : Modes, pathField : PathFields \cup {"", "auto"},
     detectFrom : {"", "git_remote", "directory"}, scanField : TextFields \cup {""},
     within : BOOLEAN, patterns : Maybe(Seq(Pattern)), allow : Seq(Regex),
     expression : Regex, prepend : Maybe(STRING), system : Maybe(STRING),
     append : Maybe(STRING), text : Maybe(STRING), file : Maybe(STRING),
     exclude : SUBSET Words, plugins : BOOLEAN, command : Maybe(STRING),
     extensions : SUBSET STRING]

OfPaths == {"dir_acl", "repo_access"}
WellTyped(rule) == rule \in Params(IF rule.type \in OfPaths THEN Path ELSE Regex)
IsList(list) == list \in Seq(ToSet(list))
AllWellTyped(list) == IsList(list) /\ \A i \in DOMAIN list : WellTyped(list[i])

ASSUME ScenariosAssumption ==
    \A s \in Scenarios :
        s.input \in Input /\ s.input.cwd[1] = "" /\ AllWellTyped(s.rules)
ASSUME HomeAssumption == Home # Absent => Home \in Path /\ Home[1] = ""
ASSUME FittingAssumption == \A f \in Fitting : f[1] \notin {"", ".", ".."}
ASSUME PiecesAssumption ==
    /\ "**" \in DOMAIN Pieces /\ Pieces["**"] = <<"", "">>
    /\ \A part \in DOMAIN Pieces : Len(Pieces[part]) >= 2
ASSUME WordsAssumption ==
    Malformed \notin Words /\ TooLong \notin Words /\ Detected \subseteq Words
ASSUME AbsentAssumption ==
    /\ Absent \notin Origin \cup Params(Path) \cup Params(Regex)
    /\ Absent \notin STRING \cup Seq(Path) \cup Seq(Regex)

VARIABLES
    rules,      \* the matched rules: the type and parameters of their checks
    input,      \* the event and what the checks see of the world
    check,      \* the instance that was last created
    step,       \* where the handler is with the rule at hand
    results,    \* the outcomes of the rules before it
    baseline,   \* secret_yelp's file in the temporary directory
    line,       \* the number of the line it has come to
    missed      \* history: for each rule, the lines whose scan failed

vars == <<rules, input, check, step, results, baseline, line, missed>>
scanVars == <<baseline, line, missed>>

Pass == [outcome |-> "pass", context |-> <<>>]
Fail == [outcome |-> "fail", context |-> <<>>]
Error == [outcome |-> "error", context |-> <<>>]

(* Mutant: what failed is put into the context as well. *)
PassIfElseContext(condition) ==
    IF condition THEN Pass ELSE [Fail EXCEPT !.context = <<"failed">>]

PassIf(condition) == IF condition THEN Pass ELSE Fail

-----------------------------------------------------------------------------
(* Paths and patterns: dir_acl. *)

Base(path) == path[Len(path)]
IsAbs(path) == path[1] = ""

Root == <<"">>
Dots == {"", "."}           \* the parts that lead nowhere

Enter(path, part) ==
    CASE part \in Dots      -> path
      [] part = ".."        -> IF Len(path) > 1 THEN Front(path) ELSE path
      [] OTHER              -> Append(path, part)

(* filepath.Clean of an absolute path. *)
Clean(path) == FoldLeft(Enter, Root, path)

(* Mutant: only a relative path is cleaned, as Join does it. *)
ResolveJoined(cwd, path) == IF IsAbs(path) THEN path ELSE Clean(cwd \o path)

Resolve(cwd, path) == Clean(IF IsAbs(path) THEN path ELSE cwd \o path)

(* The root directory, whose name is a slash, is left out: it is neither   *)
(* the working directory nor what a tool is given.                         *)
ASSUME RootAssumption ==
    \A s \in Scenarios :
        /\ Clean(s.input.cwd) # Root
        /\ \A f \in PathFields : s.input.paths[f] # Absent =>
              Resolve(s.input.cwd, s.input.paths[f]) # Root

(* filepath.Match of one part; "**" means no more than "*" to it. *)
Fits(glob, name) == glob = name \/ glob \in {"*", "**"} \/ <<glob, name>> \in Fitting

MatchPath(pattern, path) ==
    /\ Len(pattern) = Len(path)
    /\ \A i \in DOMAIN path : Fits(pattern[i], path[i])

(* strings.HasPrefix: the last part need only be the beginning of a name. *)
HasPrefix(path, prefix) ==
    LET n == Len(prefix)
    IN  /\ n <= Len(path)
        /\ SubSeq(path, 1, n - 1) = Front(prefix)
        /\ prefix[n] \in {"", path[n]} \/ <<path[n], prefix[n]>> \in Beginning

ExpandHome(pattern) ==
    IF pattern[1] = "~" /\ Home # Absent THEN Clean(Home \o Tail(pattern)) ELSE pattern

(* The parts with "**" in them, and what is before and behind it; the slash *)
(* next to it belongs to neither.                                          *)
Stars(pattern) == {i \in DOMAIN pattern : pattern[i] \in DOMAIN Pieces}
Named(part) == IF part = "" THEN <<>> ELSE <<part>>
Before(pattern) ==
    LET i == CHOOSE i \in Stars(pattern) : TRUE
    IN  SubSeq(pattern, 1, i - 1) \o Named(Pieces[pattern[i]][1])
After(pattern) ==
    LET i == CHOOSE i \in Stars(pattern) : TRUE
    IN  Named(Pieces[pattern[i]][2]) \o SubSeq(pattern, i + 1, Len(pattern))

Empty == {<<>>, <<"">>}     \* the paths that are the empty string

(* With one "**" what is before it is a literal prefix, and what follows   *)
(* is matched with the file name alone.                                    *)
MatchGlob(pattern, path) ==
    IF \E i \in DOMAIN pattern : Stars(pattern) = {i} /\ Len(Pieces[pattern[i]]) = 2
    THEN /\ Before(pattern) \in Empty \/ HasPrefix(path, Before(pattern))
         /\ After(pattern) \in Empty \/ MatchPath(After(pattern), <<Base(path)>>)
    ELSE MatchPath(pattern, path) \/ MatchPath(pattern, <<Base(path)>>)

ExtractPath(d, in) ==
    IF d.pathField # "auto" THEN in.paths[d.pathField]
    ELSE CASE in.paths["file_path"] # Absent -> in.paths["file_path"]
           [] in.paths["file_path"] = Absent /\ in.paths["path"] # Absent -> in.paths["path"]
           [] OTHER -> in.paths["pattern"]

Matched(d, path) == \E p \in d.patterns : MatchGlob(p, path)

DirExecute(d, in) ==
    IF ExtractPath(d, in) = Absent THEN Pass
    ELSE LET path == Resolve(in.cwd, ExtractPath(d, in))
         IN  IF d.within /\ IsPrefix(Clean(in.cwd), path) /\ d.mode = "denylist"
             THEN PassIf(~Matched(d, path))
             ELSE CASE d.mode = "denylist"  -> PassIf(~Matched(d, path))
                    [] d.mode = "allowlist" -> PassIf(Matched(d, path))
                    [] OTHER                -> Pass

-----------------------------------------------------------------------------
(* Texts and commands: secret_regex, cmd_validate and cel. *)

(* What an Edit writes is its new_string, whatever the rule says to scan. *)
ExtractContent(in, scanField) ==
    IF in.tool = "Edit" THEN in.texts["new_string"] ELSE in.texts[scanField]

(* Mutant: an exception is looked for in the whole text. *)
IsAllowedAnywhere(s, match, content) == \E a \in s.allow : a \cap content # {}

IsAllowed(s, match, content) == \E a \in s.allow : match \in a

SecretExecute(s, in) ==
    LET content == UNION ToSet(ExtractContent(in, s.scanField))
    IN  PassIf(\A p \in s.patterns : \A match \in p \cap content :
                   IsAllowed(s, match, content))

CmdExecute(c, in) ==
    PassIf(\/ in.command = Absent
           \/ \E a \in c.allow : in.command \in a
           \/ \A p \in c.patterns : in.command \notin p)

(* An expression over a field that the tool does not have is an error. *)
CelExecute(c, in) ==
    IF in.command = Absent THEN Error ELSE PassIf(in.command \notin c.expression)

-----------------------------------------------------------------------------
(* Repositories: repo_access.  An origin is [scheme, user, port, host,     *)
(* path], with or without ".git", which is always cut off; "scp" is the    *)
(* form host:path.                                                         *)

(* Mutant: the user is cut off, the colon stays. *)
NormalizeKeepsColon(url) ==
    IF url.scheme = "scp" \/ url.port # Absent
    THEN <<Unlike>> \o (IF url.scheme = "scp" THEN Tail(url.path) ELSE url.path)
    ELSE <<url.host>> \o url.path

(* After a user the first colon becomes a slash, be it before the path or  *)
(* before a port; without one only http and https are cut off.             *)
NormalizeRemoteURL(url) ==
    LET host == IF url.port = Absent THEN <<url.host>> ELSE <<Unlike>>
    IN  CASE url.user ->
               (IF url.port = Absent THEN <<url.host>> ELSE <<url.host, url.port>>) \o url.path
          [] ~url.user /\ url.scheme \in {"https", "http"} -> host \o url.path
          [] ~url.user /\ url.scheme = "ssh" -> <<Unlike, "">> \o host \o url.path
          [] ~url.user /\ url.scheme = "scp" -> <<Unlike>> \o Tail(url.path)

DetectRepo(r, in) ==
    CASE r.detectFrom = "directory" -> <<Base(SelectSeq(in.cwd, LAMBDA part : part # ""))>>
      [] r.detectFrom # "directory" /\ in.origin = Absent -> Absent
      [] OTHER                      -> NormalizeRemoteURL(in.origin)

RepoExecute(r, in) ==
    LET repo == DetectRepo(r, in)
        matched == \E p \in r.patterns : MatchPath(p, repo)
    IN  IF repo = Absent THEN Pass
        ELSE CASE r.mode = "allowlist" -> PassIf(matched)
               [] r.mode = "denylist"  -> PassIf(~matched)
               [] OTHER                -> Pass

-----------------------------------------------------------------------------
(* Contexts: prompt_modify and skill_inject. *)

Given(texts) == SelectSeq(texts, LAMBDA t : t # Absent)

PromptExecute(p, in) == [Pass EXCEPT !.context = Given(<<p.prepend, p.system, p.append>>)]

(* A file that cannot be read, or is empty, leaves the text. *)
SkillExecute(s, in) ==
    LET content == IF s.file = Absent THEN Absent ELSE in.file
    IN  [Pass EXCEPT !.context = Given(<<IF content = Absent THEN s.text ELSE content>>)]

-----------------------------------------------------------------------------
(* Instances: what Get creates and Init makes of it.                       *)

New(type) ==
    [type |-> type, mode |-> "", pathField |-> "", detectFrom |-> "", scanField |-> "",
     within |-> FALSE, patterns |-> {}, allow |-> {}, expression |-> {},
     prepend |-> Absent, system |-> Absent, append |-> Absent,
     text |-> Absent, file |-> Absent, exclude |-> {}, baseline |-> FALSE,
     command |-> Absent, extensions |-> {}]

(* The parameters of a rule that gives none. *)
Unset(type) ==
    [type |-> type, mode |-> "", pathField |-> "", detectFrom |-> "", scanField |-> "",
     within |-> FALSE, patterns |-> Absent, allow |-> <<>>, expression |-> {},
     prepend |-> Absent, system |-> Absent, append |-> Absent,
     text |-> Absent, file |-> Absent, exclude |-> {}, plugins |-> FALSE,
     command |-> Absent, extensions |-> {}]

(* Mutant: the registry keeps an instance of each type. *)
GetShared(type) == IF check # Absent /\ check.type = type THEN check ELSE New(type)

Get(type) == New(type)

(* A parameter that is given, else what the instance has, else the default. *)
Or(given, had, default) ==
    CASE given # ""              -> given
      [] given = "" /\ had # ""  -> had
      [] OTHER                   -> default

(* Mutant: Init returns after the first expression. *)
CompilesFirst(list) == list = <<>> \/ Malformed \notin list[1]

Compiles(list) == \A r \in ToSet(list) : Malformed \notin r

(* An entry without an expression is passed over. *)
Compiled(list) == ToSet(list) \ {{}}

(* Whether Init returns no error: of a secret_yelp, if the binary is there. *)
InitOK(p, in) ==
    CASE p.type \in OfPaths -> p.patterns # Absent
      [] p.type = "secret_regex" ->
            p.patterns # Absent /\ Compiles(p.patterns) /\ Compiles(p.allow)
      [] p.type = "cmd_validate" ->
            (p.patterns # Absent => Compiles(p.patterns)) /\ Compiles(p.allow)
      [] p.type = "cel"          -> p.expression # {} /\ Malformed \notin p.expression
      [] p.type = "skill_inject" -> p.text # Absent \/ p.file # Absent
      [] p.type = "secret_yelp"  -> in.installed
      [] p.type \in CommandTypes -> p.command # Absent
      [] OTHER                   -> TRUE

DirInit(c, p) ==
    [c EXCEPT !.mode = Or(p.mode, @, "denylist"),
              !.pathField = Or(p.pathField, @, "auto"),
              !.patterns = {ExpandHome(q) : q \in ToSet(p.patterns)},
              !.within = p.within]

RepoInit(c, p) ==
    [c EXCEPT !.mode = Or(p.mode, @, "allowlist"),
              !.patterns = ToSet(p.patterns),
              !.detectFrom = Or(p.detectFrom, @, "git_remote")]

(* The expressions of secret_regex and cmd_validate are appended; among    *)
(* the exceptions of secret_regex none is passed over.                     *)
SecretInit(c, p) ==
    [c EXCEPT !.scanField = Or(p.scanField, @, "content"),
              !.patterns = @ \cup Compiled(p.patterns),
              !.allow = @ \cup ToSet(p.allow)]

CmdInit(c, p) ==
    [c EXCEPT !.patterns = @ \cup (IF p.patterns = Absent THEN {} ELSE Compiled(p.patterns)),
              !.allow = @ \cup Compiled(p.allow)]

CelInit(c, p) == [c EXCEPT !.expression = p.expression]

PromptInit(c, p) ==
    [c EXCEPT !.prepend = p.prepend, !.system = p.system, !.append = p.append]

SkillInit(c, p) == [c EXCEPT !.text = p.text, !.file = p.file]

(* exclude_secrets is stored and not used.  A baseline is written if the   *)
(* rule names plugins or filters.                                          *)
YelpInit(c, p) ==
    [c EXCEPT !.scanField = IF p.scanField # "" THEN p.scanField ELSE "content",
              !.exclude = p.exclude, !.baseline = p.plugins]

(* The instance of a linter or a cmd_check. *)
CommandInit(c, p) == [c EXCEPT !.command = p.command, !.extensions = p.extensions]

InitCheck(c, p) ==
    CASE p.type = "dir_acl"       -> DirInit(c, p)
      [] p.type = "repo_access"   -> RepoInit(c, p)
      [] p.type = "secret_regex"  -> SecretInit(c, p)
      [] p.type = "cmd_validate"  -> CmdInit(c, p)
      [] p.type = "cel"           -> CelInit(c, p)
      [] p.type = "prompt_modify" -> PromptInit(c, p)
      [] p.type = "skill_inject"  -> SkillInit(c, p)
      [] p.type = "secret_yelp"   -> YelpInit(c, p)
      [] p.type \in CommandTypes  -> CommandInit(c, p)

Execute(c, in) ==
    CASE c.type = "dir_acl"       -> DirExecute(c, in)
      [] c.type = "repo_access"   -> RepoExecute(c, in)
      [] c.type = "secret_regex"  -> SecretExecute(c, in)
      [] c.type = "cmd_validate"  -> CmdExecute(c, in)
      [] c.type = "cel"           -> CelExecute(c, in)
      [] c.type = "prompt_modify" -> PromptExecute(c, in)
      [] c.type = "skill_inject"  -> SkillExecute(c, in)

-----------------------------------------------------------------------------
(* The handler's loop. *)

Init ==
    /\ \E s \in Scenarios : rules = s.rules /\ input = s.input
    /\ check = Absent
    /\ step = "get"
    /\ results = <<>>
    /\ baseline = "none"
    /\ line = 1
    /\ missed = {}

More == Len(results) < Len(rules)
Rule == rules[Len(results) + 1]

Return(result) == results' = Append(results, result) /\ step' = "get"

GetCheck ==
    /\ step = "get"
    /\ More
    /\ IF Rule.type \in Types
       THEN check' = Get(Rule.type) /\ step' = "init" /\ UNCHANGED results
       ELSE Return(Error) /\ UNCHANGED check
    /\ UNCHANGED <<rules, input, scanVars>>

InitialiseCheck ==
    /\ step = "init"
    /\ IF InitOK(Rule, input)
       THEN /\ check' = InitCheck(check, Rule)
            /\ step' = IF Rule.type = "secret_yelp" /\ Rule.plugins THEN "open" ELSE "execute"
            /\ UNCHANGED results
       ELSE Return(Error) /\ UNCHANGED check
    /\ line' = 1
    /\ UNCHANGED <<rules, input, baseline, missed>>

ExecuteCheck ==
    /\ step = "execute"
    /\ check.type \notin CommandTypes \cup {"secret_yelp"}
    /\ Return(Execute(check, input))
    /\ UNCHANGED <<rules, input, check, scanVars>>

(* An extension is written as the pattern of the names that have it. *)
Applies(c, in) ==
    c.type = "linter" =>
        LET path == in.paths["file_path"]
        IN  /\ path # Absent
            /\ c.extensions # {} => \E e \in c.extensions : Fits(e, Base(path))

(* A linter has nothing to say of another file; a command that does not    *)
(* start, fails or is killed fails the rule.  What it printed is added to  *)
(* the context in any case.                                                *)
RunCommand ==
    /\ step = "execute"
    /\ check.type \in CommandTypes
    /\ IF Applies(check, input)
       THEN \E outcome \in {Pass, Fail}, output \in {<<>>, <<"output">>} :
               Return([outcome EXCEPT !.context = output])
       ELSE Return(Pass)
    /\ UNCHANGED <<rules, input, check, scanVars>>

-----------------------------------------------------------------------------
(* secret_yelp.  The baseline's name is that of its contents, which hold   *)
(* the time in seconds: within one, every process with the rule writes the *)
(* same file.                                                              *)

(* Init's WriteFile truncates, then writes; either can fail. *)
OpenBaseline ==
    /\ step = "open"
    /\ \/ baseline' = "cut" /\ step' = "write" /\ UNCHANGED results
       \/ Return(Error) /\ UNCHANGED baseline
    /\ UNCHANGED <<rules, input, check, line, missed>>

WriteBaseline ==
    /\ step = "write"
    /\ \/ baseline' = "whole" /\ step' = "execute" /\ UNCHANGED results
       \/ Return(Error) /\ UNCHANGED baseline
    /\ UNCHANGED <<rules, input, check, line, missed>>

(* Another hook process with the rule, at any moment. *)
OtherOpens ==
    /\ step \in {"write", "execute"}
    /\ check.baseline
    /\ baseline = "whole"
    /\ baseline' = "cut"
    /\ UNCHANGED <<rules, input, check, step, results, line, missed>>

OtherWrites ==
    /\ step \in {"write", "execute"}
    /\ check.baseline
    /\ baseline = "cut"
    /\ baseline' = "whole"
    /\ UNCHANGED <<rules, input, check, step, results, line, missed>>

Lines == ExtractContent(input, check.scanField)

(* What isLineExcluded and the test for a blank line let out. *)
Excluded(l) == Lines[l] = {} \/ check.exclude \cap Lines[l] # {}

(* Mutant: a failed scan ends the check. *)
ScanFailsEnds ==
    /\ missed' = missed \cup {<<Len(results) + 1, line>>}
    /\ Return(Pass)
    /\ UNCHANGED line

(* detect-secrets says nothing of a line if it runs out of time, and       *)
(* without a baseline it can read.                                         *)
ScanFails ==
    /\ missed' = missed \cup {<<Len(results) + 1, line>>}
    /\ line' = line + 1
    /\ UNCHANGED <<step, results>>

ScanEnds ==
    /\ baseline = "whole" \/ ~check.baseline
    /\ IF Lines[line] \cap Detected # {}
       THEN Return(Fail) /\ UNCHANGED line
       ELSE line' = line + 1 /\ UNCHANGED <<step, results>>
    /\ UNCHANGED missed

(* The scanner stops at a line that is too long as at the end. *)
Scanned == line \in DOMAIN Lines => TooLong \in Lines[line]

ScanLine ==
    /\ step = "execute"
    /\ check.type = "secret_yelp"
    /\ \/ Scanned /\ Return(Pass) /\ UNCHANGED <<line, missed>>
       \/ ~Scanned /\ Excluded(line) /\ line' = line + 1 /\ UNCHANGED <<step, results, missed>>
       \/ ~Scanned /\ ~Excluded(line) /\ (ScanFails \/ ScanEnds)
    /\ UNCHANGED <<rules, input, check, baseline>>

Next ==
    \/ GetCheck \/ InitialiseCheck \/ ExecuteCheck \/ RunCommand
    \/ OpenBaseline \/ WriteBaseline \/ OtherOpens \/ OtherWrites \/ ScanLine

Spec == Init /\ [][Next]_vars

-----------------------------------------------------------------------------
(* Properties. *)

TypeOK ==
    /\ check # Absent => /\ check.type \in Types
                         /\ check.mode \in Modes
                         /\ check.within \in BOOLEAN
    /\ step \in {"get", "init", "open", "write", "execute"}
    /\ baseline \in {"none", "cut", "whole"}
    /\ line \in Nat
    /\ \A m \in missed : m[1] \in DOMAIN rules /\ m[2] \in Nat
    /\ Len(results) <= Len(rules)
    /\ \A i \in DOMAIN results :
          /\ results[i].outcome \in {"pass", "fail", "error"}
          /\ results[i].context # <<>> =>
                results[i].outcome = "pass" \/ rules[i].type \in CommandTypes

(* What a rule says depends on no other rule: its outcome is that of its   *)
(* own parameters in a new instance, whatever rules of its type ran before *)
(* it.  Get makes an instance for every rule (registry.go:32); Init adds   *)
(* to what the instance has, so the loop relies on that.                   *)
Independent ==
    \A i \in DOMAIN results : rules[i].type \notin CommandTypes \cup {"secret_yelp"} =>
        results[i] = IF rules[i].type \in Types /\ InitOK(rules[i], input)
                     THEN Execute(InitCheck(New(rules[i].type), rules[i]), input)
                     ELSE Error

Listed(p) == IF p.patterns = Absent THEN {} ELSE ToSet(p.patterns)

(* What a pattern means: each part in turn stands for one part of the      *)
(* path, and "**" for any number; end says where what it stands for ends.  *)
Covers(pattern, path) ==
    \E end \in [0..Len(pattern) -> 0..Len(path)] :
        /\ end[0] = 0 /\ end[Len(pattern)] = Len(path)
        /\ \A i \in DOMAIN pattern :
              \/ pattern[i] = "**" /\ end[i - 1] <= end[i]
              \/ /\ pattern[i] # "**" /\ end[i] = end[i - 1] + 1
                 /\ Fits(pattern[i], path[end[i]])

(* The patterns the code supports: no "**", or one that is a part of its    *)
(* own, has names without wildcards before it and at most a file name      *)
(* behind it.                                                              *)
Wild(part) == part \in {"*", "**"} \/ \E f \in Fitting : f[1] = part
Plain(pattern) ==
    \/ Stars(pattern) = {}
    \/ \E i \in DOMAIN pattern :
          /\ Stars(pattern) = {i} /\ pattern[i] = "**"
          /\ \A j \in 1..(i - 1) : ~Wild(pattern[j])
          /\ Len(pattern) <= i + 1

(* The file a path leads to: a part of it counts if no ".." behind takes   *)
(* it back.  left says, for each number of ".." to come, what is left.     *)
Further(left, part) ==
    CASE part \in Dots -> left
      [] part = ".."   -> [ups \in Nat |-> left[ups + 1]]
      [] OTHER         -> [ups \in Nat |-> IF ups > 0 THEN left[ups - 1]
                                           ELSE Append(left[0], part)]
Reached(path) == FoldLeft(Further, [ups \in Nat |-> Root], path)[0]

(* A denylist fails every file that one of its plain patterns covers,      *)
(* however the tool spells the path: absolute or from the working          *)
(* directory, with "." or ".." (dir_acl.go:70).  Other patterns, such as   *)
(* "**/keys/**" or "src**", mean to the code what MatchGlob says, and no     *)
(* more is stated of them.                                                 *)
DenylistCovers ==
    \A i \in DOMAIN results :
        LET d == rules[i]
        IN  d.type = "dir_acl" /\ d.mode \in {"", "denylist"} /\ results[i].outcome = "pass" =>
              \A q \in Listed(d), f \in PathFields :
                LET pattern == IF q[1] = "~" /\ Home # Absent THEN Home \o Tail(q) ELSE q
                    path == input.paths[f]
                IN  /\ Plain(pattern)
                    /\ path # Absent
                    /\ d.pathField = f \/ (f = "file_path" /\ d.pathField \in {"", "auto"})
                    => ~Covers(pattern, Reached(IF path[1] = "" THEN path
                                                ELSE input.cwd \o path))

(* A word that a rule looks for, in the text a Write or an Edit is about   *)
(* to put into a file, fails the rule unless an exception of that rule     *)
(* matches the word itself; another word that is allowed does not hide it  *)
(* (secret_regex.go:82).                                                   *)
SecretsFound ==
    \A i \in DOMAIN results :
        LET s == rules[i]
            written == input.texts[IF input.tool = "Edit" THEN "new_string" ELSE "content"]
        IN  /\ s.type = "secret_regex"
            /\ s.scanField \in {"", "content"}
            /\ \E p \in Listed(s) : \E w \in p \cap UNION ToSet(written) :
                  \A a \in ToSet(s.allow) : w \notin a
            => results[i].outcome # "pass"

(* What detect-secrets finds fails the rule, on whatever line it is: lines *)
(* that are blank, excluded, or could not be scanned for lack of time or   *)
(* because another process was writing the baseline, hide no other line.   *)
(* Only what is behind a line that is too long is not looked at            *)
(* (secret_yelp.go:112).                                                   *)
ScannedToTheEnd ==
    \A i \in DOMAIN results :
        LET y == rules[i]
            text == ExtractContent(input, IF y.scanField = "" THEN "content" ELSE y.scanField)
        IN  y.type = "secret_yelp" /\ results[i].outcome = "pass" =>
              \A l \in DOMAIN text :
                 \/ text[l] \cap Detected = {}
                 \/ text[l] \cap y.exclude # {}
                 \/ \E k \in 1..l : TooLong \in text[k]
                 \/ <<i, l>> \in missed

(* An expression of a secret_regex or cmd_validate that does not compile,  *)
(* wherever in the rule's lists, makes its outcome an error, and the       *)
(* others are not applied alone (secret_regex.go:51, cmd_validate.go:43);  *)
(* so do patterns or a command that a rule has to have and has not.  An    *)
(* empty expression and an unknown mode are no mistakes to the code.       *)
MistakesErr ==
    \A i \in DOMAIN results :
        LET p == rules[i]
        IN  \/ /\ p.type \in {"secret_regex", "cmd_validate"}
               /\ p.patterns # Absent
               /\ \E r \in ToSet(p.patterns \o p.allow) : Malformed \in r
            \/ p.type \in {"secret_regex", "dir_acl", "repo_access"} /\ p.patterns = Absent
            \/ p.type \in CommandTypes /\ p.command = Absent
            => results[i] = Error

(* To a rule an origin with a user (the scp-like address, ssh or https) or *)
(* over https or http is the same as https://host/path                     *)
(* (repo_access.go:112).  Of one with a port, and of ssh or an scp-like    *)
(* address without a user, nothing is said: the code leaves those in       *)
(* another form.                                                           *)
RepoByIdentity ==
    \A i \in DOMAIN results :
        rules[i].type = "repo_access" /\ InitOK(rules[i], input) /\ input.origin # Absent =>
            LET u == input.origin
                plain == [scheme |-> "https", user |-> FALSE, port |-> Absent,
                          host |-> u.host, path |-> u.path]
                r == InitCheck(New("repo_access"), rules[i])
            IN  u.port = Absent /\ (u.user \/ u.scheme \in {"https", "http"}) =>
                    results[i] = RepoExecute(r, [input EXCEPT !.origin = plain])

(* What README.md:306 says of allow_within_project: everything below the   *)
(* working directory is allowed, by a denylist too.                        *)
WithinProjectAllowed ==
    \A i \in DOMAIN results :
        LET d == rules[i]
            path == input.paths["file_path"]
        IN  /\ d.type = "dir_acl" /\ InitOK(d, input) /\ d.within
            /\ d.mode \in {"", "denylist"}
            /\ d.pathField \in {"", "auto"}
            /\ path # Absent /\ IsPrefix(Clean(input.cwd), Resolve(input.cwd, path))
            => results[i].outcome = "pass"
=============================================================================
