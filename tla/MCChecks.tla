------------------------------ MODULE MCChecks ------------------------------
(* An instance of Checks and RuleWizard for TLC: rules of each type, alone *)
(* and in pairs, and those the dialogue makes, on inputs that tell them    *)
(* apart.                                                                  *)
EXTENDS RuleWizard, TLC

CONSTANTS key, sample, other

MCWords == {key, sample, other}
MCHome == <<"", "home", "me">>
MCFitting == {<<"*.pem", "cert.pem">>, <<"**.pem", "cert.pem">>}
MCBeginning == {<<"etcetera", "etc">>, <<"keys", "key">>}
MCPieces ==
    [part \in {"**", "**.pem", "key**", "**e**"} |->
        CASE part = "**"     -> <<"", "">>
          [] part = "**.pem" -> <<"", ".pem">>
          [] part = "key**"  -> <<"key", "">>
          [] part = "**e**"  -> <<"", "e", "">>]

P(type) == Unset(type)

In ==
    [tool |-> "Write", cwd |-> <<"", "srv", "app">>,
     paths |-> [f \in PathFields |-> Absent], texts |-> [f \in TextFields |-> <<>>],
     command |-> Absent, origin |-> Absent, file |-> Absent, installed |-> TRUE]

Over(ruleLists, inputs) == {[rules |-> r, input |-> i] : r \in ruleLists, i \in inputs}

Patterns ==
    {<<"", "etc", "**">>, <<"**", ".env">>, <<"~", ".ssh", "**">>, <<"..", "**">>,
     <<"", "etc", "**", "*.pem">>, <<"", "srv", "app", "*">>, <<"**", "keys", "**">>,
     <<"**.pem">>, <<"", "srv", "app", "key**">>, <<"**e**">>, <<"src", "**", "">>}

Paths ==
    {<<"", "etc", "passwd">>, <<"", "etc", "ssl", "cert.pem">>, <<"", "etcetera", "x">>,
     <<"", "srv", "app", "..", "..", "etc", "passwd">>, <<"", "home", "me", ".ssh", "id">>,
     <<"", "srv", "app", "keys", "id">>, <<".env">>, <<"cfg", "..", ".env">>, <<".", "main">>,
     <<"..", "..", "..", "etc", "passwd">>, <<"", "etc">>, Absent}

DirRules ==
    {[P("dir_acl") EXCEPT !.patterns = ps, !.mode = m, !.within = w] :
        ps \in {<<p>> : p \in Patterns} \cup {<<p, <<"", "etc", "**">>>> : p \in Patterns}
               \cup {Absent}, m \in {"", "allowlist", "deny"}, w \in BOOLEAN}
ByPath == [P("dir_acl") EXCEPT !.patterns = <<<<"", "etc", "**">>>>, !.pathField = "path"]
DirInputs ==
    {[In EXCEPT !.paths["file_path"] = p] : p \in Paths} \cup
    {[In EXCEPT !.paths["path"] = p] : p \in Paths}

TextRules ==
    {[P(type) EXCEPT !.patterns = ps, !.allow = a] :
        type \in {"secret_regex", "cmd_validate"},
        ps \in {Absent, <<{}>>, <<{key}>>, <<{key}, {Malformed}>>, <<{key, sample}>>},
        a \in {<<>>, <<{sample}>>, <<{Malformed}>>}}
CelRules ==
    {[P("cel") EXCEPT !.expression = e] : e \in {{}, {Malformed}, {key}}}
Texts(field, words) == [f \in TextFields |-> IF f = field THEN <<words>> ELSE <<>>]
TextInputs ==
    {[In EXCEPT !.texts = Texts("content", ws)] : ws \in SUBSET {key, sample}} \cup
    {[In EXCEPT !.tool = "Edit", !.texts = Texts("new_string", ws)] :
        ws \in SUBSET {key, sample}} \cup
    {[In EXCEPT !.tool = "Bash", !.texts = Texts("command", {w}), !.command = w] :
        w \in {key, sample}}

RepoRules ==
    {[P("repo_access") EXCEPT !.patterns = ps, !.mode = m, !.detectFrom = d] :
        ps \in {Absent, <<<<"github.com", "acme", "*">>>>, <<<<"app">>>>},
        m \in {"", "denylist", "deny"}, d \in {"", "directory"}}
RepoInputs ==
    {[In EXCEPT !.origin = u] : u \in
        [scheme : {"scp", "ssh", "https", "http"}, user : BOOLEAN, port : {Absent, "22"},
         host : {"github.com"}, path : {<<"acme", "app">>, <<"other", "app">>}]}
        \cup {In}

YelpRules ==
    {[P("secret_yelp") EXCEPT !.exclude = e, !.plugins = p] :
        e \in {{}, {sample}}, p \in BOOLEAN}
YelpInputs ==
    LET lines == {{}, {other}, {key}, {key, sample}, {TooLong}}
    IN  {[In EXCEPT !.texts = [f \in TextFields |-> IF f = "content" THEN t ELSE <<>>],
                    !.installed = i] :
            t \in UNION {[1..n -> lines] : n \in 1..3}, i \in BOOLEAN}

CommandRules ==
    {[P(t) EXCEPT !.command = c, !.extensions = e] :
        t \in CommandTypes, c \in {Absent, "run"}, e \in {{}, {"*.pem"}}}

ContextRules ==
    {[P("prompt_modify") EXCEPT !.prepend = p, !.system = s, !.append = a] :
        p \in {Absent, "first"}, s \in {Absent, "system"}, a \in {Absent, "last"}} \cup
    {[P("skill_inject") EXCEPT !.text = t, !.file = f] :
        t \in {Absent, "text"}, f \in {Absent, "skill.md"}} \cup
    {P("plugin")}
ContextInputs == {In, [In EXCEPT !.file = "content"]}

MCAnswers ==
    LET regexes == {{}, {key}, {key, sample}, {Malformed}}
    IN  [q \in {"patterns", "allow", "exceptions", "expression"} |-> regexes]
        @@ [q \in {"paths"} |-> {<<"", "etc", "**">>, <<"github.com", "acme", "*">>}]
        @@ [q \in {"extensions"} |-> {"*.pem"}]
        @@ [q \in {"exclude"} |-> {sample}]
        @@ [q \in {"command", "system", "prepend", "append", "text", "file"} |-> {"entered"}]
WizardInputs ==
    {[In EXCEPT !.paths["file_path"] = <<"", "etc", "ssl", "cert.pem">>,
                !.texts = Texts("content", {key}), !.installed = i] : i \in BOOLEAN} \cup
    {[In EXCEPT !.tool = "Bash", !.command = key, !.texts = Texts("command", {key})]}

MCScenarios ==
    Over({<<r>> : r \in DirRules}, DirInputs)
    \cup Over({<<r, ByPath>> : r \in {d \in DirRules : d.patterns # Absent /\ Len(d.patterns) = 1}},
              DirInputs)
    \cup Over({<<r, s>> : r, s \in {t \in TextRules : t.type = "secret_regex"}}, TextInputs)
    \cup Over({<<r, s>> : r, s \in {t \in TextRules : t.type = "cmd_validate"}}, TextInputs)
    \cup Over({<<r>> : r \in CelRules}, TextInputs)
    \cup Over({<<r>> : r \in RepoRules}, RepoInputs)
    \cup Over({<<r, s>> : r, s \in {t \in RepoRules : t.detectFrom = ""}}, {In})
    \cup Over({<<r>> : r \in ContextRules}, ContextInputs)
    \cup Over({<<r>> : r \in YelpRules}, YelpInputs)
    \cup Over({<<r>> : r \in CommandRules}, DirInputs)
    \cup Over({<<>>}, WizardInputs)
=============================================================================
