# A verification development for constitution

`constitution` is a program that an AI agent's platform runs as a hook: at
each event (a session starts, the user submits a prompt, a tool is about to
run or has run, the agent wants to stop) the platform starts the binary with a
JSON description of the event on its standard input, and reads from its
standard output and exit code whether to let the event go on. The rules it
enforces come from YAML files of several levels of authority. The same binary
edits those files (`constitution rules ...`), installs itself (`setup`,
`uninstall`) and reports on the configuration (`validate`); a second binary,
`constitutiond`, evaluates rules for remote clients.

This directory holds TLA+ models of the parts of the program where order,
failure and several actors meet, TLC configurations that check them on small
instances, and TLAPS proofs about them for every instance. All paths below are
relative to the repository.

## Inventory

| Component | State it keeps | Operations | Talks to |
|---|---|---|---|
| Hook handler process (`cmd/constitution/main.go`, `internal/hook`) | none beyond one invocation | read the event, load and merge the policy, evaluate, write the answer, exit | platform (stdin, stdout, exit code), configuration files, engine |
| Rule dispatch (`internal/engine`, `internal/hook/dispatcher.go`) | merged policy, table of handlers, one 30 s context per evaluation | filter rules by event and tool, sort by priority, call a handler | handlers, checks |
| Event handlers (`internal/handler`) | the warnings, messages and contexts collected so far | for each rule: create, initialise and execute its check, react | check registry, checks |
| Checks (`internal/check`, `internal/celenv`) | parameters; `secret_yelp` also a baseline file | `Init`, `Execute` | shell commands, `detect-secrets`, the event's fields |
| Discovery and loading (`internal/config/loader.go`, `config.go`) | none | find the files of each level, parse, validate, stamp rules with their origin | file system, environment |
| Policy merge (`internal/config/merge.go`) | the map of rules while it runs | merge rules, settings, remote section, plugins and name; record conflicts | loading, engine, `validate` |
| Rule manager (`cmd/constitution/rules*.go`) | the project's `.constitution.yaml` and its `.bak` | list, add, edit, delete, toggle, save with a backup | file system, the user, hook processes that read the file |
| Setup and uninstall (`cmd/constitution/setup.go`) | `.constitution.yaml`, the platforms' settings files, skill files | write the policy, merge hook entries into settings, remove them | file system, platforms |
| Remote client and fallback (`internal/remote`) | URL, token, timeout | evaluate, audit, health; what to do when unreachable | server |
| Remote server (`internal/server`, `cmd/constitutiond`) | the policy it was started with | evaluate the named rules, log audits, report configuration and health | clients, checks |
| Plugins (`internal/plugin`) | loaded plugins by name | load, get, execute, close | processes, HTTP endpoints |
| Terminal interface, embedded data | | prompts, wizards; workflow and skill texts | the user |

What is hard about these parts, and what makes each correct:

* **Dispatch and handlers** run many fallible checks in one loop, five times
  over, with different forms of answer. Correct means: a block rule that fails
  or whose check errs stops the action, at every event that can be stopped;
  nothing else does; the more urgent rule decides; one rule's error does not
  keep the next from running; a check without time left does what its type
  says; and the invocation ends, if the processes it waits for do.
* **Loading and merging** must hold the authority of levels against missing
  and broken files, against repeated overriding, and against a map that is
  iterated in a different order each time. Correct means: a lower level only
  adds and strengthens, and the user is told of every attempt to do otherwise.
* **The rule manager and setup** change files without a lock and without an
  atomic replacement while hook processes read them: lost updates, truncated
  files, crashes between the write of the backup and of the file, rules that
  make the file unloadable for everyone. Correct means that what a command
  reports as done stays done, that a crash leaves something to recover from,
  and that setup leaves other tools' hooks alone.
* **Remote evaluation** has two deadlines, a fallback, and a server that omits
  what it could not evaluate. Correct means that a rule that nobody could
  evaluate is not taken as passed where the fallback says deny.
* **The checks** read parameters that users write and inputs that agents spell
  in many ways. Correct means that a check finds what its parameters say,
  however it is spelt and whatever rules ran before; that a mistake in the
  parameters errs as a whole; and that what the wizard saves is accepted.

`PROJECT.json` lists every such hazard at its line with the properties that
cover it.

## Modules

| Module | What it is |
|---|---|
| `HookRules` | vocabulary of enforcement: rules, events, `FilterRules`, and one operator per handler that says how it reacts to one rule's result |
| `HookEngine` | one invocation of the hook handler as a state machine |
| `HookDecision` | the abstract promise: one step from an open question to a decision and the evidence it rests on |
| `HookEngineProofs` | proofs about `HookEngine`, among them that it implements `HookDecision` |
| `PolicyFile` | a configuration file and when it is valid |
| `ConfigMerge` | from the files on disk to the merged policy, one file and one rule definition at a time |
| `ConfigMergeProofs` | proofs about `ConfigMerge` |
| `ConfigStore` | `.constitution.yaml` and its `.bak` under the commands that write them, one system call at a time |
| `ConfigStoreProofs` | proofs about `ConfigStore` |
| `HookInstall` | the agent platforms' settings files and skill directories under `setup`, `uninstall` and edits by others |
| `HookInstallProofs` | proofs about `HookInstall` |
| `Remote` | a remote client, the server, its crashes and restarts, and the network between them |
| `RemoteProofs` | proofs about `Remote` |
| `Checks` | the checks of `internal/check`, their parameters, and the loop that applies them |
| `ChecksProofs` | proofs about `Checks` |
| `RuleWizard` | the dialogue that asks for the parameters of a rule, composed with `Checks`, which takes up what it saves |
| `RuleWizardProofs` | proofs about the dialogue and the checks together |
| `Folding` | induction over numbers and sequences and the value of a fold, stated so that proofs can cite them |
| `MCHookEngine`, `MCConfigMerge`, `MCConfigStore`, `MCHookInstall`, `MCRemote`, `MCChecks` | the instances TLC checks |

Operators introduced by a comment "Mutant" are defects on purpose. Nothing
uses them; each stands next to the definition it could replace, and shows that
some property would notice.

### HookEngine

`pc` follows `runHookHandler`: `read` (the event), `load` (the files; the
merge itself is `ConfigMerge`'s), `loop` (inside a handler) and `done`.
`pending` is the part of the slice of matched rules the loop has not reached,
`messages` and `contexts` are the handler's local slices, `output` and
`exitCode` the answer, and `stdout` what of it reached the platform:
`runHookHandler` only logs an error of `WriteOutput` and exits with the code it
had, so the platform may have the exit code alone (`Exit`). `Refused` says that
the handler's answer stops the action, `Stopped` that what the platform got
does. The two differ for a tool call and a stop, which are refused in the
output with exit code 0. `result` is history: what each check returned.

| Code | Action or operator |
|---|---|
| `ReadInput`, and its error path `ExitBlock` | `ReadInput`, `ReadInputFails` |
| no sources, or none that loads: `os.Exit(0)` | `NoConfig` |
| `Engine.Evaluate` up to `Handle` | `Evaluate` |
| `if rule.Remote { continue }` | `SkipRemote` |
| `registry.Get`, `Init` returning an error | `GetFails`, `InitFails` |
| `Execute` of `cmd_check`, `linter` | `ExecuteCommand`, `ExecuteNotApplicable` |
| `Execute` of `secret_yelp` | `ExecuteScan`, `ExecuteNotApplicable` |
| `Execute` of `repo_access`, which asks git | `ExecuteGit` |
| `Execute` of every other check | `ExecuteInProcess` |
| what follows those calls in the loop body | `Return`, with `Handle` for the event |
| the end of the handler, `WriteOutput`, `os.Exit` | `Finish`, and `Exit` wherever a handler returns early |

`sort.Slice` is not stable, so the next rule is any of the most urgent ones
left (`MostUrgent`). A message is the rule it came from, a context whether
there was one, a list of tool patterns the set of names it matches. The verdict
of a check is any it can return: which verdict is right is not the engine's
affair. `clock` advances only in checks that run processes. The context of a
`cmd_check` or `linter` that starts at `clock` expires at `Limit`, the earlier
of its own timeout and the engine's deadline. `CombinedOutput` returns when the
last process that holds its pipe has closed it, at any time up to `MaxDuration`
later, since the kill reaches the shell only; whenever that is, the shell may
have exited with 0 before the limit, so both verdicts are possible. With no
time left a command is not started, which counts as failed. `secret_yelp` and
`repo_access` have the opposite convention: a line that cannot be scanned, or a
git that does not answer, for lack of time too, passes; neither lasts beyond
the deadline.

### HookDecision

The abstract module has one action that matters, `Decide`: from the policy it
gives, on an input it names, `blocked` by one rule, with evidence that this
rule prohibits the action and that every more urgent one was checked and does
not; or `allowed`, with evidence of all rules and the set of failures the user
is told about; or abstains, or refuses an input it cannot read. `HookEngine`
maps to it by taking its answer as open until `pc = "done"` and `result` as
evidence.

### ConfigMerge

`DiscoverConfigSources`, one `LoadSource` per file found, and then either
`TakeSingle` (at most one layer) or, for each rule definition in the order of
authority, `AddRule` or `OverrideRule`, and `Collect`. `defs` and `merged`
stand for the two nested loops of `MergePolicies`; `ruleMap` is its map, with
`order` the insertion counter; `Collect` picks any order of iteration before
`SortByOrder`. The fields of a rule that the merge copies whole are abstracted
to `file`, the file the rule came from. A file that is not YAML is one without
a version: both make `Load` return an error. The two files of one level that
are aliases of each other (`--config .constitution.yaml`) appear as two files
of equal content.

### ConfigStore

A process runs one command after the other. `pc` says where it is, `policy` is
the policy it has in memory, `old` what `saveConfig` read for the backup.

| Code | Action |
|---|---|
| `loadLocalConfig` | `LoadLocalConfig`; a file that does not load ends the command, which changes nothing |
| `cmdRulesAdd` in its three modes | `AddJSON`, `AddFlags`, `AddWizard` |
| `cmdRulesEdit`, `cmdRulesDelete`, `cmdRulesToggle` | `Edit`, `Delete`, `Toggle`, on the rule that `FindRuleIndex` finds |
| `saveConfig`: `ReadFile`, `WriteFile` of the `.bak` | `ReadOld`, `CutBackup`, `FillBackup`, `BackupFails` |
| `wizardInstall`: the loop over the selected rules | `StartSetup`, `TakeRule`, `Install` |
| `WriteFile` of the config, by either | `Cut`, `Fill`, `FillFails` |
| a prompt answered with no, an interrupt, a kill | `Crash` |

A file is absent, empty, text with a version and rules (`Text`), or anything
else that does not parse (`Garbled`). `os.WriteFile` opens with truncation
(`Cut...`) and writes (`Fill...`). A write that fails leaves nothing, garbage,
or a number of whole rules (`Part`), which loads. A write to a file that
another process has filled since the truncation leaves the longer one's tail
behind (`Written`). Reading a file is one step. All edits of one `rules edit`
are one step, since only memory changes; the prompts before a save need none,
since another process may run, or this one end, between any two steps. Hook
processes only read the config, in any state, so what they see is a property
of `main`. The second place `loadLocalConfig` looks in
(`.claude/constitution.yaml`) is left out: which of the two is used does not
change while the commands run, except that setup creates the first.
`committed`, `last`, `lossy` and `cause` are history: what the last command
that reported success wrote; the kind of command that truncated the config
last; whether since the last success a write failed in a way that the next
command does not notice (the `.bak`, whose errors are ignored, or a config cut
off at a point where it still loads); and why what the config holds may not
load: it was so at first, was written unchecked, its writer died or failed, or
two writes overlapped.

### HookInstall

One command treats one platform after the other; `todo` holds the platforms
left, `held` the file it is going to write.

| Code | Action |
|---|---|
| `wizardPlatform`, `wizardSkills`, and the start of the installation | `StartSetup` |
| `installPlatformHooks`, `applyHooks`, `applyHooksCodex` up to the write | `ReadForSetup` with `BuildPlatformHooks`, `ApplyHooks`, `ApplyHooksCodex`; `Panic` |
| `cmdUninstall` up to the write, its `continue`s | `StartUninstall`, `ReadForUninstall`, `Skip` |
| `WriteFile` of the settings, by either | `Cut`, `CutFails`, `Fill`, `FillFails` |
| `installSkills`, `RemoveAll` of the skill | `InstallSkill`, `RemoveSkill` |
| an interrupt, a kill | `Crash` |
| the user, the platform, another tool | `AddGroup`, `DropGroup`, `Replace` |

A file keeps what the code looks at: whether it parses, whether there is an
object `hooks`, and for each event the sequence of its groups, each with the
commands it runs. A group that is not an object with an array `hooks` is odd
(setup drops it, uninstall keeps it), and a value of an event that is no array
is treated by both commands as one odd group is. `Only` picks the groups of a
kind: `Unmarked` is what setup keeps, `Unrelated` what uninstall keeps, `Own`
what runs a binary of constitution. `Foreign` is what is the others' and only
theirs: at an event setup uses, well-formed groups without any command of
constitution; at another event the odd ones as well. A group that another tool
shares with constitution, and an odd entry at an event setup uses, are dropped
by `applyHooks`, in the model as in the code, and `TheirsKept` says nothing of
them (see `codex_hooks` below). Everything else in the file is one value,
`settings`. A file that contains JSON's `null` makes the map nil, and
setup panics on it. Edits by others replace the file in one step; a write to a
file they edited since its truncation ends in either's content or in neither's.
Each scope has its own files, so one is enough; a home directory that is also
the project is left out. Timeouts and status messages of hooks are left out.
The write of `.constitution.yaml` before the hooks is in `ConfigStore`.
`theirs`, `spoiled`, `installed` and `gone` are history: what others last left
in a file, whether it has met one of the three causes of loss that
`TheirsKept` names, which binary's hooks setup wrote last, and which platforms
uninstall has finished with.

### Remote

One call is one hook process that has its remote rules evaluated. `call` is the
client's side (what it asked for, its age, what `Evaluate` returned), `handler`
the goroutine of the request (the policy it serves, its place in the loop, the
results so far, the age of its context and of the check at hand), `wire` what
is in flight between the two, `log` the audit records.

| Code | Action |
|---|---|
| `FilterRemoteRules`, `RemoteRuleIDs`, `Client.Evaluate` up to `Do` | `Evaluate` |
| `Client.Evaluate` from the response on; no connection; its context over | `Receive`, `Refused`, `Timeout` |
| `Client.Audit` with `handleAudit` | `Audit` |
| `ApplyFallback` | `ApplyFallback` |
| `authMiddleware` | `Reject`, `Accept` |
| `handleEvaluate`: the loop, its `continue`s | `Skip`, `CheckErrs`, `RunInProcess`, `StartProcess`, `EndProcess` |
| the encoding of the response, and its `WriteTimeout` | `Respond` |
| `constitutiond`: a signal or a crash; its next start | `Crash`, `Restart` |
| the network | `Lose`, and any delay of a message while `Tick` goes on |

A server that starts again may have another policy and another token. `Tick`
waits for what is due: a client's timer, and a handler between two checks,
since in-process work takes no time. A rule's check is of one of three kinds:
`cel` for all that runs in process, `command`, which fails if its context is
over before it starts, and `scan`, which passes then. A process under way may
run on after its context is over, up to `MaxAge`, and return either verdict, as
in `HookEngine`. `outcome` (what became of each check) and `fault` (what went
wrong for a call) are history. The hook handler calls none of this (see
`remote_rules`), so the caller that blocks on a failed verdict, and on an error
as the fallback says, is the one the documents describe; it appears only in
`DenyFailsClosed`. Health and config endpoints read, and are left out.

### Checks

The handler's loop is a state machine over a list of rules (`Get`, `Init`,
`Execute`), each check an operator from its parameters and the input to an
outcome. The loop is here for what it does with instances: a new one for each
rule.

| Code | Action or operator |
|---|---|
| `Registry.Get`, `New` | `GetCheck`, `Get` |
| `Init` of each check | `InitialiseCheck`, with `InitOK` and `DirInit`, `RepoInit`, `SecretInit`, ... |
| `Execute` of the checks that look at the input | `ExecuteCheck`, with `DirExecute`, `SecretExecute`, `CmdExecute`, `CelExecute`, `RepoExecute`, `PromptExecute`, `SkillExecute` |
| `matchGlob`, `expandHome`, `filepath.Clean` | `MatchGlob`, `ExpandHome`, `Clean` |
| `normalizeRemoteURL` | `NormalizeRemoteURL` |
| `Execute` of `linter` and `cmd_check` | `RunCommand`, `Applies` |
| `secret_yelp`: `WriteFile` of the baseline | `OpenBaseline`, `WriteBaseline`; by another hook process, `OtherOpens`, `OtherWrites` |
| `scanLines`, `scanString` | `ScanLine`, with `ScanFails`, `ScanEnds`, `Excluded`, `Scanned` |

A path is the sequence of its parts, so that `..`, relative paths and `~` are
what they are in the code. Inside a part three relations are given: which names
a part matches (`Fitting`), which begin with it (`Beginning`), and how `**`
splits it (`Pieces`), since `matchGlob` splits at any `**`, also one inside a
name, as in `**.pem` or `key**`. `Home` may be absent, as when `UserHomeDir`
errs. A working directory or file that is the root `/` itself is left out
(`RootAssumption`). A text is the sequence of its lines and a line the
set of its words; a regular expression, and a CEL expression, is the set of the
words it matches, one of which stands for "does not compile". The origin of a
repository keeps its scheme, user, port, host and path, since
`normalizeRemoteURL` treats each form by itself. The reference definitions the
properties compare with are written apart from the code: `Covers` for what a
glob means (each part of the pattern stands for a stretch of the path, and it is
said where each stretch ends), `Reached` for the file a path leads to (a part
counts if no later `..` takes it back), the `https` address for a repository.
Of a given relation between parts and names only this is assumed: no pattern
matches as a name what `.`, `..` and an empty part are (`FittingAssumption`),
since a pattern with wildcards is spelled with them. `Plain` says which patterns
the code supports: those without `**`, and those with one that is a part of its
own, has names without wildcards before it and at most a file name behind it.
Others (two `**`, one inside a name, a wildcard before one) it treats in ways no
document describes; the model treats them in the same ways, and no property
speaks of them. `missed` is history: the lines whose scan failed. Two things the
model shows beside its properties: `exclude_secrets` of `secret_yelp` is stored
and used by nothing, although README.md has it in an example; and the baseline
file of one hook process may be truncated by another that started in the same
second, since the name depends on the contents only, which hold the time in
seconds. A line scanned at that moment counts as clean.

### RuleWizard

`asked` is the list of questions left, `draft` the rule so far.

| Code | Action or operator |
|---|---|
| `wizardParams` and the ten functions it calls | `Questions`, `OtherQuestions` |
| `promptChoice`, `promptYN`, `checklist` | `Choose`, from `Options` |
| `promptStringRequired`, `promptMultiline`, `promptRegex`, the loops | `EnterAnswer` with `Accepts`, `Another`; `Leave` |
| `wizardParamsPromptModify` and `...SkillInject` calling themselves | `AskAgain` |
| preview, "Save this rule?" | `Decide` |

`fmt.Fscanln` into one string takes one word. The rest of the line, less a
character, stays for the next prompt, so an answer need not have been meant for
the question that gets it, and each prompt of the model gets any answer. (One
consequence is plain: a command of several words, like those the hints of the
linter suggest, cannot be entered.) A saved rule becomes `rules`, and the steps
of `Checks` say whether its check takes it.

## Runs

| Run | Instance | Shows |
|---|---|---|
| `hook_engine` | policies of 3 rules from 5, and of 2 rules from 40, one of them of the more urgent priority, beside a disabled third; every event; answers that cannot be written; deadline 2, timeout 3, processes up to 3 | `FailClosed`, `NoSpuriousBlock`, `UrgentFirst`, `ReportInOrder`, `ImplementsDecision`, `EveryRuleChecked`, `LateChecks`, `Terminates` |
| `remote_rules` | 2 rules from 5 | violation of `RemoteRulesChecked` |
| `warnings_shown` | 2 rules from 5 | violation of `WarningsShown` |
| `config_merge` | 4274 file systems, with and without `--config` and the environment variable | `NotWeakened`, `FirstDecides`, `ConflictsExact`, `RulesFromFiles`, `UserRulesBind`, `SettingsByAuthority` |
| `remote_section` | the same | violation of `RemoteOfHighestEnabled` |
| `config_store` | 1 process, policies of up to 2 rules with 2 ids, one of them a numeral, 5 rules to add, 3 of which do not load | `UnloadableForCause`, `BackedUp`, `CommittedKept`, `OneChangeAtATime` |
| `setup_over_rules` | as `config_store` | violation of `RulesPreserved` |
| `hook_install` | both platforms, 2 binaries, 4 first contents of Claude Code's file, which others edit at one event of up to 2 groups, and 1 of Codex's | `TheirsKept`, `OwnHooksOnce`, `UninstallClean` |
| `codex_hooks` | the same | violation of `TheirsKeptEverywhere` |
| `remote` | 1 call, 2 ids, 3 policies of 2 rules, client timeouts 1, 3 and 4, deadline 2, write timeout 3, processes up to 4, 1 restart | `AnswerComplete`, `ErrorHasCause`, `VerdictsLogged`, `DenyFailsClosed`, `CallsEnd`, `HandlersEnd` |
| `checks` | 11,347 lists of one or two rules with an input, and on 3 inputs a dialogue of each of the 10 types with lists of up to 2 | `Independent`, `DenylistCovers`, `SecretsFound`, `ScannedToTheEnd`, `MistakesErr`, `RepoByIdentity`, `WizardAccepted` |
| `within_project` | the same | violation of `WithinProjectAllowed` |

Bounds. Two rules show every pair of reactions and every order of two
priorities, ties included; a third adds a rule between two others, and a
policy in which a slow check exhausts the deadline before the last rule. The
deadline of 2 leaves room for a check that ends early, one that ends exactly at
the deadline and one that outlives it; the timeout of 3 lies beyond the
deadline, as the 30 s of a command do when an earlier one took some of them. For
the merge, three layers are the most that can
exist at once that define rules (home, one of flag and environment, one of the
project's two), and the file systems are all combinations of
present/missing/broken files at the five paths, all combinations of one rule
defined three times in every variant of enabled, severity and priority, two
rules in all orders over three layers, and all combinations of the sections
other than rules.

For the store, one process is the case its recovery properties are about:
commands that follow one another, in any number, each of which may die or fail
at any step. Two rules are enough for a change to hit the wrong one, or more
than one, for the two ids to collide, and for a position to be taken for an id;
the initial file may be missing, empty of rules, full, or broken.

For the installation, two groups at an event are enough for others' hooks to
come before, between and after constitution's, the two binaries for an upgrade
that has to find the old one's hooks, and the two platforms for the command to
die with one of them done. Others edit only one of the files: what is done to
one file does not depend on the other. The first content with hooks has a group
of each kind: at an event setup uses another tool's, an odd one, and one that
another tool shares with an old version, which setup and uninstall drop; at one
it does not use an odd one and an old version's.

For the remote service, requests do not share anything but the server's policy
and token, so one call beside a server that may die and change shows what a
client can meet; `VerdictsLogged` is stated per call for the same reason. Two
rules are enough for one of a policy to be wanted, missing, disabled, failing
or erring beside the other; the client timeouts lie below, at and beyond the
times the server allows itself, and two processes of a policy together exceed
its deadline.

For the checks, every rule stands alone on every input of its kind, and before
each other of its type (for `dir_acl`, before one that reads another field),
which is where instances could mix. The paths name covered and uncovered files
absolutely, from the working directory, with `.` and `..`, and with names that
only begin like a covered one; texts have up to three lines for `secret_yelp`,
each blank, clean, with a secret, excluded, or too long, with both outcomes
of the scan at each, and another process writing the baseline at any moment.

Deadlock checking is off for an invocation, a merge, a call and a list of
checks, which end; the store and the installation are checked with it on, since
a new command can always start.

Fairness. `HookEngine` assumes weak fairness of its next step: the handler is
one goroutine that waits for nothing but the process it started, and
`ExecuteCommand` lets that process last up to `MaxDuration`. That a command's
last descendant ends at all is an assumption the code does not enforce
(`CombinedOutput` has no `WaitDelay`): one that keeps the pipe keeps the
handler, and only the platform's own timeout ends the invocation. `Terminates`
and `HandlersEnd` show that nothing else keeps it. `Remote` assumes it of the
passing of time, of the client's timer and of each request's goroutine, with
the same assumption on processes (`MaxAge`); not of the network, which may lose
any message, and not of the server's restart. `ConfigMerge` and `Checks` have
no liveness property, and `ConfigStore` and `HookInstall` no fairness: users
run commands when they like.

What the violations say:

* `remote_rules`: handlers skip rules with `remote: true`, and nothing sends
  them to the service README.md describes.
* `warnings_shown`: README.md says a `warn` rule adds a warning to
  `systemMessage`. At SessionStart, UserPromptSubmit and Stop its failure is
  dropped silently.
* `remote_section`: README.md says the highest level with `enabled: true`
  decides on the remote section; `mergeRemote` also takes a section that only
  has a URL.
* `setup_over_rules`: HOWTO.md says setup never overwrites the rules of
  `.constitution.yaml`; `wizardInstall` writes a policy made of the user's
  selection only over whatever is there, without a backup.
* `codex_hooks`: the `constitution` skill says setup preserves other hooks.
  For Codex `applyHooksCodex` assigns constitution's entries to each event it
  uses, whatever was there; `applyHooks` merges (`TheirsKept`). For Claude Code
  the sentence does not hold either of a command in a group that also runs
  constitution, nor of an odd entry: `applyHooks` drops both at the events it
  uses (setup.go:546-560), and uninstall drops the shared group.
* `within_project`: README.md says of `allow_within_project`: "Allow
  everything within CWD". `DirACL.Execute` enters the branch for such a path and
  then, in a denylist (the default mode), denies it as any other. The trace has a rule without a mode.

Two more sentences of the documents differ from the code in a way that is plain
from one line, and have no run. README.md:232 says an `audit` rule only logs; at
PostToolUse the handler reports its failure to the agent like any other
(`PostToolUse` in `HookRules`), and `ImplementsDecision` is stated with that.
README.md:483 and 505 give a `cmd_check` a timeout of 120 s; the engine's
context ends it after 30 s (engine.go:47), which `Limit` says.

`UninstallClean` is about platforms uninstall has finished with. It passes over
a platform without readable hooks, and then over the skill too: after an
uninstall that died between the two, or hooks removed by hand, the skill stays
however often uninstall runs.

## Proofs

`HookEngineProofs` holds for any set of rules, any policies, deadline,
timeout and maximal duration. The properties are not inductive: `FailClosed`
speaks of the final state only. The inductive invariant `IInv` says what is
true in each phase. Before the loop nothing has run and nothing is collected.
In the loop the rules that ran are exactly the matched local ones that have
left `pending`, none of those is less urgent than one still pending, no
blocker is among them (unless the event cannot be stopped), and `messages`
holds exactly the failures this handler reports, in order. At the end the
answer is one of three: nothing ran; everything ran and the parts are the
collected ones; or one blocking rule, the only blocker, with all more urgent
rules done. From `IInv` follow the type invariant, the four safety
invariants, the two action properties, and that every step is a step of
`HookDecision` or leaves its variables unchanged. Each action has a lemma; the
reactions of the five handlers are reduced to one lemma (`Reaction...`), so
that the step proofs do not split on events.

`ConfigMergeProofs` holds for any files. `NotWeakened` and `FirstDecides` are
inductive together with the types of the loaded rules and the fact that
nothing is merged before loading ends; the heart is the lemma `StrengthenDef`
about one override. The assumptions are the ones the modules state about their
constants, and nothing else.

`ConfigStoreProofs` holds for any rules, policies of any length and any initial
file. Two inductive invariants are used. `VettedInv` holds for any number of
processes at once: with the types it says that a process holds a policy that
loads unless it got it from `rules add` with `--json` or flags; the lemma
`Modification` reduces the six changes to what matters of them (one change, and
still loadable), and `WrittenType` and `PartType` cover overlapping and partial
writes. `StoreInv` needs the hypothesis `OneWriter`, that there is only one
process, and says for each `pc` what the two files hold: until the truncation
the config loads and differs from the policy in memory by one change, from the
copy on the `.bak` equals it, after the truncation the `.bak` is what was
committed. That what loads was committed (`LoadsCommitted`) is the strengthening
that makes `CommittedKept` inductive: a new command backs up what it loaded,
and that must not be an older policy. With two processes `BackedUp` fails, so
`OneWriter` cannot be dropped: nothing keeps another command from writing the
config after the copy for the `.bak` was read and before the truncation.
`UnloadableForCause` needs no such hypothesis. It follows from `VettedInv` and
`CauseKnown`: a config that no open write explains and that has no cause is one
that loads, because the last writer wrote alone, to the end, and a policy that
loads. With several commands it is proved only; the run has one.

`ConfigMergeProofs` goes on from there to the merged policy. `ResultInv` traces
every definition to a position in a file (`InPlace`: the definitions are the
rules of the layers, in order, none left out), says which files are found and
in what order (`Found`), and orders the entries of the map by the first
definition of their identifiers (`Entries`). From it follows `RulesFromFiles`:
whatever order the map is iterated in, `SortByOrder` ends in the order in which
the rules first occur, and each is what the files say. `SettingsByAuthority`
needs in addition that no file is loaded twice (`Apart`). `ConflictsExact` is a
conjunct of the first invariant.

`HookInstallProofs` holds for any files, any groups and any edits. `IInv` says
of a command what it holds in memory once it has read a file (`Held`: all that
is the others', and the hooks of one binary or none of constitution's), and of
the file that between truncation and write it is empty unless somebody edited
it (`Truncated`); with these the three properties are inductive. The lemmas
about `Only` (it keeps types and orders, distributes over concatenation, and
one kind in another is the narrower one) are proved by induction over
sequences. `TheirsKept` is about what `Foreign` says is only the others',
excepts the causes it names, and `OwnHooksOnce` asks that setup recognise the
binaries it installs (`Binaries` within `Constitutional`): the code looks for
the word in the command.

`RemoteProofs` holds for any number of calls and rules, any policies, timeouts
and deadlines. `IInv` relates the two sides of a call (`CallInv`), says of a
handler what the rules before its place in the loop have come to (`LoopInv`),
keeps the ages of client and server equal while nothing has gone wrong
(`TimeInv`, from which `ErrorHasCause` follows: an untroubled server answers
before a client with more time than the deadline gives up) and ties the log to
the outcomes (`LogInv`).

`ChecksProofs` holds for any rules, inputs and patterns, texts of any length,
and other hook processes at any moment. `IInv` says that the instance at hand
is the rule's own (`InstanceInv`), what an outcome can be (`ResultsInv`), and
that the lines behind a scan need not fail (`ScanInv`). The properties about
verdicts follow from the outcome being that of the rule's own instance.
`DenylistCovers` rests on two arguments about sequences of any length:
`CleanReached`, that `filepath.Clean`, which goes back at each `..`, ends where
the path leads, for which the lemma `PopEntered` says what remains of the path
cleaned so far after any number of further `..`; and `CoveredMatches`, that
the code's literal comparison of prefix and last part finds every file a plain
pattern covers. A pattern with `~` is also cleaned by `expandHome`;
`CoveringClean` says that this changes no pattern that covers a file.

`RuleWizardProofs` holds for any answers and lists of any length. `DraftInv`
says that of a rule in the making only what is still to be asked is missing
(`Answered`), and that a saved rule is the only one; with the invariant of
`Checks` it gives `WizardAccepted`, and `SavedRulesChecked` carries the six
properties of the checks over to the rules that the dialogue saves.
`WizardAccepted` excepts what the dialogue does not look at: CEL expressions,
the exceptions of a `secret_regex`, and what `secret_yelp` needs to run.
`MistakesErr` is about expressions that do not compile and about patterns or a
command that are missing; an empty expression and an unknown mode are none to
the code. `RepoByIdentity` is about origins without a port that have a user or
are `https` or `http`; `normalizeRemoteURL` leaves others in a form of their
own.

Assumptions. Constants are assumed to have their types, and otherwise: a value
that stands for absence is no value of the kind it is absent from
(`AbsentAssumption`, `NoEntryAssumption`, `NoFileAssumption` and the like); the
home directory, if there is one, and the working directory are absolute, and no
path at hand is the root (`HomeAssumption`, `ScenariosAssumption`,
`RootAssumption`); `**` splits a part into two pieces at least, and as a part of
its own into two empty ones (`PiecesAssumption`); a file that is missing
or empty, or has no hooks, holds none (`InitialFilesAssumption`); the server's
deadline ends before its write timeout, and the policy it serves, the
one file that `constitutiond` loads (main.go:34) and `Load` validates, has each
identifier once (`DeadlinesAssumption`, `PoliciesAssumption` of
`Remote`). TLC evaluates all of them in the runs.

Induction. The provers cannot instantiate the library's induction theorems,
which take a predicate as a parameter. `Folding` states the same principles for
sets instead (a set of numbers with 0 that is closed under successor holds all
of them; a set of sequences with the empty one that is closed under appending
holds all of them) and says that a fold has a history, its value after each
element, about which one can then argue from one element to the next. The
recursion of the models is written as recursive functions or folds for this
reason.

Only model-checked is liveness: `Terminates` of an invocation, `CallsEnd` and
`HandlersEnd` of the remote service. Every other property of a passing run is
stated by a theorem.

## Plan

1. `rules edit` that changes the type of a check and keeps the parameters of
   the old one: `Edit` in `ConfigStore` composed with `InitOK` of `Checks`.
2. `UninstallClean` for the skill after an uninstall that died between hooks and
   skill, as a statement of what has to be done by hand.
3. That the invariants proved of one process of `ConfigStore` and the merge
   compose: what `rules add` commits is in the policy that the next invocation
   merges.

## Not modelled

* Plugins beyond the merge of their configurations: no command creates a plugin
  manager, and no check runs a plugin, so the program has no behaviour there.
* What is the platform's: how often an agent tries again after a Stop hook
  blocked, and the platform's own timeout for a hook. Nothing in this code
  counts attempts or looks at `stop_hook_active`.
* `rules edit` changing the type of a check and keeping its parameters: the
  models give rules of different types different parameters, and `Edit` in
  `ConfigStore` does not look at them.
* Drawing menus and reading keys in `tui.go`, printing (`validate`, `rules
  list`, previews), logging, embedded workflow and skill texts.
* What shell commands and `detect-secrets` do: any outcome.
