---------------------------- MODULE ConfigStore ----------------------------
(***************************************************************************)
(* The project's .constitution.yaml and its .bak, under the commands that  *)
(* write them: `constitution rules` (load, change, saveConfig) and         *)
(* `constitution setup` (wizardInstall).  Nothing locks the files.  Each   *)
(* os.WriteFile is two steps, the open that truncates and the write;       *)
(* between any two steps another process may run or this one may die, and  *)
(* a write may fail half way.  A command that cannot load the file ends    *)
(* without changing anything.                                              *)
(***************************************************************************)
EXTENDS PolicyFile

CONSTANTS
    Procs,              \* processes; each runs one command after the other
    Numeral,            \* the number an id reads as, 0 if it is none
    RuleSpace,          \* the rules a user may add
    ShippedRules,       \* the rules setup has to offer
    Behaviors,          \* what an edit may make of a rule
    InitialFiles,       \* what .constitution.yaml may hold at first
    MaxRules            \* bound: the rules a policy grows to

ASSUME NumeralAssumption == Numeral \in [RuleIds -> Nat]
ASSUME RuleSpaceAssumption == RuleSpace \subseteq Rule
ASSUME ShippedAssumption ==
    /\ ShippedRules \subseteq Rule
    /\ \A r \in ShippedRules : r.id # NoId /\ r.complete /\ r.severity \in Severities
ASSUME BehaviorsAssumption ==
    Behaviors \subseteq [enabled : BOOLEAN, severity : Severities, priority : 1..100]

VARIABLES
    main,       \* .constitution.yaml
    bak,        \* .constitution.yaml.bak
    pc,         \* where each process is
    cmd,        \* the command it runs
    policy,     \* the rules of the policy it has in memory
    old,        \* what saveConfig read for the backup
    committed,  \* history: what the last command that succeeded wrote
    last,       \* history: the kind of command that truncated main last
    lossy,      \* history: since then a write failed and nobody noticed
    cause       \* history: why what main holds may not load

vars == <<main, bak, pc, cmd, policy, old, committed, last, lossy, cause>>

(* The content of a file: YAML text with a version and rules, or not. *)
Absent      == [state |-> "absent", rules |-> <<>>]
Empty       == [state |-> "empty", rules |-> <<>>]
Garbled     == [state |-> "garbled", rules |-> <<>>]
Text(rules) == [state |-> "text", rules |-> rules]

File == [state : {"absent", "empty", "garbled", "text"}, rules : Seq(Rule)]

ASSUME InitialFilesAssumption == InitialFiles \subseteq File

(* config.Load *)
Loads(file) == file.state = "text" /\ Validate(file.rules)

Causes == {"none", "initial", "unchecked", "overlap", "died", "failed"}

Commands == {"none", "json", "flags", "wizard", "edit", "delete", "toggle", "setup"}

TypeOK ==
    /\ main \in File
    /\ bak \in File
    /\ pc \in [Procs -> {"idle", "change", "install", "backup", "cutBackup",
                         "fillBackup", "cut", "fill"}]
    /\ cmd \in [Procs -> Commands]
    /\ policy \in [Procs -> Seq(Rule)]
    /\ old \in [Procs -> File]
    /\ committed \in File
    /\ last \in {"none", "rules", "setup"}
    /\ lossy \in BOOLEAN
    /\ cause \in Causes

Init ==
    /\ main \in InitialFiles
    /\ bak = Absent
    /\ pc = [p \in Procs |-> "idle"]
    /\ cmd = [p \in Procs |-> "none"]
    /\ policy = [p \in Procs |-> <<>>]
    /\ old = [p \in Procs |-> Absent]
    /\ committed = main
    /\ last = "none"
    /\ lossy = FALSE
    /\ cause = IF Loads(main) THEN "none" ELSE "initial"

-----------------------------------------------------------------------------
(* Helpers *)

Go(p, from, to) == pc[p] = from /\ pc' = [pc EXCEPT ![p] = to]

(* The process ends, for whatever reason, and forgets what it held. *)
End(p) ==
    /\ pc' = [pc EXCEPT ![p] = "idle"]
    /\ cmd' = [cmd EXCEPT ![p] = "none"]
    /\ policy' = [policy EXCEPT ![p] = <<>>]
    /\ old' = [old EXCEPT ![p] = Absent]

(* What a file may hold after data was written at its beginning.  It was   *)
(* empty when the process opened it; if another process has written to it  *)
(* since, what is longer than the data stays behind the data.              *)
Written(file, data) ==
    IF file = Empty THEN {data}
    ELSE IF data = Empty THEN {file}
    ELSE {data, Garbled}
            \cup {Text(data.rules \o SubSeq(file.rules, k, Len(file.rules))) :
                     k \in DOMAIN file.rules}

(* What of the data a write that fails has written. *)
Part(data) ==
    {Empty, Garbled} \cup {Text(SubSeq(data.rules, 1, k - 1)) : k \in DOMAIN data.rules}

(* The position a rule is named by: a number in range is one, anything     *)
(* else is an id.                                                          *)
FindRuleIndex(rules, id) ==
    IF Numeral[id] \in DOMAIN rules
    THEN {Numeral[id]}
    ELSE {i \in DOMAIN rules : rules[i].id = id}

-----------------------------------------------------------------------------
(* constitution rules *)

(* Mutant: what cannot be loaded is taken for a policy without rules. *)
LoadAnyway(p) ==
    /\ Go(p, "idle", "change")
    /\ policy' = [policy EXCEPT ![p] = main.rules]
    /\ UNCHANGED <<main, bak, cmd, old, committed, last, lossy, cause>>

(* Each subcommand begins with loadLocalConfig. *)
LoadLocalConfig(p) ==
    /\ Go(p, "idle", "change")
    /\ Loads(main)
    /\ policy' = [policy EXCEPT ![p] = main.rules]
    /\ UNCHANGED <<main, bak, cmd, old, committed, last, lossy, cause>>

(* The policy in memory changes and is about to be saved. *)
Change(p, command, rules) ==
    /\ Go(p, "change", "backup")
    /\ cmd' = [cmd EXCEPT ![p] = command]
    /\ policy' = [policy EXCEPT ![p] = rules]
    /\ UNCHANGED <<main, bak, old, committed, last, lossy, cause>>

(* The rule read from stdin is appended as it is; that of the flags needs  *)
(* an id, events and a check type; the wizard takes only what loads.       *)
AddJSON(p) ==
    /\ Len(policy[p]) < MaxRules
    /\ \E r \in RuleSpace : Change(p, "json", Append(policy[p], r))

AddFlags(p) ==
    /\ Len(policy[p]) < MaxRules
    /\ \E r \in RuleSpace : /\ r.id # NoId /\ r.complete
                            /\ Change(p, "flags", Append(policy[p], r))

(* Mutant: wizardIdentity does not look at the ids there are. *)
WizardAnyId(p) ==
    /\ Len(policy[p]) < MaxRules
    /\ \E r \in RuleSpace :
          /\ r.id # NoId /\ Numeral[r.id] = 0
          /\ r.complete /\ r.severity \in Severities /\ r.priority \in 1..100
          /\ Change(p, "wizard", Append(policy[p], r))

AddWizard(p) ==
    /\ Len(policy[p]) < MaxRules
    /\ \E r \in RuleSpace :
          /\ r.id # NoId /\ Numeral[r.id] = 0
          /\ \A i \in DOMAIN policy[p] : policy[p][i].id # r.id
          /\ r.complete /\ r.severity \in Severities /\ r.priority \in 1..100
          /\ Change(p, "wizard", Append(policy[p], r))

(* The edits of one rule in memory, up to "Done".  Events and check type   *)
(* can be replaced but not removed, and the id stays.                      *)
Edit(p) ==
    \E id \in RuleIds : \E i \in FindRuleIndex(policy[p], id),
       behavior \in Behaviors :
          Change(p, "edit",
                 [policy[p] EXCEPT ![i] = [@ EXCEPT !.enabled = behavior.enabled,
                                                    !.severity = behavior.severity,
                                                    !.priority = behavior.priority]])

(* Mutant: the rest is cut off with the rule. *)
Truncate(rules, i) == SubSeq(rules, 1, i - 1)

Without(rules, i) == SubSeq(rules, 1, i - 1) \o SubSeq(rules, i + 1, Len(rules))

Delete(p) ==
    \E id \in RuleIds : \E i \in FindRuleIndex(policy[p], id) :
       Change(p, "delete", Without(policy[p], i))

(* Mutant: the state is written over the column beside it. *)
ToggleLabel(p) ==
    \E id \in RuleIds : \E i \in FindRuleIndex(policy[p], id) :
       Change(p, "toggle", [policy[p] EXCEPT ![i].severity = "DISABLED"])

Toggle(p) ==
    \E id \in RuleIds : \E i \in FindRuleIndex(policy[p], id) :
       Change(p, "toggle", [policy[p] EXCEPT ![i].enabled = ~@])

ModifyPolicy(p) ==
    \/ AddJSON(p)
    \/ AddFlags(p)
    \/ AddWizard(p)
    \/ Edit(p)
    \/ Delete(p)
    \/ Toggle(p)

(* saveConfig, first half: the backup.  Its errors are ignored. *)

(* Mutant: what is about to be written is backed up. *)
BackUpNew(p) ==
    /\ Go(p, "backup", "cutBackup")
    /\ old' = [old EXCEPT ![p] = Text(policy[p])]
    /\ UNCHANGED <<main, bak, cmd, policy, committed, last, lossy, cause>>

ReadOld(p) ==
    /\ Go(p, "backup", "cutBackup")
    /\ old' = [old EXCEPT ![p] = main]
    /\ UNCHANGED <<main, bak, cmd, policy, committed, last, lossy, cause>>

CutBackup(p) ==
    /\ Go(p, "cutBackup", "fillBackup")
    /\ bak' = Empty
    /\ UNCHANGED <<main, cmd, policy, old, committed, last, lossy, cause>>

FillBackup(p) ==
    /\ Go(p, "fillBackup", "cut")
    /\ bak' \in Written(bak, old[p])
    /\ UNCHANGED <<main, cmd, policy, old, committed, last, lossy, cause>>

(* The .bak cannot be opened, or only a part of it is written. *)
BackupFails(p) ==
    /\ \/ /\ Go(p, "cutBackup", "cut")
          /\ UNCHANGED bak
       \/ /\ Go(p, "fillBackup", "cut")
          /\ \E part \in Part(old[p]) : bak' \in Written(bak, part)
    /\ lossy' = TRUE
    /\ UNCHANGED <<main, cmd, policy, old, committed, last, cause>>

-----------------------------------------------------------------------------
(* constitution setup: wizardInstall takes each rule of the user's         *)
(* selection whose id it has not seen, and writes the file.                *)

StartSetup(p) ==
    /\ Go(p, "idle", "install")
    /\ cmd' = [cmd EXCEPT ![p] = "setup"]
    /\ UNCHANGED <<main, bak, policy, old, committed, last, lossy, cause>>

TakeRule(p) ==
    /\ pc[p] = "install"
    /\ Len(policy[p]) < MaxRules
    /\ \E r \in ShippedRules :
          /\ \A i \in DOMAIN policy[p] : policy[p][i].id # r.id
          /\ policy' = [policy EXCEPT ![p] = Append(@, r)]
    /\ UNCHANGED <<main, bak, pc, cmd, old, committed, last, lossy, cause>>

Install(p) ==
    /\ Go(p, "install", "cut")
    /\ UNCHANGED <<main, bak, cmd, policy, old, committed, last, lossy, cause>>

-----------------------------------------------------------------------------
(* Writing .constitution.yaml *)

Cut(p) ==
    /\ Go(p, "cut", "fill")
    /\ main' = Empty
    /\ last' = IF cmd[p] = "setup" THEN "setup" ELSE "rules"
    /\ cause' = IF \E q \in Procs \ {p} : pc[q] = "fill" THEN "overlap" ELSE "none"
    /\ UNCHANGED <<bak, cmd, policy, old, committed, lossy>>

Fill(p) ==
    /\ pc[p] = "fill"
    /\ main' \in Written(main, Text(policy[p]))
    /\ committed' = Text(policy[p])
    /\ lossy' = FALSE
    /\ cause' = IF cmd[p] \in {"json", "flags"} THEN "unchecked" ELSE cause
    /\ End(p)
    /\ UNCHANGED <<bak, last>>

(* The user is told; but if what is left loads, the next command works on  *)
(* it and backs it up.                                                     *)
FillFails(p) ==
    /\ pc[p] = "fill"
    /\ \E part \in Part(Text(policy[p])) : main' \in Written(main, part)
    /\ lossy' = (lossy \/ Loads(main'))
    /\ cause' = "failed"
    /\ End(p)
    /\ UNCHANGED <<bak, committed, last>>

(* The command is cancelled or interrupted, killed, or cannot open main. *)
Crash(p) ==
    /\ pc[p] # "idle"
    /\ cause' = IF pc[p] = "fill" THEN "died" ELSE cause
    /\ End(p)
    /\ UNCHANGED <<main, bak, committed, last, lossy>>

Next ==
    \E p \in Procs :
        \/ LoadLocalConfig(p)
        \/ ModifyPolicy(p)
        \/ ReadOld(p) \/ CutBackup(p) \/ FillBackup(p) \/ BackupFails(p)
        \/ StartSetup(p) \/ TakeRule(p) \/ Install(p)
        \/ Cut(p) \/ Fill(p) \/ FillFails(p)
        \/ Crash(p)

(* Users run commands when they like: nothing has to happen. *)
Spec == Init /\ [][Next]_vars
-----------------------------------------------------------------------------
(* Properties *)

(* A config that hooks and commands cannot load, and that nobody is just   *)
(* writing, has one of five causes: it was so before the first command;    *)
(* `rules add` with --json or flags wrote it; the last writer died, or its *)
(* write failed, after the truncation; or two wrote at the same time.  A   *)
(* wizard, an edit, a deletion, a toggle or a setup that writes alone and  *)
(* to the end leaves a file that loads, whatever was there before.         *)
UnloadableForCause ==
    ~Loads(main) /\ (\A p \in Procs : pc[p] # "fill") => cause # "none"

(* Before saveConfig truncates the config, the .bak holds all of it,       *)
(* unless an error of writing it was ignored.                              *)
BackedUp ==
    \A p \in Procs :
        pc[p] = "cut" /\ cmd[p] # "setup" /\ ~lossy => bak = main

(* What the last successful command wrote survives the death of any later  *)
(* `rules` command, and any number of attempts after it: it is in the      *)
(* config or in the .bak.                                                  *)
CommittedKept ==
    last # "setup" /\ ~lossy => committed \in {main, bak}

(* The policy to go on with: the config, else its backup. *)
Recoverable == IF Loads(main) THEN main ELSE IF Loads(bak) THEN bak ELSE Absent

(* A rule is added at the end, removed, or changed in place. *)
OneChange(before, after) ==
    \/ /\ Len(after) = Len(before) + 1
       /\ \A j \in DOMAIN before : after[j] = before[j]
    \/ \E i \in DOMAIN before :
          \/ after = SubSeq(before, 1, i - 1) \o SubSeq(before, i + 1, Len(before))
          \/ /\ DOMAIN after = DOMAIN before
             /\ after[i].id = before[i].id
             /\ \A j \in DOMAIN before \ {i} : after[j] = before[j]

(* No step of a `rules` command, a crash and an unloadable file included,  *)
(* changes the recoverable policy by more than one rule.                   *)
OneChangeAtATime ==
    [][~lossy /\ ~lossy' /\ last' # "setup"
          => \/ Recoverable' = Recoverable
             \/ OneChange(Recoverable.rules, Recoverable.rules')]_vars

-----------------------------------------------------------------------------
(* What the documentation says of setup. *)

(* HOWTO.md: setup never overwrites the rules of .constitution.yaml, so    *)
(* when it succeeds every rule that was there still is.                    *)
RulesPreserved ==
    [][last = "setup" /\ committed' # committed =>
          \A i \in DOMAIN committed.rules :
             \E j \in DOMAIN main'.rules : main'.rules[j] = committed.rules[i]]_vars
=============================================================================
