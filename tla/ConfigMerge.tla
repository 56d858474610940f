----------------------------- MODULE ConfigMerge -----------------------------
(***************************************************************************)
(* How one policy is made of the configuration files an invocation finds:  *)
(* DiscoverConfigSources, LoadAll and MergePolicies of internal/config.    *)
(* The files do not change meanwhile (ConfigStore is about files that do). *)
(***************************************************************************)
EXTENDS PolicyFile, SequencesExt

CONSTANTS
    NoFile,     \* there is no file at a path
    DiskSpace,  \* the contents of the file system to consider
    NoEntry     \* an identifier the merge has not met

(* Where a configuration can be, and at which level of authority; a lower  *)
(* number has more authority.  "flag" is the --config file, "env" the one  *)
(* CONSTITUTION_CONFIG names, "claude" is .claude/constitution.yaml.       *)
Paths == {"home", "flag", "env", "project", "claude"}
LevelUser == 2
LevelProject == 3
Level(path) == IF path \in {"project", "claude"} THEN LevelProject ELSE LevelUser

(* A file; "" is a setting or a name that is not given. *)
PolicyRecord ==
    [version  : {"", "1"},
     name     : {"", "named"},
     logLevel : {"", "debug", "info"},
     logFile  : {"", "log"},
     remote   : [enabled : BOOLEAN, url : {"", "url"}],
     plugins  : Seq({"lint", "scan"}),
     rules    : Seq(Rule)]

ASSUME DiskSpaceAssumption == DiskSpace \subseteq [Paths -> PolicyRecord \cup {NoFile}]
ASSUME NoFileAssumption == NoFile \notin PolicyRecord

VARIABLES
    pc,         \* "discover", "load", "merge" or "done"
    disk,       \* the files
    flagged,    \* --config was given
    envSet,     \* CONSTITUTION_CONFIG is set
    sources,    \* the paths found and not yet loaded
    layers,     \* the paths loaded, most authoritative first
    defs,       \* the rules of the layers, in order, with their SourceFile
    merged,     \* the number of rules of defs that are merged
    ruleMap,    \* what they were merged to, by identifier
    conflicts,  \* the conflicts recorded on the way
    policy      \* the result

vars == <<pc, disk, flagged, envSet, sources, layers, defs, merged, ruleMap,
          conflicts, policy>>

(* A rule stamped with the file it came from. *)
Definition ==
    [id : RuleIds, enabled : BOOLEAN, severity : Severities, priority : Int,
     file : Paths]
Entry == [rule : Definition, order : Nat]
ASSUME NoEntryAssumption == NoEntry \notin Entry

Plugin == [name : {"lint", "scan"}, file : Paths]
Conflict ==
    [id : RuleIds, field : {"enabled", "severity"}, lower : Paths,
     action : {"ignored", "strengthened"}]

EmptyPolicy == [name |-> <<>>, logLevel |-> "", logFile |-> "",
                remote |-> [enabled |-> FALSE, url |-> ""],
                plugins |-> <<>>, rules |-> <<>>]

Init ==
    /\ pc = "discover"
    /\ disk \in DiskSpace
    /\ flagged \in BOOLEAN
    /\ envSet \in BOOLEAN
    /\ sources = <<>>
    /\ layers = <<>>
    /\ defs = <<>>
    /\ merged = 0
    /\ ruleMap = [id \in RuleIds |-> NoEntry]
    /\ conflicts = <<>>
    /\ policy = EmptyPolicy

-----------------------------------------------------------------------------

Exists(path) == disk[path] # NoFile
If(cond, path) == IF cond /\ Exists(path) THEN <<path>> ELSE <<>>

(* The environment variable counts only without the flag, even if the file *)
(* the flag names is missing; .claude only without a .constitution.yaml.   *)
DiscoverConfigSources ==
    /\ pc = "discover"
    /\ sources' = If(TRUE, "home") \o If(flagged, "flag") \o If(~flagged /\ envSet, "env")
                  \o If(TRUE, "project") \o If(~Exists("project"), "claude")
    /\ pc' = "load"
    /\ UNCHANGED <<disk, flagged, envSet, layers, defs, merged, ruleMap, conflicts, policy>>

Loads(path) == disk[path].version # "" /\ Validate(disk[path].rules)

Stamped(r, path) ==
    [id |-> r.id, enabled |-> r.enabled, severity |-> r.severity,
     priority |-> r.priority, file |-> path]
Stamp(path) == [i \in DOMAIN disk[path].rules |-> Stamped(disk[path].rules[i], path)]

(* Mutant: the first file that cannot be loaded ends the loop. *)
LoadSourceOrStop ==
    /\ pc = "load"
    /\ sources # <<>>
    /\ LET path == Head(sources)
       IN \/ /\ Loads(path)
             /\ sources' = Tail(sources)
             /\ layers' = Append(layers, path)
             /\ defs' = defs \o Stamp(path)
          \/ /\ ~Loads(path)
             /\ sources' = <<>>
             /\ UNCHANGED <<layers, defs>>
    /\ UNCHANGED <<pc, disk, flagged, envSet, merged, ruleMap, conflicts, policy>>

(* One round of LoadAll: a file that cannot be loaded is left out. *)
LoadSource ==
    /\ pc = "load"
    /\ sources # <<>>
    /\ sources' = Tail(sources)
    /\ LET path == Head(sources)
       IN \/ /\ Loads(path)
             /\ layers' = Append(layers, path)
             /\ defs' = defs \o Stamp(path)
          \/ /\ ~Loads(path)
             /\ UNCHANGED <<layers, defs>>
    /\ UNCHANGED <<pc, disk, flagged, envSet, merged, ruleMap, conflicts, policy>>

-----------------------------------------------------------------------------
(* The parts of a policy other than the rules. *)

(* Mutant: the last value given wins. *)
LastGiven(a, b) == IF b # "" THEN b ELSE a

FirstGiven(a, b) == IF a # "" THEN a ELSE b

AddSettings(s, path) ==
    [logLevel |-> FirstGiven(s.logLevel, disk[path].logLevel),
     logFile  |-> FirstGiven(s.logFile, disk[path].logFile)]

MergeSettings(paths) == FoldLeft(AddSettings, [logLevel |-> "", logFile |-> ""], paths)

MergeRemote(paths) ==
    LET given == SelectSeq(paths, LAMBDA path : \/ disk[path].remote.enabled
                                                \/ disk[path].remote.url # "")
    IN IF given = <<>> THEN EmptyPolicy.remote ELSE disk[given[1]].remote

(* A plugin is its name and the file that defines it. *)
Plugins(path) ==
    [i \in DOMAIN disk[path].plugins |-> [name |-> disk[path].plugins[i], file |-> path]]

AddPlugin(found, plugin) ==
    IF \E i \in DOMAIN found : found[i].name = plugin.name
    THEN found ELSE Append(found, plugin)

AddPlugins(found, path) == FoldLeft(AddPlugin, found, Plugins(path))

MergePlugins(paths) == FoldLeft(AddPlugins, <<>>, paths)

(* A name is <<name>> as written, or with the level it is from. *)
Named(path) == IF disk[path].name = "" THEN <<>> ELSE <<disk[path].name>>
MergeName(paths) ==
    LET names == SelectSeq(paths, LAMBDA path : disk[path].name # "")
    IN CASE Len(names) = 0 -> <<>>
         [] Len(names) = 1 -> Named(paths[1])
         [] OTHER          -> <<disk[names[1]].name, Level(names[1])>>

(* A single layer is the policy; none is an empty one. *)
TakeSingle ==
    /\ pc = "load"
    /\ sources = <<>>
    /\ Len(layers) <= 1
    /\ policy' = IF layers = <<>> THEN EmptyPolicy
                 ELSE [name     |-> Named(layers[1]),
                       logLevel |-> disk[layers[1]].logLevel,
                       logFile  |-> disk[layers[1]].logFile,
                       remote   |-> disk[layers[1]].remote,
                       plugins  |-> Plugins(layers[1]),
                       rules    |-> defs]
    /\ pc' = "done"
    /\ UNCHANGED <<disk, flagged, envSet, sources, layers, defs, merged, ruleMap,
                   conflicts>>

StartMerge ==
    /\ pc = "load"
    /\ sources = <<>>
    /\ Len(layers) > 1
    /\ pc' = "merge"
    /\ UNCHANGED <<disk, flagged, envSet, sources, layers, defs, merged, ruleMap,
                   conflicts, policy>>

-----------------------------------------------------------------------------
(* The rules: the loop of MergePolicies takes one definition at a time.    *)

Current == defs[merged + 1]

(* The first definition of an identifier enters the map. *)
AddRule ==
    /\ pc = "merge"
    /\ merged < Len(defs)
    /\ ruleMap[Current.id] = NoEntry
    /\ ruleMap' = [ruleMap EXCEPT ![Current.id] =
                      [rule  |-> Current,
                       order |-> Cardinality({id \in RuleIds : ruleMap[id] # NoEntry})]]
    /\ merged' = merged + 1
    /\ UNCHANGED <<pc, disk, flagged, envSet, sources, layers, defs, conflicts, policy>>

Clash(field, action) ==
    [id |-> Current.id, field |-> field, lower |-> Current.file, action |-> action]

EnabledConflict(higher, lower) ==
    IF higher.enabled /\ ~lower.enabled THEN <<Clash("enabled", "ignored")>> ELSE <<>>

(* Mutant: only a strengthening is reported. *)
SeverityConflictRaised(higher, lower) ==
    IF SeverityRank(lower.severity) > SeverityRank(higher.severity)
    THEN <<Clash("severity", "strengthened")>> ELSE <<>>

SeverityConflict(higher, lower) ==
    LET h == SeverityRank(higher.severity)
        l == SeverityRank(lower.severity)
    IN CASE l < h -> <<Clash("severity", "ignored")>>
         [] l > h -> <<Clash("severity", "strengthened")>>
         [] OTHER -> <<>>

(* Mutants: the lower level's severity is taken as it is; the lower level  *)
(* can enable and disable.                                                 *)
StrengthenOrWeaken(higher, lower) ==
    [higher EXCEPT !.severity = lower.severity,
                   !.priority = IF lower.priority < @ THEN lower.priority ELSE @]
StrengthenOrSwitch(higher, lower) ==
    [higher EXCEPT
        !.severity = IF SeverityRank(lower.severity) > SeverityRank(@)
                     THEN lower.severity ELSE @,
        !.priority = IF lower.priority < @ THEN lower.priority ELSE @,
        !.enabled = lower.enabled]

(* Severity can only rise and the priority number only fall; every other   *)
(* field stays that of the higher level.                                   *)
Strengthen(higher, lower) ==
    [higher EXCEPT
        !.severity = IF SeverityRank(lower.severity) > SeverityRank(@)
                     THEN lower.severity ELSE @,
        !.priority = IF lower.priority < @ THEN lower.priority ELSE @]

(* A later definition of an identifier can only strengthen what is there.  *)
OverrideRule ==
    /\ pc = "merge"
    /\ merged < Len(defs)
    /\ ruleMap[Current.id] # NoEntry
    /\ LET higher == ruleMap[Current.id].rule
       IN /\ conflicts' = conflicts \o EnabledConflict(higher, Current) \o SeverityConflict(higher, Current)
          /\ ruleMap' = [ruleMap EXCEPT ![Current.id].rule = Strengthen(higher, Current)]
    /\ merged' = merged + 1
    /\ UNCHANGED <<pc, disk, flagged, envSet, sources, layers, defs, policy>>

(* Mutant: the entries are left in the order of the map. *)
Unsorted(entries) == entries

(* sortByOrder: insertion sort; an entry moves back to the last one that   *)
(* is not after it.                                                        *)
Insert(sorted, e) ==
    InsertAt(sorted, 1 + Max({0} \cup {i \in DOMAIN sorted : sorted[i].order <= e.order}), e)
SortByOrder(entries) == FoldLeft(Insert, <<>>, entries)

(* The map is iterated in an order that differs from run to run, and the   *)
(* entries sorted.                                                         *)
Collect ==
    /\ pc = "merge"
    /\ merged = Len(defs)
    /\ \E ids \in SetToSeqs({id \in RuleIds : ruleMap[id] # NoEntry}) :
          LET entries == SortByOrder([i \in DOMAIN ids |-> ruleMap[ids[i]]])
              settings == MergeSettings(layers)
          IN policy' = [name     |-> MergeName(layers),
                        logLevel |-> settings.logLevel,
                        logFile  |-> settings.logFile,
                        remote   |-> MergeRemote(layers),
                        plugins  |-> MergePlugins(layers),
                        rules    |-> [i \in DOMAIN entries |-> entries[i].rule]]
    /\ pc' = "done"
    /\ UNCHANGED <<disk, flagged, envSet, sources, layers, defs, merged, ruleMap,
                   conflicts>>

Next ==
    \/ DiscoverConfigSources
    \/ LoadSource
    \/ TakeSingle
    \/ StartMerge
    \/ AddRule
    \/ OverrideRule
    \/ Collect

Spec == Init /\ [][Next]_vars
-----------------------------------------------------------------------------
(* Properties *)

(* The part of the type invariant that the proofs use. *)
RulesTypeOK ==
    /\ pc \in {"discover", "load", "merge", "done"}
    /\ disk \in DiskSpace
    /\ sources \in Seq({path \in Paths : Exists(path)})
    /\ layers \in Seq(Paths)
    /\ defs \in Seq(Definition)
    /\ merged \in 0..Len(defs)
    /\ ruleMap \in [RuleIds -> Entry \cup {NoEntry}]
    /\ conflicts \in Seq(Conflict)

(* Types; the rules of the result are definitions that a file can hold. *)
TypeOK ==
    /\ RulesTypeOK
    /\ flagged \in BOOLEAN
    /\ envSet \in BOOLEAN
    /\ policy.plugins \in Seq(Plugin)
    /\ policy.rules \in Seq(Definition)

(* At every point of the merge the entry of a rule is at least as strict   *)
(* and as urgent as each definition merged so far, by whichever layer.     *)
Merged(id) == {i \in 1..merged : defs[i].id = id}

NotWeakened ==
    \A id \in RuleIds : \A i \in Merged(id) :
        /\ ruleMap[id] # NoEntry
        /\ SeverityRank(ruleMap[id].rule.severity) >= SeverityRank(defs[i].severity)
        /\ ruleMap[id].rule.priority <= defs[i].priority

(* Whether a rule is enabled, and everything else of it that the merge     *)
(* does not strengthen, is as the most authoritative definition has it; no *)
(* later one can disable the rule, nor enable it.                          *)
FirstDecides ==
    \A id \in RuleIds : ruleMap[id] # NoEntry =>
        \E i \in Merged(id) :
            /\ \A j \in Merged(id) : i <= j
            /\ ruleMap[id].rule.file = defs[i].file
            /\ ruleMap[id].rule.enabled = defs[i].enabled

(* The conflicts a user is shown are the attempts to weaken a rule, and    *)
(* the strengthenings: a definition that is laxer than one of a more       *)
(* authoritative layer, or that disables a rule the first layer enabled,   *)
(* is reported as ignored, stricter than all of them as strengthened, and  *)
(* no other is reported.                                                   *)
Attempt(field, action, i) ==
    LET earlier == {j \in 1..(i - 1) : defs[j].id = defs[i].id}
        Rank(j) == SeverityRank(defs[j].severity)
    IN \/ /\ field = "enabled"
          /\ ~defs[i].enabled
          /\ \E j \in earlier : defs[j].enabled /\ \A k \in earlier : j <= k
       \/ /\ field = "severity" /\ action = "ignored"
          /\ \E j \in earlier : Rank(j) > Rank(i)
       \/ /\ field = "severity" /\ action = "strengthened"
          /\ earlier # {} /\ \A j \in earlier : Rank(j) < Rank(i)

ConflictsExact ==
    Range(conflicts) =
        {c \in Conflict :
            /\ c.field = "enabled" => c.action = "ignored"
            /\ \E i \in 1..merged :
                  /\ <<defs[i].id, defs[i].file>> = <<c.id, c.lower>>
                  /\ Attempt(c.field, c.action, i)}

(* What a rule of the result says can be read off the files, whatever the  *)
(* order in which the map is iterated: its file and whether it is enabled  *)
(* are those of the first file that was loaded with it, its severity and   *)
(* its priority the strictest and the most urgent that any gives it; every *)
(* rule of the files is there, once, in the order in which they first      *)
(* occur.                                                                  *)
RulesOf(k) == disk[layers[k]].rules
Given(k, id) == {r \in Range(RulesOf(k)) : r.id = id}

OccursBefore(x, y) ==
    \E k \in DOMAIN layers : \E m \in DOMAIN RulesOf(k) :
        /\ RulesOf(k)[m].id = x
        /\ \A l \in 1..k : \A n \in DOMAIN RulesOf(l) :
              l < k \/ n <= m => RulesOf(l)[n].id # y

RuleFromFiles(r) ==
    LET GivenTo == UNION {Given(k, r.id) : k \in DOMAIN layers}
    IN /\ \E first \in DOMAIN layers :
             /\ Given(first, r.id) # {}
             /\ \A k \in 1..(first - 1) : Given(k, r.id) = {}
             /\ r.file = layers[first]
             /\ \A g \in Given(first, r.id) : r.enabled = g.enabled
       /\ \A g \in GivenTo :
             /\ SeverityRank(r.severity) >= SeverityRank(g.severity)
             /\ r.priority <= g.priority
       /\ \E g \in GivenTo : r.severity = g.severity
       /\ \E g \in GivenTo : r.priority = g.priority

FromFiles(rules) ==
    /\ {r.id : r \in Range(rules)}
           = {id \in RuleIds : \E k \in DOMAIN layers : Given(k, id) # {}}
    /\ \A i, j \in DOMAIN rules : i < j => OccursBefore(rules[i].id, rules[j].id)
    /\ \A r \in Range(rules) : RuleFromFiles(r)

RulesFromFiles == pc = "done" => FromFiles(policy.rules)

(* The user's own file binds every project: if it can be loaded, each of   *)
(* its rules is in the result, enabled or not as it says and at least as   *)
(* strict, whatever the flag, the environment and the project's files say, *)
(* and whether they can be loaded or not.  A project's file that can be    *)
(* loaded likewise cannot be left out.                                     *)
UserRulesBind ==
    pc = "done" =>
        \A path \in {"home", "project"} : Exists(path) /\ Loads(path) =>
            \A r \in Range(disk[path].rules) : \E p \in Range(policy.rules) :
                /\ p.id = r.id
                /\ SeverityRank(p.severity) >= SeverityRank(r.severity)
                /\ p.priority <= r.priority
                /\ path = "home" => p.enabled = r.enabled

(* Every setting and plugin is that of the most authoritative file loaded  *)
(* that gives it, also when files that cannot be loaded are in between.    *)
SettingsByAuthority ==
    pc = "done" =>
        \A k \in DOMAIN layers :
            LET file == disk[layers[k]]
                Higher == {disk[layers[j]] : j \in 1..(k - 1)}
            IN /\ file.logLevel # "" /\ (\A h \in Higher : h.logLevel = "")
                      => policy.logLevel = file.logLevel
               /\ file.logFile # "" /\ (\A h \in Higher : h.logFile = "")
                      => policy.logFile = file.logFile
               /\ \A n \in Range(file.plugins) :
                      (\A h \in Higher : n \notin Range(h.plugins))
                      <=> [name |-> n, file |-> layers[k]] \in Range(policy.plugins)

-----------------------------------------------------------------------------
(* What the documentation says of the merge. *)

(* README.md: of the remote sections, the one of the highest level with    *)
(* `enabled: true` wins entirely.                                          *)
RemoteOfHighestEnabled ==
    pc = "done" /\ (\E k \in DOMAIN layers : disk[layers[k]].remote.enabled) =>
        policy.remote
            = disk[layers[Min({k \in DOMAIN layers : disk[layers[k]].remote.enabled})]].remote
=============================================================================
