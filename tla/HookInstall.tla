---------------------------- MODULE HookInstall ----------------------------
(***************************************************************************)
(* The settings files of the agent platforms, .claude/settings.json and    *)
(* .codex/hooks.json, as `constitution setup` puts its hooks and its skill *)
(* there and `constitution uninstall` takes them out.  The files belong to *)
(* the platforms: the user and other tools keep settings and hooks in the  *)
(* same files and may edit them at any time.  Each os.WriteFile is two     *)
(* steps, the open that truncates and the write; there is no backup.  One  *)
(* constitution command runs at a time and may die between any two steps.  *)
(* The scopes project and user have files of their own; this is one scope. *)
(***************************************************************************)
EXTENDS Naturals, Sequences, SequencesExt

CONSTANTS
    Platforms,          \* "claude" and "codex"
    OtherEvents,        \* hook events of the platforms that setup never uses
    Commands,           \* what a hook may run
    Constitutional,     \* the commands that contain "constitution"
    Binaries,           \* what resolveConstitutionBinary may find
    Patterns,           \* what a hook group may match
    Settings,           \* the values of everything but "hooks" in a file
    NoSettings,         \* nothing but "hooks" in a file
    TheirGroups,        \* the hook groups others add
    TheirEvents,        \* the events of each file whose groups they edit
    InitialFiles,       \* what each settings file may hold at first
    MaxGroups           \* bound: the groups of an event others add to

ASSUME PlatformsAssumption == Platforms \subseteq {"claude", "codex"}
ASSUME CommandsAssumption ==
    /\ Constitutional \subseteq Commands
    /\ Binaries \subseteq Commands
ASSUME PatternsAssumption ==
    {"", "Bash", "Read|Write|Edit", "Glob|Grep"} \subseteq Patterns
ASSUME NoSettingsAssumption == NoSettings \in Settings

Events == {"SessionStart", "UserPromptSubmit", "PreToolUse", "PostToolUse", "Stop"}
              \cup OtherEvents

ASSUME TheirEventsAssumption == TheirEvents \in [Platforms -> SUBSET Events]

(* One element of an event's array.  Anything else than an object with an  *)
(* array "hooks", and so a value of the event that is no array, is odd.    *)
Group == [matcher : Patterns, commands : SUBSET Commands, odd : BOOLEAN]

ASSUME TheirGroupsAssumption == TheirGroups \subseteq Group

(* A file: missing, empty, JSON's null, text that is no JSON (with what    *)
(* its author meant by it) or an object; hasHooks is FALSE if "hooks" is   *)
(* missing or no object.                                                   *)
File == [state : {"absent", "empty", "null", "broken", "text"}, settings : Settings,
         hasHooks : BOOLEAN, hooks : [Events -> Seq(Group)]]

NoHooks == [e \in Events |-> <<>>]
Blank(state) ==
    [state |-> state, settings |-> NoSettings, hasHooks |-> FALSE, hooks |-> NoHooks]

ASSUME InitialFilesAssumption ==
    /\ InitialFiles \in [Platforms -> SUBSET File]
    /\ \A f \in Platforms : \A file \in InitialFiles[f] :
          /\ ~file.hasHooks => file.hooks = NoHooks
          /\ file.state \in {"absent", "empty"} => file = Blank(file.state)

VARIABLES
    files,      \* the settings file of each platform
    skill,      \* the platforms whose skill directory holds the skill
    pc,         \* where the command is
    cmd,        \* the command that runs
    todo,       \* the platforms it has still to treat, the present one first
    skillTodo,  \* the platforms setup has still to install the skill for
    bin,        \* the binary whose hooks setup is installing
    held,       \* the file to write, as the command has it in memory
    theirs,     \* history: what others last left in each file
    spoiled,    \* history: files in which a loss had a cause outside the merge
    installed,  \* history: the binary whose hooks setup last left in a file
    gone        \* history: platforms uninstall has finished with since

local == <<pc, cmd, todo, skillTodo, bin, held>>
history == <<theirs, spoiled, installed, gone>>
vars == <<files, skill, local, history>>

NoBinary == "no binary"

-----------------------------------------------------------------------------
(* The groups of a file *)

(* isConstitution: some command of the group contains the word. *)
IsConstitution(g) == ~g.odd /\ g.commands \cap Constitutional # {}

(* The kinds of groups: what setup keeps, what uninstall keeps, and what   *)
(* runs a binary of constitution.                                          *)
Unmarked == {g \in Group : ~g.odd /\ ~IsConstitution(g)}
Unrelated == {g \in Group : ~IsConstitution(g)}
Own == {g \in Group : ~g.odd /\ g.commands \cap Binaries # {}}

(* The groups of a kind, in order. *)
Only(groups, kind) ==
    LET kept[i \in 0..Len(groups)] ==
            IF i = 0 THEN <<>>
            ELSE IF groups[i] \in kind THEN Append(kept[i - 1], groups[i])
            ELSE kept[i - 1]
    IN  kept[Len(groups)]

(* The matchers setup has hooks for. *)
Matchers(platform, e) ==
    IF e \in {"SessionStart", "UserPromptSubmit", "Stop"} THEN <<"">>
    ELSE IF platform = "codex"
    THEN IF e \in {"PreToolUse", "PostToolUse"} THEN <<"Bash">> ELSE <<>>
    ELSE IF e = "PreToolUse" THEN <<"Bash", "Read|Write|Edit", "Glob|Grep">> ELSE <<>>

(* What others have in a file and the code means to keep: their settings   *)
(* and, in order, their groups.  A group they share with constitution is   *)
(* none of these, nor is an odd one at an event setup has hooks for.       *)
Foreign(platform, e) ==
    (IF Matchers(platform, e) = <<>> THEN Unrelated ELSE Unmarked) \ Own
Theirs(platform, file) ==
    [settings |-> file.settings,
     groups |-> [e \in Events |-> Only(file.hooks[e], Foreign(platform, e))]]

BuildPlatformHooks(platform, binPath) ==
    [e \in Events |->
        [k \in DOMAIN Matchers(platform, e) |->
            [matcher |-> Matchers(platform, e)[k], commands |-> {binPath}, odd |-> FALSE]]]

(* applyHooksCodex puts the new groups in the place of what is there. *)
ApplyHooksCodex(hooks, new) ==
    [e \in Events |-> IF new[e] = <<>> THEN hooks[e] ELSE new[e]]

(* Mutant: the groups that carry the word are kept as well. *)
ApplyHooksAgain(hooks, new) ==
    [e \in Events |-> IF new[e] = <<>> THEN hooks[e] ELSE hooks[e] \o new[e]]

(* applyHooks keeps, before the new groups, those without the word; odd    *)
(* ones go.                                                                *)
ApplyHooks(hooks, new) ==
    [e \in Events |->
        IF new[e] = <<>> THEN hooks[e]
        ELSE Only(hooks[e], Unmarked) \o new[e]]

(* Mutant: an event of which nothing is kept stays as it was. *)
RemoveSomeHooks(hooks) ==
    [e \in Events |->
        LET kept == Only(hooks[e], Unrelated)
        IN  IF kept = <<>> THEN hooks[e] ELSE kept]

(* cmdUninstall keeps all groups without the word, the odd ones too. *)
RemoveHooks(hooks) ==
    [e \in Events |-> Only(hooks[e], Unrelated)]

(* json.Unmarshal into an empty map; what does not parse leaves it empty. *)
Parsed(file) == IF file.state = "text" THEN file ELSE Blank("text")

(* What a file may hold after data was written at its beginning, empty as  *)
(* it was when it was opened or edited by others since.                    *)
Overwritten(file, data) ==
    IF file = Blank("empty") THEN {data} ELSE {data, file, Blank("broken")}

Clean(file) ==
    \A e \in Events : \A i \in DOMAIN file.hooks[e] : ~IsConstitution(file.hooks[e][i])

-----------------------------------------------------------------------------
(* Mutant: the platform "both" is not taken apart. *)
BothPlatform == {<<"both">>} \cup {<<p>> : p \in Platforms}

(* What --platform selects; both are treated claude first. *)
PlatformLists ==
    {<<p>> : p \in Platforms} \cup {<<p, q>> : p \in Platforms \cap {"claude"},
                                               q \in Platforms \cap {"codex"}}

TypeOK ==
    /\ files \in [Platforms -> File]
    /\ skill \subseteq Platforms
    /\ pc \in {"idle", "read", "cut", "fill", "skills"}
    /\ cmd \in {"none", "setup", "uninstall"}
    /\ todo \in Seq(Platforms)
    /\ skillTodo \in Seq(Platforms)
    /\ bin \in Binaries \cup {NoBinary}
    /\ held \in File
    /\ theirs \in [Platforms -> [settings : Settings, groups : [Events -> Seq(Group)]]]
    /\ spoiled \subseteq Platforms
    /\ installed \in [Platforms -> Binaries \cup {NoBinary}]
    /\ gone \subseteq Platforms

Idle ==
    /\ pc = "idle" /\ cmd = "none"
    /\ todo = <<>> /\ skillTodo = <<>>
    /\ bin = NoBinary /\ held = Blank("absent")

Init ==
    /\ \E first \in [Platforms -> UNION {InitialFiles[f] : f \in Platforms}] :
          /\ \A f \in Platforms : first[f] \in InitialFiles[f]
          /\ files = first
    /\ skill = {}
    /\ Idle
    /\ theirs = [f \in Platforms |-> Theirs(f, files[f])]
    /\ spoiled = {}
    /\ installed = [f \in Platforms |-> NoBinary]
    /\ gone = {}

-----------------------------------------------------------------------------
(* Steps of the command *)

Go(from, to) == pc = from /\ pc' = to

End ==
    /\ pc' = "idle" /\ cmd' = "none"
    /\ todo' = <<>> /\ skillTodo' = <<>>
    /\ bin' = NoBinary /\ held' = Blank("absent")

(* The file of the present platform. *)
Current == Head(todo)

(* On to the next platform; setup installs the skills after the last one. *)
NextPlatform ==
    IF Len(todo) > 1
    THEN /\ pc' = "read" /\ todo' = Tail(todo)
         /\ bin' = NoBinary /\ held' = Blank("absent")
         /\ UNCHANGED <<cmd, skillTodo>>
    ELSE IF cmd = "setup" /\ skillTodo # <<>>
    THEN /\ pc' = "skills" /\ todo' = <<>>
         /\ bin' = NoBinary /\ held' = Blank("absent")
         /\ UNCHANGED <<cmd, skillTodo>>
    ELSE End

(* wizardInstall, after the config is written. *)
StartSetup ==
    /\ Go("idle", "read")
    /\ cmd' = "setup"
    /\ \E platforms \in PlatformLists :
          todo' = platforms /\ skillTodo' \in {<<>>, platforms}
    /\ UNCHANGED <<files, skill, bin, held, history>>

StartUninstall ==
    /\ Go("idle", "read")
    /\ cmd' = "uninstall"
    /\ todo' \in PlatformLists
    /\ UNCHANGED <<files, skill, skillTodo, bin, held, history>>

(* installPlatformHooks up to the write. *)
ReadForSetup ==
    /\ cmd = "setup" /\ Go("read", "cut")
    /\ files[Current].state # "null"
    /\ \E b \in Binaries :
          LET old == Parsed(files[Current])
              new == BuildPlatformHooks(Current, b)
              apply == IF Current = "codex" THEN ApplyHooksCodex(old.hooks, new)
                       ELSE ApplyHooks(old.hooks, new)
          IN  /\ bin' = b
              /\ held' = [old EXCEPT !.hasHooks = TRUE, !.hooks = apply]
    /\ spoiled' = IF files[Current].state = "broken" THEN spoiled \cup {Current}
                  ELSE spoiled
    /\ UNCHANGED <<files, skill, cmd, todo, skillTodo, theirs, installed, gone>>

(* After null the map is nil, and the assignment to it panics. *)
Panic ==
    /\ pc = "read" /\ cmd = "setup" /\ files[Current].state = "null"
    /\ End
    /\ UNCHANGED <<files, skill, history>>

(* cmdUninstall passes over a file without hooks, and over its skill. *)
Skip ==
    /\ pc = "read" /\ cmd = "uninstall"
    /\ ~(files[Current].state = "text" /\ files[Current].hasHooks)
    /\ NextPlatform
    /\ UNCHANGED <<files, skill, history>>

ReadForUninstall ==
    /\ cmd = "uninstall" /\ Go("read", "cut")
    /\ files[Current].state = "text" /\ files[Current].hasHooks
    /\ LET hooks == RemoveHooks(files[Current].hooks)
       IN  held' = [files[Current] EXCEPT !.hooks = hooks, !.hasHooks = hooks # NoHooks]
    /\ UNCHANGED <<files, skill, cmd, todo, skillTodo, bin, history>>

(* Setup reports a failed write and uninstall ignores it; both go on. *)
AfterWrite ==
    IF cmd = "setup" THEN NextPlatform
    ELSE pc' = "skills" /\ UNCHANGED <<cmd, todo, skillTodo, bin, held>>

Cut ==
    /\ Go("cut", "fill")
    /\ files' = [files EXCEPT ![Current] = Blank("empty")]
    /\ installed' = [installed EXCEPT ![Current] = NoBinary]
    /\ gone' = gone \ {Current}
    /\ UNCHANGED <<skill, cmd, todo, skillTodo, bin, held, theirs, spoiled>>

CutFails ==
    /\ pc = "cut"
    /\ AfterWrite
    /\ UNCHANGED <<files, skill, history>>

Fill ==
    /\ pc = "fill"
    /\ \E file \in Overwritten(files[Current], held) :
          /\ files' = [files EXCEPT ![Current] = file]
          /\ installed' = [installed EXCEPT ![Current] =
                              IF cmd = "setup" /\ file = held THEN bin ELSE NoBinary]
    /\ AfterWrite
    /\ UNCHANGED <<skill, theirs, spoiled, gone>>

FillFails ==
    /\ pc = "fill"
    /\ \E file \in {files[Current], Blank("broken")} :
          files' = [files EXCEPT ![Current] = file]
    /\ spoiled' = spoiled \cup {Current}
    /\ AfterWrite
    /\ UNCHANGED <<skill, theirs, installed, gone>>

(* installSkills for one platform; a write that fails is passed over. *)
InstallSkill ==
    /\ pc = "skills" /\ cmd = "setup"
    /\ skill' \in {skill, skill \cup {Head(skillTodo)}}
    /\ gone' = gone \ {Head(skillTodo)}
    /\ IF Len(skillTodo) > 1
       THEN skillTodo' = Tail(skillTodo) /\ UNCHANGED <<pc, cmd, todo, bin, held>>
       ELSE End
    /\ UNCHANGED <<files, theirs, spoiled, installed>>

RemoveSkill ==
    /\ pc = "skills" /\ cmd = "uninstall"
    /\ skill' = skill \ {Current}
    /\ gone' = IF files[Current] = held THEN gone \cup {Current} ELSE gone
    /\ NextPlatform
    /\ UNCHANGED <<files, theirs, spoiled, installed>>

Crash ==
    /\ pc # "idle"
    /\ spoiled' = IF pc = "fill" THEN spoiled \cup {Current} ELSE spoiled
    /\ End
    /\ UNCHANGED <<files, skill, theirs, installed, gone>>

-----------------------------------------------------------------------------
(* Steps of the user and of other tools *)

(* The command overwrites an edit of the file it has read. *)
Edit(f, file) ==
    /\ files' = [files EXCEPT ![f] = file]
    /\ theirs' = [theirs EXCEPT ![f] = Theirs(f, file)]
    /\ spoiled' = IF pc \in {"cut", "fill"} /\ Current = f THEN spoiled \cup {f}
                  ELSE spoiled \ {f}
    /\ installed' = [installed EXCEPT ![f] =
                        IF \A e \in Events : Only(file.hooks[e], Own) = Only(files[f].hooks[e], Own)
                        THEN @ ELSE NoBinary]
    /\ gone' = IF Clean(file) THEN gone ELSE gone \ {f}
    /\ UNCHANGED <<skill, local>>

AddGroup(f) ==
    /\ files[f].state \in {"text", "absent", "empty"}
    /\ \E e \in TheirEvents[f], g \in TheirGroups :
          /\ Len(files[f].hooks[e]) < MaxGroups
          /\ Edit(f, [files[f] EXCEPT !.state = "text", !.hasHooks = TRUE,
                                      !.hooks[e] = Append(@, g)])

DropGroup(f) ==
    /\ files[f].state = "text"
    /\ \E e \in TheirEvents[f] : \E i \in DOMAIN files[f].hooks[e] :
          Edit(f, [files[f] EXCEPT !.hooks[e] = RemoveAt(@, i)])

(* A repaired, restored or new file. *)
Replace(f) ==
    \E file \in InitialFiles[f] \ {files[f]} : Edit(f, file)

Next ==
    \/ StartSetup \/ ReadForSetup \/ Panic
    \/ StartUninstall \/ Skip \/ ReadForUninstall
    \/ Cut \/ CutFails \/ Fill \/ FillFails
    \/ InstallSkill \/ RemoveSkill
    \/ Crash
    \/ \E f \in Platforms : AddGroup(f) \/ DropGroup(f) \/ Replace(f)

Spec == Init /\ [][Next]_vars

-----------------------------------------------------------------------------
(* Properties *)

Writing(f) == pc = "fill" /\ Current = f

(* What others have in Claude Code's settings stays through any sequence   *)
(* of setups and uninstalls: every setting and, in order, their groups of  *)
(* hooks, at events setup never uses the odd ones too.  These can be lost  *)
(* in three ways only, each of which makes the file spoiled: a write dies  *)
(* after the truncation, an edit comes between the read and the write, or  *)
(* setup meets a file that is no JSON.  It is not said of a group that     *)
(* also runs constitution, which setup and uninstall drop with what else   *)
(* it runs, nor of odd entries at the events setup uses, which setup drops *)
(* (setup.go:546-560, 671).                                                *)
TheirsKept ==
    \A f \in Platforms \ {"codex"} :
       ~Writing(f) /\ f \notin spoiled => Theirs(f, files[f]) = theirs[f]

(* SKILL.md: setup "merges hooks non-destructively [...] preserves other   *)
(* hooks", of every platform's file.                                       *)
TheirsKeptEverywhere ==
    \A f \in Platforms :
       ~Writing(f) /\ f \notin spoiled => Theirs(f, files[f]) = theirs[f]

(* However often setup ran, for whatever binaries, died half way or was    *)
(* undone in between: after it has written a file, every event it uses     *)
(* runs the one binary it found last, once per matcher.  That needs        *)
(* binaries with the word in their path, or the old hooks are not found.   *)
OwnHooksOnce ==
    \A f \in Platforms :
       installed[f] # NoBinary /\ Binaries \subseteq Constitutional =>
          \A e \in Events :
             LET new == BuildPlatformHooks(f, installed[f])[e]
             IN  new # <<>> => Only(files[f].hooks[e], Own) = new

(* A platform that uninstall has finished with, and whose files it could   *)
(* write, has no hook of constitution at any event and no skill until the  *)
(* next setup, whatever setups came before and died.                       *)
UninstallClean ==
    \A f \in gone : Clean(files[f]) /\ f \notin skill
=============================================================================
