--------------------------- MODULE MCHookInstall ---------------------------
(* Small instances of HookInstall. *)
EXTENDS HookInstall

GroupOf(matcher, command) ==
    [matcher |-> matcher, commands |-> {command}, odd |-> FALSE]

Odd == [matcher |-> "", commands |-> {}, odd |-> TRUE]

(* A linter's hook. *)
Groups == {GroupOf("", "lint")}

Object(hooks) ==
    [state |-> "text", settings |-> "some", hasHooks |-> TRUE, hooks |-> hooks]

Shared == [GroupOf("Edit", "lint") EXCEPT !.commands = @ \cup {"old/constitution"}]

(* Hooks of another tool, of an old version, of both, and odd values, at   *)
(* an event setup uses and at one that it does not.                        *)
Grown ==
    Object([NoHooks EXCEPT
              !["PreToolUse"] = <<GroupOf("Bash", "lint"), Odd, Shared>>,
              !["PostToolUse"] = <<Odd, GroupOf("", "old/constitution")>>])

(* No file, null, no JSON, and hooks. *)
Initial ==
    [f \in Platforms |->
        IF f = "claude"
        THEN {Blank("absent"), Blank("null"), Grown,
              [Blank("broken") EXCEPT !.settings = "some"]}
        ELSE {Grown}]

(* Others edit one file, at an event both they and setup use. *)
Edited == [f \in Platforms |-> IF f = "claude" THEN {"Stop"} ELSE {}]
=============================================================================
