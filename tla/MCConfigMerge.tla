---------------------------- MODULE MCConfigMerge ----------------------------
(* Instances of ConfigMerge for TLC. *)
EXTENDS ConfigMerge

CONSTANTS a, b

Plain == [id |-> a, enabled |-> TRUE, severity |-> "warn", priority |-> 2, complete |-> TRUE]

File(rules) ==
    [version |-> "1", name |-> "", logLevel |-> "", logFile |-> "",
     remote |-> [enabled |-> FALSE, url |-> ""], plugins |-> <<>>, rules |-> rules]

(* What is wrong with a file that validate rejects, each in its own way. *)
Broken ==
    {[File(<<Plain>>) EXCEPT !.version = ""],
     File(<<Plain, [Plain EXCEPT !.id = b, !.severity = "other"]>>),
     File(<<Plain, Plain>>),
     File(<<[Plain EXCEPT !.id = NoId]>>),
     File(<<[Plain EXCEPT !.complete = FALSE]>>)}

NoFiles == [p \in Paths |-> NoFile]

(* Every combination of files that are there, missing or broken. *)
Discovery ==
    [Paths -> {NoFile, File(<<Plain>>), File(<<Plain, Plain>>)}]
    \cup {[NoFiles EXCEPT !["home"] = x, !["project"] = File(<<Plain>>)] : x \in Broken}

(* One rule that three layers define, every way they can differ. *)
Variants ==
    {[Plain EXCEPT !.enabled = e, !.severity = s, !.priority = p] :
        e \in BOOLEAN, s \in Severities, p \in {1, 2}}

Layered(home, flag, project) ==
    [NoFiles EXCEPT !["home"] = home, !["flag"] = flag, !["project"] = project]

Overriding ==
    {Layered(File(<<x>>), File(<<y>>), File(<<z>>)) : x, y, z \in Variants}

(* Two rules in different orders, beside one another and one overridden. *)
Rearranged ==
    LET B == [Plain EXCEPT !.id = b]
        Lists == {<<>>, <<Plain>>, <<B>>, <<B, Plain>>, <<Plain, [B EXCEPT !.severity = "block"]>>}
    IN {Layered(File(x), File(y), File(z)) : x, y, z \in Lists}

(* What a file can say beside its rules. *)
Described ==
    LET Contents ==
            {[File(<<>>) EXCEPT !.name = n, !.logLevel = l, !.remote = r, !.plugins = g] :
                n \in {"", "named"}, l \in {"", "info"},
                r \in [enabled : BOOLEAN, url : {"", "url"}], g \in {<<>>, <<"lint", "scan">>}}
        Others ==
            {[File(<<>>) EXCEPT !.name = "named", !.logLevel = "debug", !.logFile = "log",
                                !.remote.enabled = TRUE, !.plugins = <<"scan">>],
             File(<<Plain, Plain>>)}
    IN {Layered(x, y, z) : x \in Contents, y \in Others, z \in Others \cup Contents}

Disks == Discovery \cup Overriding \cup Rearranged \cup Described
==============================================================================
