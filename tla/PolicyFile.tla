----------------------------- MODULE PolicyFile -----------------------------
(***************************************************************************)
(* A configuration file as a sequence of rules, and what makes it loadable *)
(* (internal/config/config.go).  The fields of a rule that no operation    *)
(* compares (name, message, hook events, check and its parameters) are     *)
(* abstracted to whether the required ones are there.                      *)
(***************************************************************************)
EXTENDS Integers, Sequences

CONSTANTS
    RuleIds,    \* rule identifiers
    NoId        \* a missing id

ASSUME RuleIdsAssumption == NoId \notin RuleIds

Severities == {"block", "warn", "audit"}

(* A rule as YAML can hold it. *)
Rule ==
    [id       : RuleIds \cup {NoId},
     enabled  : BOOLEAN,
     severity : Severities \cup {"other"},
     priority : Int,
     complete : BOOLEAN]    \* hook_events and check.type are given

(* types.SeverityRank: the higher, the stricter. *)
SeverityRank(severity) ==
    CASE severity = "audit" -> 0
      [] severity = "warn"  -> 1
      [] severity = "block" -> 2
      [] OTHER              -> -1

(* Mutant: any severity is taken. *)
ValidateLoosely(rules) ==
    \A i \in DOMAIN rules :
        /\ rules[i].id # NoId
        /\ \A j \in DOMAIN rules : i # j => rules[i].id # rules[j].id
        /\ rules[i].complete

(* validate, for a file that has a version. *)
Validate(rules) ==
    \A i \in DOMAIN rules :
        /\ rules[i].id # NoId
        /\ \A j \in DOMAIN rules : i # j => rules[i].id # rules[j].id
        /\ rules[i].complete
        /\ rules[i].severity \in Severities
=============================================================================
