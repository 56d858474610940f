-------------------------- MODULE ConfigMergeProofs --------------------------
(***************************************************************************)
(* Proofs about ConfigMerge for any files, any number of rules and any     *)
(* priorities.                                                             *)
(***************************************************************************)
EXTENDS ConfigMerge, Folding

(* Nothing is merged before all files are loaded, and only finitely many   *)
(* identifiers have been met.                                              *)
Met == {id \in RuleIds : ruleMap[id] # NoEntry}
LoadsFirst == pc \in {"discover", "load"} => merged = 0 /\ conflicts = <<>>

(* The severity of an entry is one that a definition gave.                 *)
SeverityGiven ==
    \A id \in RuleIds : ruleMap[id] # NoEntry =>
        \E i \in Merged(id) : ruleMap[id].rule.severity = defs[i].severity

IInv ==
    /\ RulesTypeOK
    /\ IsFiniteSet(Met)
    /\ LoadsFirst
    /\ NotWeakened
    /\ FirstDecides
    /\ SeverityGiven
    /\ ConflictsExact

(* The conflicts of one definition. *)
Reported(i) ==
    {c \in Conflict :
        /\ c.field = "enabled" => c.action = "ignored"
        /\ <<defs[i].id, defs[i].file>> = <<c.id, c.lower>>
        /\ Attempt(c.field, c.action, i)}

-----------------------------------------------------------------------------
(* What the helpers return. *)

LEMMA RankType ==
    ASSUME NEW s \in Severities
    PROVE  SeverityRank(s) \in 0..2
BY DEF Severities, SeverityRank

(* Strengthen gives a definition that is at least as strict and as urgent  *)
(* as both, and otherwise is the higher one.                               *)
LEMMA StrengthenDef ==
    ASSUME NEW h \in Definition, NEW l \in Definition, NEW s, s = Strengthen(h, l)
    PROVE  /\ s \in Definition
           /\ SeverityRank(s.severity) >= SeverityRank(h.severity)
           /\ SeverityRank(s.severity) >= SeverityRank(l.severity)
           /\ s.priority <= h.priority
           /\ s.priority <= l.priority
           /\ s.file = h.file
           /\ s.enabled = h.enabled
<1>1. /\ SeverityRank(h.severity) \in 0..2
      /\ SeverityRank(l.severity) \in 0..2
  BY RankType DEF Definition
<1>2. /\ h.priority \in Int
      /\ l.priority \in Int
  BY DEF Definition
<1>3. s \in Definition
  BY DEF Strengthen, Definition
<1>4. /\ s.severity = IF SeverityRank(l.severity) > SeverityRank(h.severity)
                      THEN l.severity ELSE h.severity
      /\ s.priority = IF l.priority < h.priority THEN l.priority ELSE h.priority
      /\ s.file = h.file
      /\ s.enabled = h.enabled
  BY DEF Strengthen, Definition
<1> QED
  BY <1>1, <1>2, <1>3, <1>4

LEMMA ConflictTypes ==
    ASSUME NEW h \in Definition, Current \in Definition
    PROVE  /\ EnabledConflict(h, Current) \in Seq(Conflict)
           /\ SeverityConflict(h, Current) \in Seq(Conflict)
           /\ EnabledConflict(h, Current) \o SeverityConflict(h, Current) \in Seq(Conflict)
<1>1. ASSUME NEW field \in {"enabled", "severity"}, NEW action \in {"ignored", "strengthened"}
      PROVE  Clash(field, action) \in Conflict
  BY <1>1 DEF Clash, Conflict, Definition
<1>2. EnabledConflict(h, Current) \in Seq(Conflict)
  BY <1>1 DEF EnabledConflict
<1>3. SeverityConflict(h, Current) \in Seq(Conflict)
  <2>1. Clash("severity", "ignored") \in Conflict /\ Clash("severity", "strengthened") \in Conflict
    BY <1>1
  <2> DEFINE lower == SeverityRank(Current.severity)
             higher == SeverityRank(h.severity)
  <2>2. /\ lower \in 0..2
        /\ higher \in 0..2
    BY RankType DEF Definition
  <2>3. SeverityConflict(h, Current) \in
            {<<Clash("severity", "ignored")>>, <<Clash("severity", "strengthened")>>, <<>>}
    <3> HIDE DEF lower, higher
    <3>1. SeverityConflict(h, Current) =
              CASE lower < higher -> <<Clash("severity", "ignored")>>
                [] lower > higher -> <<Clash("severity", "strengthened")>>
                [] OTHER -> <<>>
      BY DEF SeverityConflict, lower, higher
    <3> QED
      BY <2>2, <3>1
  <2>4. /\ <<Clash("severity", "ignored")>> \in Seq(Conflict)
        /\ <<Clash("severity", "strengthened")>> \in Seq(Conflict)
        /\ <<>> \in Seq(Conflict)
    BY <2>1
  <2> QED
    BY <2>3, <2>4
<1> QED
  BY <1>2, <1>3, ConcatProperties

(* The rules of a file that loads are definitions. *)
LEMMA StampType ==
    ASSUME disk \in DiskSpace, NEW path \in Paths, Exists(path), Loads(path)
    PROVE  Stamp(path) \in Seq(Definition)
<1>1. disk[path] \in PolicyRecord
  BY DiskSpaceAssumption DEF Exists
<1>2. disk[path].rules \in Seq(Rule)
  BY <1>1 DEF PolicyRecord
<1> DEFINE rules == disk[path].rules
<1>3. ASSUME NEW i \in DOMAIN rules
      PROVE  [id |-> rules[i].id, enabled |-> rules[i].enabled,
              severity |-> rules[i].severity, priority |-> rules[i].priority,
              file |-> path] \in Definition
  <2>1. rules[i] \in Rule
    BY <1>2, <1>3, ElementOfSeq
  <2>2. rules[i].id # NoId /\ rules[i].severity \in Severities
    BY <1>3 DEF Loads, Validate
  <2> QED
    BY <2>1, <2>2 DEF Rule, Definition
<1> DEFINE stamped(i) == [id |-> rules[i].id, enabled |-> rules[i].enabled,
                          severity |-> rules[i].severity, priority |-> rules[i].priority,
                          file |-> path]
<1>4. Stamp(path) = [i \in 1..Len(rules) |-> stamped(i)]
  BY <1>2 DEF Stamp, Stamped
<1>5. \A i \in 1..Len(rules) : stamped(i) \in Definition
  BY <1>2, <1>3
<1>6. Len(rules) \in Nat
  BY <1>2
<1> HIDE DEF stamped, rules
<1> QED
  BY <1>4, <1>5, <1>6

-----------------------------------------------------------------------------
(* The conflicts. *)

LEMMA ConflictsOfEach ==
    ConflictsExact <=> Range(conflicts) = UNION {Reported(i) : i \in 1..merged}
BY DEF ConflictsExact, Reported

LEMMA NoConflicts ==
    ASSUME merged = 0, conflicts = <<>>
    PROVE  ConflictsExact
<1>1. Range(conflicts) = {} /\ 1..merged = {}
  BY DEF Range
<1> QED
  BY <1>1, ConflictsOfEach

LEMMA ConflictsAdded ==
    ASSUME RulesTypeOK, ConflictsExact, merged' = merged + 1, defs' = defs,
           NEW new \in Seq(Conflict), conflicts' = conflicts \o new,
           Range(new) = Reported(merged + 1)
    PROVE  ConflictsExact'
<1>1. \A i : Reported(i)' = Reported(i)
  BY DEF Reported, Attempt
<1>2. Range(conflicts') = Range(conflicts) \cup Reported(merged + 1)
  BY RangeConcatenation DEF RulesTypeOK
<1>3. 1..merged' = (1..merged) \cup {merged + 1}
  BY DEF RulesTypeOK
<1>4. Range(conflicts) = UNION {Reported(i) : i \in 1..merged}
  BY ConflictsOfEach
<1>5. Range(conflicts') = UNION {Reported(i) : i \in 1..merged'}
  BY <1>2, <1>3, <1>4
<1>6. Range(conflicts)' = UNION {Reported(i)' : i \in 1..merged'}
  BY <1>1, <1>5 DEF Range
<1> QED
  BY <1>6 DEF ConflictsExact, Reported

-----------------------------------------------------------------------------
(* The invariant holds initially and is preserved. *)

LEMMA InitInv == Init => IInv
<1> SUFFICES ASSUME Init PROVE IInv
  OBVIOUS
<1>1. \A id \in RuleIds : ruleMap[id] = NoEntry
  BY DEF Init
<1>2. RulesTypeOK
  BY DEF Init, RulesTypeOK
<1>3. Met = {}
  BY <1>1 DEF Met
<1>4. LoadsFirst /\ NotWeakened /\ FirstDecides /\ SeverityGiven
  BY <1>1 DEF Init, LoadsFirst, NotWeakened, FirstDecides, SeverityGiven, Merged
<1>5. ConflictsExact
  BY NoConflicts DEF Init
<1> QED
  BY <1>2, <1>3, <1>4, <1>5, FS_EmptySet DEF IInv

(* Steps that leave the merge alone. *)
LEMMA UnchangedMerge ==
    ASSUME IInv, UNCHANGED <<defs, merged, ruleMap, conflicts>>
    PROVE  IsFiniteSet(Met)' /\ NotWeakened' /\ FirstDecides' /\ SeverityGiven' /\ ConflictsExact'
<1>1. \A id \in RuleIds : Merged(id)' = Merged(id)
  BY DEF Merged
<1>2. Met' = Met
  BY DEF Met
<1>3. ConflictsExact'
  <2>1. \A i : Reported(i)' = Reported(i)
    BY DEF Reported, Attempt
  <2>2. Range(conflicts)' = UNION {Reported(i)' : i \in 1..merged'}
    BY <2>1, ConflictsOfEach DEF IInv, Range
  <2> QED
    BY <2>2 DEF ConflictsExact, Reported
<1> QED
  BY <1>1, <1>2, <1>3 DEF IInv, NotWeakened, FirstDecides, SeverityGiven

LEMMA DiscoverInv ==
    ASSUME IInv, DiscoverConfigSources
    PROVE  IInv'
<1>1. RulesTypeOK'
  <2> DEFINE Found == {path \in Paths : Exists(path)}
  <2>1. \A path \in Paths : Exists(path) => <<path>> \in Seq(Found)
    OBVIOUS
  <2>2. {"home", "flag", "env", "project", "claude"} = Paths
    BY DEF Paths
  <2> HIDE DEF Found
  <2>3. /\ If(TRUE, "home") \in Seq(Found)
        /\ If(flagged, "flag") \in Seq(Found)
        /\ If(~flagged /\ envSet, "env") \in Seq(Found)
        /\ If(TRUE, "project") \in Seq(Found)
        /\ If(~Exists("project"), "claude") \in Seq(Found)
    BY <2>1, <2>2 DEF If
  <2>4. sources' \in Seq(Found)
    BY <2>3, ConcatProperties DEF DiscoverConfigSources
  <2>5. Found' = Found
    BY DEF Found, DiscoverConfigSources, Exists
  <2>6. sources' \in Seq({path \in Paths : Exists(path)})'
    BY <2>4, <2>5 DEF Found
  <2> QED
    BY <2>6 DEF IInv, RulesTypeOK, DiscoverConfigSources
<1>2. LoadsFirst'
  BY DEF IInv, LoadsFirst, DiscoverConfigSources
<1>3. UNCHANGED <<defs, merged, ruleMap, conflicts>>
  BY DEF DiscoverConfigSources
<1> QED
  BY <1>1, <1>2, <1>3, UnchangedMerge DEF IInv

LEMMA LoadSourceInv ==
    ASSUME IInv, LoadSource
    PROVE  IInv'
<1> DEFINE path == Head(sources)
           Found == {p \in Paths : Exists(p)}
<1>1. /\ disk \in DiskSpace /\ disk' = disk
      /\ sources \in Seq(Found) /\ sources # <<>> /\ sources' = Tail(sources)
      /\ layers \in Seq(Paths)
      /\ defs \in Seq(Definition)
      /\ pc = "load" /\ pc' = "load"
      /\ merged = 0 /\ merged' = 0
      /\ ruleMap' = ruleMap /\ conflicts = <<>> /\ conflicts' = <<>>
  BY DEF IInv, RulesTypeOK, LoadsFirst, LoadSource
<1>2. path \in Found /\ Tail(sources) \in Seq(Found)
  BY <1>1, HeadTailProperties
<1>3. Found' = Found
  BY <1>1 DEF Exists
<1>4. layers' \in Seq(Paths) /\ defs' \in Seq(Definition)
  <2>1. CASE Loads(path) /\ layers' = Append(layers, path) /\ defs' = defs \o Stamp(path)
    <3>1. Stamp(path) \in Seq(Definition)
      BY <1>1, <1>2, <2>1, StampType
    <3> QED
      BY <1>1, <1>2, <2>1, <3>1, AppendProperties, ConcatProperties
  <2>2. CASE layers' = layers /\ defs' = defs
    BY <1>1, <2>2
  <2> QED
    BY <2>1, <2>2 DEF LoadSource
<1>5. RulesTypeOK'
  <2>1. sources' \in Seq({p \in Paths : Exists(p)})'
    BY <1>1, <1>2, <1>3
  <2>2. Len(defs') \in Nat
    BY <1>4
  <2>3. ruleMap' \in [RuleIds -> Entry \cup {NoEntry}] /\ conflicts' \in Seq(Conflict)
    BY <1>1 DEF IInv, RulesTypeOK
  <2> QED
    BY <1>1, <1>4, <2>1, <2>2, <2>3 DEF RulesTypeOK
<1>6. \A id \in RuleIds : Merged(id) = {} /\ Merged(id)' = {}
  BY <1>1 DEF Merged
<1>7. IsFiniteSet(Met)'
  BY <1>1 DEF IInv, Met
<1>8. NotWeakened' /\ FirstDecides' /\ SeverityGiven'
  BY <1>1, <1>6 DEF IInv, NotWeakened, FirstDecides, SeverityGiven
<1>9. ConflictsExact'
  <2>1. Range(conflicts)' = {} /\ (1..merged)' = {}
    BY <1>1 DEF Range
  <2> QED
    BY <2>1 DEF ConflictsExact
<1> QED
  BY <1>1, <1>5, <1>7, <1>8, <1>9 DEF IInv, LoadsFirst

(* In both actions of the merge, the definitions merged of an identifier   *)
(* are as before, but for the current one's.                               *)
LEMMA MergeStep ==
    ASSUME IInv, merged < Len(defs), merged' = merged + 1, UNCHANGED defs,
           NEW current, current = Current.id
    PROVE  /\ merged + 1 \in DOMAIN defs
           /\ Current \in Definition
           /\ Current = defs[merged + 1]
           /\ merged' \in 0..Len(defs)
           /\ Merged(current)' = Merged(current) \cup {merged + 1}
           /\ \A id \in RuleIds : id # current => Merged(id)' = Merged(id)
           /\ \A id \in RuleIds : \A i \in Merged(id) : i \in 1..merged /\ i \in DOMAIN defs
<1>1. /\ defs \in Seq(Definition)
      /\ merged \in 0..Len(defs)
      /\ Len(defs) \in Nat
  BY DEF IInv, RulesTypeOK
<1>2. merged + 1 \in 1..Len(defs) /\ DOMAIN defs = 1..Len(defs)
  BY <1>1
<1>3. 1..merged' = (1..merged) \cup {merged + 1}
  BY <1>1
<1>4. Current = defs[merged + 1] /\ Current \in Definition
  BY <1>1, <1>2, ElementOfSeq DEF Current
<1>5. merged' \in 0..Len(defs)
  BY <1>1, <1>2
<1>6. ASSUME NEW id
      PROVE  Merged(id)' = IF id = current THEN Merged(id) \cup {merged + 1} ELSE Merged(id)
  <2>1. Merged(id)' = {i \in (1..merged) \cup {merged + 1} : defs[i].id = id}
    BY <1>3 DEF Merged
  <2>2. defs[merged + 1].id = current
    BY <1>4
  <2> QED
    BY <2>1, <2>2 DEF Merged
<1>7. \A id \in RuleIds : \A i \in Merged(id) : i \in 1..merged /\ i \in DOMAIN defs
  BY <1>1, <1>2 DEF Merged
<1> QED
  BY <1>2, <1>4, <1>5, <1>6, <1>7

(* What the earlier definitions are to the current one, and what they make *)
(* of its conflicts.                                                       *)
LEMMA AttemptOf ==
    ASSUME NEW i, NEW earlier, earlier = {j \in 1..(i - 1) : defs[j].id = defs[i].id}
    PROVE  /\ Attempt("enabled", "ignored", i) <=>
                 /\ ~defs[i].enabled
                 /\ \E j \in earlier : defs[j].enabled /\ \A k \in earlier : j <= k
           /\ Attempt("severity", "ignored", i) <=>
                 \E j \in earlier : SeverityRank(defs[j].severity) > SeverityRank(defs[i].severity)
           /\ Attempt("severity", "strengthened", i) <=>
                 /\ earlier # {}
                 /\ \A j \in earlier :
                       SeverityRank(defs[j].severity) < SeverityRank(defs[i].severity)
<1>1. Attempt("enabled", "ignored", i) <=>
          /\ ~defs[i].enabled
          /\ \E j \in earlier : defs[j].enabled /\ \A k \in earlier : j <= k
  BY DEF Attempt
<1>2. Attempt("severity", "ignored", i) <=>
          \E j \in earlier : SeverityRank(defs[j].severity) > SeverityRank(defs[i].severity)
  BY DEF Attempt
<1>3. Attempt("severity", "strengthened", i) <=>
          /\ earlier # {}
          /\ \A j \in earlier : SeverityRank(defs[j].severity) < SeverityRank(defs[i].severity)
  BY DEF Attempt
<1> QED
  BY <1>1, <1>2, <1>3

LEMMA FirstReportsNothing ==
    ASSUME NEW n, {j \in 1..(n - 1) : defs[j].id = defs[n].id} = {}
    PROVE  Reported(n) = {}
<1>1. /\ ~Attempt("enabled", "ignored", n)
      /\ ~Attempt("severity", "ignored", n)
      /\ ~Attempt("severity", "strengthened", n)
  BY AttemptOf
<1> SUFFICES ASSUME NEW c \in Conflict, c.field = "enabled" => c.action = "ignored",
                    Attempt(c.field, c.action, n)
             PROVE  FALSE
  BY DEF Reported
<1>2. c.field \in {"enabled", "severity"} /\ c.action \in {"ignored", "strengthened"}
  BY DEF Conflict
<1> QED
  BY <1>1, <1>2

LEMMA OverrideReports ==
    ASSUME IInv, NEW id \in RuleIds, id = Current.id, Current = defs[merged + 1],
           Current \in Definition, ruleMap[id] # NoEntry, NEW higher \in Definition,
           higher = ruleMap[id].rule
    PROVE  Range(EnabledConflict(higher, Current) \o SeverityConflict(higher, Current))
               = Reported(merged + 1)
<1> DEFINE n == merged + 1
           Rank(j) == SeverityRank(defs[j].severity)
           low == SeverityRank(Current.severity)
           high == SeverityRank(higher.severity)
<1>1. merged \in Nat /\ n - 1 = merged
  BY DEF IInv, RulesTypeOK
<1>2. {j \in 1..(n - 1) : defs[j].id = defs[n].id} = Merged(id)
  BY <1>1 DEF Merged
<1>3. PICK first \in Merged(id) :
         (\A j \in Merged(id) : first <= j) /\ higher.enabled = defs[first].enabled
  BY DEF IInv, FirstDecides
<1>4. \A i, j \in Merged(id) : i <= j /\ j <= i => i = j
  BY <1>1 DEF Merged
<1>5. Attempt("enabled", "ignored", n) <=> higher.enabled /\ ~Current.enabled
  <2>1. Attempt("enabled", "ignored", n) <=>
            /\ ~Current.enabled
            /\ \E j \in Merged(id) : defs[j].enabled /\ \A k \in Merged(id) : j <= k
    BY <1>2, AttemptOf
  <2> QED
    BY <1>3, <1>4, <2>1
<1>6. high \in 0..2 /\ low \in 0..2
  BY RankType DEF Definition
<1>7. \A j \in Merged(id) : Rank(j) \in 0..2 /\ high >= Rank(j)
  <2> TAKE j \in Merged(id)
  <2>1. j \in 1..merged /\ j \in DOMAIN defs
    BY DEF IInv, RulesTypeOK, Merged
  <2>2. defs[j] \in Definition
    BY <2>1, ElementOfSeq DEF IInv, RulesTypeOK
  <2> QED
    BY <2>2, RankType DEF IInv, NotWeakened, Definition
<1>8. PICK given \in Merged(id) : higher.severity = defs[given].severity
  BY DEF IInv, SeverityGiven
<1>9. Attempt("severity", "ignored", n) <=> low < high
  <2>1. Attempt("severity", "ignored", n) <=> \E j \in Merged(id) : Rank(j) > low
    BY <1>2, AttemptOf
  <2> HIDE DEF low, Rank
  <2>2. Rank(given) = high
    BY <1>8 DEF Rank
  <2> QED
    BY <1>6, <1>7, <2>1, <2>2
<1>10. Attempt("severity", "strengthened", n) <=> low > high
  <2>1. Attempt("severity", "strengthened", n) <=> \A j \in Merged(id) : Rank(j) < low
    BY <1>2, <1>3, AttemptOf
  <2> HIDE DEF low, Rank
  <2>2. Rank(given) = high
    BY <1>8 DEF Rank
  <2> QED
    BY <1>6, <1>7, <1>8, <2>1, <2>2
<1> HIDE DEF low, high
<1>11. ASSUME NEW c \in Conflict, <<defs[n].id, defs[n].file>> = <<c.id, c.lower>>
       PROVE  c = Clash(c.field, c.action)
  BY <1>11 DEF Conflict, Clash
<1>12. ASSUME NEW field \in {"enabled", "severity"}, NEW action \in {"ignored", "strengthened"}
       PROVE  /\ Clash(field, action) \in Conflict
              /\ Clash(field, action).field = field /\ Clash(field, action).action = action
              /\ <<defs[n].id, defs[n].file>> = <<Clash(field, action).id, Clash(field, action).lower>>
  BY <1>12 DEF Conflict, Clash, Definition
<1>13. Reported(n) =
           (IF higher.enabled /\ ~Current.enabled THEN {Clash("enabled", "ignored")} ELSE {})
           \cup (IF low < high THEN {Clash("severity", "ignored")} ELSE {})
           \cup (IF low > high THEN {Clash("severity", "strengthened")} ELSE {})
  <2>1. \A c : c \in Reported(n) <=>
            \/ c = Clash("enabled", "ignored") /\ Attempt("enabled", "ignored", n)
            \/ c = Clash("severity", "ignored") /\ Attempt("severity", "ignored", n)
            \/ c = Clash("severity", "strengthened") /\ Attempt("severity", "strengthened", n)
    <3>1. ASSUME NEW c \in Reported(n)
          PROVE  \/ c = Clash("enabled", "ignored") /\ Attempt("enabled", "ignored", n)
                 \/ c = Clash("severity", "ignored") /\ Attempt("severity", "ignored", n)
                 \/ c = Clash("severity", "strengthened") /\ Attempt("severity", "strengthened", n)
      <4>1. c \in Conflict /\ c = Clash(c.field, c.action) /\ Attempt(c.field, c.action, n)
            /\ (c.field = "enabled" => c.action = "ignored")
        BY <1>11 DEF Reported
      <4>2. c.field \in {"enabled", "severity"} /\ c.action \in {"ignored", "strengthened"}
        BY <4>1 DEF Conflict
      <4> QED
        BY <4>1, <4>2
    <3>2. ASSUME NEW field \in {"enabled", "severity"}, NEW action \in {"ignored", "strengthened"},
                 field = "enabled" => action = "ignored", Attempt(field, action, n)
          PROVE  Clash(field, action) \in Reported(n)
      BY <1>12, <3>2 DEF Reported
    <3> QED
      BY <3>1, <3>2
  <2> QED
    BY <1>5, <1>9, <1>10, <2>1
<1>14. Range(EnabledConflict(higher, Current)) =
           IF higher.enabled /\ ~Current.enabled THEN {Clash("enabled", "ignored")} ELSE {}
  BY DEF EnabledConflict, Range
<1>15. Range(SeverityConflict(higher, Current)) =
           (IF low < high THEN {Clash("severity", "ignored")} ELSE {})
           \cup (IF low > high THEN {Clash("severity", "strengthened")} ELSE {})
  <2>1. SeverityConflict(higher, Current) =
            CASE low < high -> <<Clash("severity", "ignored")>>
              [] low > high -> <<Clash("severity", "strengthened")>>
              [] OTHER -> <<>>
    BY DEF SeverityConflict, low, high
  <2>2. \A x : Range(<<x>>) = {x}
    BY DEF Range
  <2>3. Range(<<>>) = {}
    BY DEF Range
  <2> QED
    BY <1>6, <2>1, <2>2, <2>3
<1>16. /\ EnabledConflict(higher, Current) \in Seq(Conflict)
       /\ SeverityConflict(higher, Current) \in Seq(Conflict)
  BY ConflictTypes
<1>17. Range(EnabledConflict(higher, Current) \o SeverityConflict(higher, Current))
           = Range(EnabledConflict(higher, Current)) \cup Range(SeverityConflict(higher, Current))
  BY <1>16, RangeConcatenation
<1> QED
  BY <1>13, <1>14, <1>15, <1>17

LEMMA AddRuleInv ==
    ASSUME IInv, AddRule
    PROVE  IInv'
<1>0. PICK id : id = Current.id
  OBVIOUS
<1> DEFINE entry == [rule |-> Current, order |-> Cardinality(Met)]
<1>1. /\ merged < Len(defs) /\ merged' = merged + 1
      /\ pc = "merge" /\ pc' = "merge"
      /\ UNCHANGED <<disk, sources, layers, defs, conflicts>>
      /\ ruleMap[id] = NoEntry
      /\ ruleMap' = [ruleMap EXCEPT ![id] = entry]
  BY <1>0 DEF AddRule, Met
<1>2. /\ merged + 1 \in DOMAIN defs
      /\ Current \in Definition
      /\ Current = defs[merged + 1]
      /\ merged' \in 0..Len(defs)
      /\ Merged(id)' = Merged(id) \cup {merged + 1}
      /\ \A other \in RuleIds : other # id => Merged(other)' = Merged(other)
      /\ \A other \in RuleIds : \A i \in Merged(other) : i \in 1..merged /\ i \in DOMAIN defs
  BY <1>0, <1>1, MergeStep
<1>3. id \in RuleIds
  BY <1>0, <1>2 DEF Definition
<1>4. entry \in Entry
  BY <1>2, FS_CardinalityType DEF IInv, Entry
<1>5. entry # NoEntry
  BY <1>4, NoEntryAssumption
<1> HIDE DEF entry
<1>6. /\ ruleMap \in [RuleIds -> Entry \cup {NoEntry}]
      /\ ruleMap' \in [RuleIds -> Entry \cup {NoEntry}]
      /\ ruleMap'[id] = entry
      /\ \A other \in RuleIds : other # id => ruleMap'[other] = ruleMap[other]
  BY <1>1, <1>3, <1>4 DEF IInv, RulesTypeOK
<1>7. RulesTypeOK'
  BY <1>1, <1>2, <1>6 DEF IInv, RulesTypeOK, Exists
<1>8. IsFiniteSet(Met)'
  <2>1. Met' = Met \cup {id}
    BY <1>3, <1>5, <1>6 DEF Met
  <2> QED
    BY <2>1, FS_AddElement DEF IInv
<1>9. Merged(id) = {}
  BY <1>1, <1>3 DEF IInv, NotWeakened
<1>10. entry.rule = Current
  BY DEF entry
<1>11. NotWeakened'
  <2> SUFFICES ASSUME NEW x \in RuleIds, NEW i \in Merged(x)'
               PROVE  /\ ruleMap'[x] # NoEntry
                      /\ SeverityRank(ruleMap'[x].rule.severity) >= SeverityRank(defs[i].severity)
                      /\ ruleMap'[x].rule.priority <= defs[i].priority
    BY <1>1 DEF NotWeakened
  <2>1. CASE x = id
    <3>1. i = merged + 1
      BY <1>2, <1>9, <2>1
    <3>2. SeverityRank(Current.severity) \in 0..2 /\ Current.priority \in Int
      BY <1>2, RankType DEF Definition
    <3> QED
      BY <1>2, <1>5, <1>6, <1>10, <2>1, <3>1, <3>2
  <2>2. CASE x # id
    BY <1>2, <1>6, <2>2 DEF IInv, NotWeakened
  <2> QED
    BY <2>1, <2>2
<1>12. FirstDecides'
  <2> SUFFICES ASSUME NEW x \in RuleIds, ruleMap'[x] # NoEntry
               PROVE  \E i \in Merged(x)' :
                         /\ \A j \in Merged(x)' : i <= j
                         /\ ruleMap'[x].rule.file = defs[i].file
                         /\ ruleMap'[x].rule.enabled = defs[i].enabled
    BY <1>1 DEF FirstDecides
  <2>1. CASE x = id
    <3>1. Merged(x)' = {merged + 1} /\ merged + 1 \in Int
      BY <1>2, <1>9, <2>1 DEF IInv, RulesTypeOK
    <3> QED
      BY <1>2, <1>6, <1>10, <2>1, <3>1
  <2>2. CASE x # id
    BY <1>2, <1>6, <2>2 DEF IInv, FirstDecides
  <2> QED
    BY <2>1, <2>2
<1>13. SeverityGiven'
  <2> SUFFICES ASSUME NEW x \in RuleIds, ruleMap'[x] # NoEntry
               PROVE  \E i \in Merged(x)' : ruleMap'[x].rule.severity = defs[i].severity
    BY <1>1 DEF SeverityGiven
  <2>1. CASE x = id
    BY <1>2, <1>6, <1>10, <2>1
  <2>2. CASE x # id
    BY <1>2, <1>6, <2>2 DEF IInv, SeverityGiven
  <2> QED
    BY <2>1, <2>2
<1>14. ConflictsExact'
  <2>1. Reported(merged + 1) = {}
    <3>1. PICK n : n = merged + 1
      OBVIOUS
    <3>2. n - 1 = merged
      BY <3>1 DEF IInv, RulesTypeOK
    <3>3. {j \in 1..(n - 1) : defs[j].id = defs[n].id} = {}
      BY <1>0, <1>2, <1>9, <3>1, <3>2 DEF Merged
    <3> QED
      BY <3>1, <3>3, FirstReportsNothing
  <2>2. Range(<<>>) = {} /\ conflicts' = conflicts \o <<>> /\ <<>> \in Seq(Conflict)
    BY <1>1, ConcatEmptySeq DEF Range, IInv, RulesTypeOK
  <2> QED
    BY <1>1, <2>1, <2>2, ConflictsAdded DEF IInv
<1> QED
  BY <1>1, <1>7, <1>8, <1>11, <1>12, <1>13, <1>14 DEF IInv, LoadsFirst

LEMMA OverrideRuleInv ==
    ASSUME IInv, OverrideRule
    PROVE  IInv'
<1>0. PICK id : id = Current.id
  OBVIOUS
<1> DEFINE higher == ruleMap[id].rule
           stronger == Strengthen(higher, Current)
<1>1. /\ merged < Len(defs) /\ merged' = merged + 1
      /\ pc = "merge" /\ pc' = "merge"
      /\ UNCHANGED <<disk, sources, layers, defs>>
      /\ ruleMap[id] # NoEntry
      /\ ruleMap' = [ruleMap EXCEPT ![id].rule = stronger]
      /\ conflicts' = conflicts \o EnabledConflict(higher, Current)
                                \o SeverityConflict(higher, Current)
  BY <1>0 DEF OverrideRule
<1>2. /\ merged + 1 \in DOMAIN defs
      /\ Current \in Definition
      /\ Current = defs[merged + 1]
      /\ merged' \in 0..Len(defs)
      /\ Merged(id)' = Merged(id) \cup {merged + 1}
      /\ \A other \in RuleIds : other # id => Merged(other)' = Merged(other)
      /\ \A other \in RuleIds : \A i \in Merged(other) : i \in 1..merged /\ i \in DOMAIN defs
  BY <1>0, <1>1, MergeStep
<1>3. id \in RuleIds
  BY <1>0, <1>2 DEF Definition
<1>4. ruleMap \in [RuleIds -> Entry \cup {NoEntry}]
  BY DEF IInv, RulesTypeOK
<1>5. ruleMap[id] \in Entry /\ higher \in Definition
  BY <1>1, <1>3, <1>4 DEF Entry
<1> HIDE DEF stronger
<1>6. /\ stronger \in Definition
      /\ SeverityRank(stronger.severity) >= SeverityRank(higher.severity)
      /\ SeverityRank(stronger.severity) >= SeverityRank(Current.severity)
      /\ stronger.priority <= higher.priority
      /\ stronger.priority <= Current.priority
      /\ stronger.file = higher.file
      /\ stronger.enabled = higher.enabled
  BY <1>2, <1>5, StrengthenDef DEF stronger
<1>7. /\ ruleMap'[id] \in Entry
      /\ ruleMap'[id].rule = stronger
      /\ ruleMap' \in [RuleIds -> Entry \cup {NoEntry}]
      /\ \A other \in RuleIds : other # id => ruleMap'[other] = ruleMap[other]
  BY <1>1, <1>3, <1>4, <1>5, <1>6 DEF Entry
<1>8. RulesTypeOK'
  <2>1. conflicts' \in Seq(Conflict)
    BY <1>1, <1>2, <1>5, ConflictTypes, ConcatProperties DEF IInv, RulesTypeOK
  <2> QED
    BY <1>1, <1>2, <1>7, <2>1 DEF IInv, RulesTypeOK, Exists
<1>9. IsFiniteSet(Met)'
  <2>1. Met' = Met
    BY <1>1, <1>7, NoEntryAssumption DEF Met
  <2> QED
    BY <2>1 DEF IInv
<1>10. ASSUME NEW i \in DOMAIN defs
       PROVE  /\ defs[i] \in Definition
              /\ SeverityRank(defs[i].severity) \in 0..2
              /\ defs[i].priority \in Int
  <2>1. defs[i] \in Definition
    BY <1>10, ElementOfSeq DEF IInv, RulesTypeOK
  <2> QED
    BY <2>1, RankType DEF Definition
<1>11. /\ SeverityRank(stronger.severity) \in 0..2 /\ stronger.priority \in Int
       /\ SeverityRank(higher.severity) \in 0..2 /\ higher.priority \in Int
  BY <1>5, <1>6, RankType DEF Definition
<1>12. NotWeakened'
  <2> SUFFICES ASSUME NEW x \in RuleIds, NEW i \in Merged(x)'
               PROVE  /\ ruleMap'[x] # NoEntry
                      /\ SeverityRank(ruleMap'[x].rule.severity) >= SeverityRank(defs[i].severity)
                      /\ ruleMap'[x].rule.priority <= defs[i].priority
    BY <1>1 DEF NotWeakened
  <2>1. CASE x = id /\ i = merged + 1
    BY <1>2, <1>6, <1>7, <2>1, NoEntryAssumption
  <2>2. CASE x = id /\ i \in Merged(id)
    <3>1. /\ SeverityRank(higher.severity) >= SeverityRank(defs[i].severity)
          /\ higher.priority <= defs[i].priority
      BY <1>3, <2>2 DEF IInv, NotWeakened
    <3>2. SeverityRank(defs[i].severity) \in 0..2 /\ defs[i].priority \in Int
      BY <1>2, <1>3, <1>10, <2>2
    <3>3. /\ SeverityRank(stronger.severity) >= SeverityRank(defs[i].severity)
          /\ stronger.priority <= defs[i].priority
      BY <1>6, <1>11, <3>1, <3>2
    <3> QED
      BY <1>7, <2>2, <3>3, NoEntryAssumption
  <2>3. CASE x # id
    BY <1>2, <1>7, <2>3 DEF IInv, NotWeakened
  <2> QED
    BY <1>2, <2>1, <2>2, <2>3
<1>13. FirstDecides'
  <2> SUFFICES ASSUME NEW x \in RuleIds, ruleMap'[x] # NoEntry
               PROVE  \E i \in Merged(x)' :
                         /\ \A j \in Merged(x)' : i <= j
                         /\ ruleMap'[x].rule.file = defs[i].file
                         /\ ruleMap'[x].rule.enabled = defs[i].enabled
    BY <1>1 DEF FirstDecides
  <2>1. CASE x = id
    <3>1. PICK i \in Merged(id) : /\ \A j \in Merged(id) : i <= j
                                  /\ higher.file = defs[i].file
                                  /\ higher.enabled = defs[i].enabled
      BY <1>1, <1>3 DEF IInv, FirstDecides
    <3>2. i <= merged + 1
      BY <1>2, <1>3, <3>1 DEF IInv, RulesTypeOK
    <3> QED
      BY <1>2, <1>6, <1>7, <2>1, <3>1, <3>2
  <2>2. CASE x # id
    BY <1>2, <1>7, <2>2 DEF IInv, FirstDecides
  <2> QED
    BY <2>1, <2>2
<1>14. SeverityGiven'
  <2> SUFFICES ASSUME NEW x \in RuleIds, ruleMap'[x] # NoEntry
               PROVE  \E i \in Merged(x)' : ruleMap'[x].rule.severity = defs[i].severity
    BY <1>1 DEF SeverityGiven
  <2>1. CASE x = id
    <3>1. stronger.severity \in {higher.severity, Current.severity}
      BY <1>5 DEF stronger, Strengthen, Definition
    <3>2. PICK i \in Merged(id) : higher.severity = defs[i].severity
      BY <1>1, <1>3 DEF IInv, SeverityGiven
    <3> QED
      BY <1>2, <1>7, <2>1, <3>1, <3>2
  <2>2. CASE x # id
    BY <1>2, <1>7, <2>2 DEF IInv, SeverityGiven
  <2> QED
    BY <2>1, <2>2
<1>15. ConflictsExact'
  <2> DEFINE new == EnabledConflict(higher, Current) \o SeverityConflict(higher, Current)
  <2>1. new \in Seq(Conflict)
    BY <1>2, <1>5, ConflictTypes
  <2>2. Range(new) = Reported(merged + 1)
    BY <1>0, <1>1, <1>2, <1>3, <1>5, OverrideReports
  <2>3. conflicts' = conflicts \o new
    <3>1. conflicts \in Seq(Conflict)
      BY DEF IInv, RulesTypeOK
    <3>2. /\ EnabledConflict(higher, Current) \in Seq(Conflict)
          /\ SeverityConflict(higher, Current) \in Seq(Conflict)
      BY <1>2, <1>5, ConflictTypes
    <3> QED
      BY <1>1, <3>1, <3>2, ConcatAssociative
  <2> HIDE DEF new
  <2> QED
    BY <1>1, <2>1, <2>2, <2>3, ConflictsAdded DEF IInv
<1> QED
  BY <1>1, <1>8, <1>9, <1>12, <1>13, <1>14, <1>15 DEF IInv, LoadsFirst

LEMMA NextInv == IInv /\ [Next]_vars => IInv'
<1> SUFFICES ASSUME IInv, [Next]_vars PROVE IInv'
  OBVIOUS
<1>1. CASE DiscoverConfigSources
  BY <1>1, DiscoverInv
<1>2. CASE LoadSource
  BY <1>2, LoadSourceInv
<1>3. CASE AddRule
  BY <1>3, AddRuleInv
<1>4. CASE OverrideRule
  BY <1>4, OverrideRuleInv
<1>5. CASE TakeSingle \/ StartMerge \/ Collect \/ UNCHANGED vars
  <2>1. /\ UNCHANGED <<disk, sources, layers, defs, merged, ruleMap, conflicts>>
        /\ pc' \in {pc, "merge", "done"}
    BY <1>5 DEF TakeSingle, StartMerge, Collect, vars
  <2>2. RulesTypeOK' /\ LoadsFirst'
    BY <2>1 DEF IInv, RulesTypeOK, LoadsFirst, Exists
  <2> QED
    BY <2>1, <2>2, UnchangedMerge DEF IInv
<1> QED
  BY <1>1, <1>2, <1>3, <1>4, <1>5 DEF Next

THEOREM Invariance == Spec => []IInv
BY InitInv, NextInv, PTL DEF Spec

-----------------------------------------------------------------------------
(* Results *)

(* Whatever the files hold, everything that LoadAll and MergePolicies keep *)
(* about rules has its type: no rule that validate rejects gets through.   *)
THEOREM RulesTyped == Spec => []RulesTypeOK
<1>1. IInv => RulesTypeOK
  BY DEF IInv
<1> QED
  BY <1>1, Invariance, PTL

(* No layer weakens a rule: at every point of the merge each rule is at    *)
(* least as strict and as urgent as every definition of it merged so far.  *)
THEOREM NeverWeakened == Spec => []NotWeakened
<1>1. IInv => NotWeakened
  BY DEF IInv
<1> QED
  BY <1>1, Invariance, PTL

(* The most authoritative definition of a rule alone decides whether it is *)
(* enabled, and what else the merge does not strengthen.                   *)
THEOREM AuthorityDecides == Spec => []FirstDecides
<1>1. IInv => FirstDecides
  BY DEF IInv
<1> QED
  BY <1>1, Invariance, PTL

(* The conflicts a user is shown are exactly the attempts to weaken a rule *)
(* and the strengthenings, however many layers define it (merge.go).       *)
THEOREM ConflictsAreExact == Spec => []ConflictsExact
<1>1. IInv => ConflictsExact
  BY DEF IInv
<1> QED
  BY <1>1, Invariance, PTL

-----------------------------------------------------------------------------
(* The result.  What the merge does with the layers is related to what the *)
(* files hold; for that, where the definitions come from is an invariant   *)
(* too, and so is the order of the entries.                                *)

Readable(path) == Exists(path) /\ Loads(path)

(* What is there at each stage. *)
Stages ==
    /\ pc = "discover" => sources = <<>> /\ layers = <<>> /\ defs = <<>>
    /\ pc \in {"merge", "done"} => sources = <<>>
    /\ \A k \in DOMAIN layers : Readable(layers[k])

(* The user's file and the project's are found, and the user's comes first.*)
Found ==
    pc # "discover" =>
        /\ \A path \in {"home", "project"} :
              Readable(path) => path \in Range(sources) \cup Range(layers)
        /\ Readable("home") =>
              \/ sources # <<>> /\ Head(sources) = "home" /\ layers = <<>>
              \/ layers # <<>> /\ layers[1] = "home"

(* The definitions are the rules of the layers, in order: the i-th is the  *)
(* nth[i]-th rule of layer from[i].                                        *)
Placed(from, nth) ==
    /\ \A i \in DOMAIN defs :
          /\ from[i] \in DOMAIN layers
          /\ nth[i] \in DOMAIN RulesOf(from[i])
          /\ defs[i] = Stamped(RulesOf(from[i])[nth[i]], layers[from[i]])
    /\ \A k \in DOMAIN layers : \A m \in DOMAIN RulesOf(k) :
          \E i \in DOMAIN defs : from[i] = k /\ nth[i] = m
    /\ \A i, j \in DOMAIN defs :
          i < j => from[i] < from[j] \/ (from[i] = from[j] /\ nth[i] < nth[j])

InPlace == \E from, nth \in [DOMAIN defs -> Nat] : Placed(from, nth)

(* An entry is about its identifier, its priority is one that was given,   *)
(* and the entries are in the order in which their identifiers were met.   *)
Entries ==
    /\ \A id \in Met :
          /\ ruleMap[id].rule.id = id
          /\ ruleMap[id].order < Cardinality(Met)
          /\ \E i \in Merged(id) : ruleMap[id].rule.priority = defs[i].priority
    /\ \A x, y \in Met :
          x # y /\ ruleMap[x].order <= ruleMap[y].order =>
              /\ ruleMap[x].order < ruleMap[y].order
              /\ \E i \in Merged(x) : \A j \in Merged(y) : i < j

ResultInv == TypeOK /\ Stages /\ Found /\ InPlace /\ Entries /\ RulesFromFiles

LEMMA InitResult == Init => ResultInv
<1> SUFFICES ASSUME Init PROVE ResultInv
  OBVIOUS
<1>1. TypeOK
  <2>1. policy.plugins = <<>> /\ policy.rules = <<>>
    BY DEF Init, EmptyPolicy
  <2>2. RulesTypeOK
    BY InitInv DEF IInv
  <2> QED
    BY <2>1, <2>2 DEF Init, TypeOK
<1>2. Stages /\ Found /\ RulesFromFiles
  BY DEF Init, Stages, Found, RulesFromFiles
<1>3. InPlace
  <2>1. DOMAIN defs = {} /\ DOMAIN layers = {}
    BY DEF Init
  <2>2. [i \in DOMAIN defs |-> 0] \in [DOMAIN defs -> Nat]
    OBVIOUS
  <2>3. Placed([i \in DOMAIN defs |-> 0], [i \in DOMAIN defs |-> 0])
    BY <2>1 DEF Placed
  <2> QED
    BY <2>2, <2>3 DEF InPlace
<1>4. Entries
  <2>1. Met = {}
    BY DEF Init, Met
  <2> QED
    BY <2>1 DEF Entries
<1> QED
  BY <1>1, <1>2, <1>3, <1>4 DEF ResultInv

LEMMA UnchangedResult ==
    ASSUME ResultInv, UNCHANGED <<disk, layers, defs, merged, ruleMap>>
    PROVE  InPlace' /\ Entries'
<1>1. PICK from, nth \in [DOMAIN defs -> Nat] : Placed(from, nth)
  BY DEF ResultInv, InPlace
<1>2. \A k : RulesOf(k)' = RulesOf(k)
  BY DEF RulesOf
<1>3. Placed(from, nth)'
  BY <1>1, <1>2 DEF Placed
<1>4. Met' = Met /\ \A id : Merged(id)' = Merged(id)
  BY DEF Met, Merged
<1> QED
  BY <1>1, <1>3, <1>4 DEF ResultInv, InPlace, Entries

LEMMA IfType ==
    ASSUME NEW path \in Paths, NEW cond
    PROVE  If(cond, path) \in Seq(Paths)
BY DEF If

LEMMA RangeConcat ==
    ASSUME NEW S, NEW s \in Seq(S), NEW t \in Seq(S)
    PROVE  /\ s \o t \in Seq(S)
           /\ Range(s \o t) = Range(s) \cup Range(t)
           /\ s # <<>> => s \o t # <<>> /\ (s \o t)[1] = s[1]
<1>1. /\ s \o t \in Seq(S)
      /\ Len(s \o t) = Len(s) + Len(t)
      /\ \A i \in 1..Len(s) + Len(t) : (s \o t)[i] = IF i <= Len(s) THEN s[i] ELSE t[i - Len(s)]
  BY ConcatProperties
<1>2. Range(s \o t) = Range(s) \cup Range(t)
  BY RangeConcatenation
<1>3. s # <<>> => s \o t # <<>> /\ (s \o t)[1] = s[1]
  <2>1. Len(s) \in Nat /\ Len(t) \in Nat /\ (s # <<>> => Len(s) > 0)
    OBVIOUS
  <2> QED
    BY <1>1, <2>1
<1> QED
  BY <1>1, <1>2, <1>3

LEMMA DiscoverResult ==
    ASSUME IInv, ResultInv, DiscoverConfigSources
    PROVE  ResultInv'
<1>1. /\ pc = "discover" /\ pc' = "load"
      /\ UNCHANGED <<disk, flagged, envSet, layers, defs, merged, ruleMap, conflicts, policy>>
      /\ sources' = If(TRUE, "home") \o If(flagged, "flag") \o If(~flagged /\ envSet, "env")
                    \o If(TRUE, "project") \o If(~Exists("project"), "claude")
  BY DEF DiscoverConfigSources
<1>2. layers = <<>> /\ defs = <<>>
  BY <1>1 DEF ResultInv, Stages
<1>3. TypeOK'
  <2>1. RulesTypeOK'
    BY DiscoverInv DEF IInv
  <2> QED
    BY <1>1, <2>1 DEF ResultInv, TypeOK
<1>4. Stages' /\ RulesFromFiles'
  BY <1>1, <1>2 DEF Stages, RulesFromFiles
<1>5. InPlace' /\ Entries'
  BY <1>1, UnchangedResult
<1>6. Found'
  <2>1. PICK A, B, C, D, E \in Seq(Paths) :
           /\ A = If(TRUE, "home") /\ D = If(TRUE, "project")
           /\ sources' = A \o B \o C \o D \o E
    BY <1>1, IfType DEF Paths
  <2>10. PICK found : found = sources'
    OBVIOUS
  <2>11. found = A \o B \o C \o D \o E
    BY <2>1, <2>10
  <2>12. /\ Range(found) = Range(A) \cup Range(B) \cup Range(C) \cup Range(D) \cup Range(E)
         /\ A # <<>> => found # <<>> /\ Head(found) = A[1]
    <3>0. A \in Seq(Paths) /\ B \in Seq(Paths) /\ C \in Seq(Paths)
          /\ D \in Seq(Paths) /\ E \in Seq(Paths)
      BY <2>1
    <3>1. PICK AB : AB = A \o B
      OBVIOUS
    <3>2. AB \in Seq(Paths) /\ Range(AB) = Range(A) \cup Range(B) /\ (A # <<>> => AB # <<>> /\ AB[1] = A[1])
      BY <3>0, <3>1, RangeConcat
    <3>3. PICK AC : AC = AB \o C
      OBVIOUS
    <3>4. AC \in Seq(Paths) /\ Range(AC) = Range(AB) \cup Range(C) /\ (AB # <<>> => AC # <<>> /\ AC[1] = AB[1])
      BY <3>2, <3>3, <3>0, RangeConcat
    <3>5. PICK AD : AD = AC \o D
      OBVIOUS
    <3>6. AD \in Seq(Paths) /\ Range(AD) = Range(AC) \cup Range(D) /\ (AC # <<>> => AD # <<>> /\ AD[1] = AC[1])
      BY <3>4, <3>5, <3>0, RangeConcat
    <3>7. found = AD \o E
      BY <3>1, <3>3, <3>5, <2>11
    <3>8. found \in Seq(Paths) /\ Range(found) = Range(AD) \cup Range(E) /\ (AD # <<>> => found # <<>> /\ found[1] = AD[1])
      BY <3>6, <3>7, <3>0, RangeConcat
    <3>9. found # <<>> => Head(found) = found[1]
      BY <3>8
    <3> QED
      BY <3>2, <3>4, <3>6, <3>8, <3>9
  <2>2. /\ Range(sources') = Range(A) \cup Range(B) \cup Range(C) \cup Range(D) \cup Range(E)
        /\ A # <<>> => sources' # <<>> /\ Head(sources') = A[1]
    BY <2>10, <2>12
  <2>3. \A path \in Paths : Exists(path) => If(TRUE, path) = <<path>>
    BY DEF If
  <2>4. \A path : Readable(path)' = Readable(path) /\ (Readable(path) => Exists(path))
    BY <1>1 DEF Readable, Exists, Loads
  <2>5. \A path : Range(<<path>>) = {path} /\ <<path>>[1] = path
    BY DEF Range
  <2>6. "home" \in Paths /\ "project" \in Paths
    BY DEF Paths
  <2>7. ASSUME Readable("home")
        PROVE  sources' # <<>> /\ Head(sources') = "home" /\ "home" \in Range(sources')
    <3>1. A = <<"home">>
      BY <2>1, <2>3, <2>4, <2>6, <2>7
    <3>2. A # <<>> /\ A[1] = "home" /\ "home" \in Range(A)
      BY <2>5, <3>1
    <3> QED
      BY <2>2, <3>2
  <2>8. ASSUME Readable("project") PROVE "project" \in Range(sources')
    <3>1. D = <<"project">>
      BY <2>1, <2>3, <2>4, <2>6, <2>8
    <3> QED
      BY <2>2, <2>5, <3>1
  <2>9. Range(sources') = Range(sources)'
    BY DEF Range
  <2> QED
    BY <1>1, <1>2, <2>4, <2>7, <2>8, <2>9 DEF Found
<1> QED
  BY <1>3, <1>4, <1>5, <1>6 DEF ResultInv

(* The rules of a readable file, stamped. *)
LEMMA StampedRules ==
    ASSUME disk \in DiskSpace, NEW path \in Paths, Readable(path), NEW rules, rules = disk[path].rules
    PROVE  /\ rules \in Seq(Rule)
           /\ Stamp(path) \in Seq(Definition)
           /\ Len(Stamp(path)) = Len(rules)
           /\ \A m \in DOMAIN rules :
                 /\ Stamp(path)[m] = Stamped(rules[m], path)
                 /\ rules[m].id \in RuleIds
                 /\ \A n \in DOMAIN rules : n # m => rules[n].id # rules[m].id
<1>1. rules \in Seq(Rule)
  BY DiskSpaceAssumption DEF Readable, Exists, PolicyRecord
<1>2. Stamp(path) \in Seq(Definition)
  BY StampType DEF Readable
<1>3. DOMAIN Stamp(path) = DOMAIN rules
  BY DEF Stamp
<1>4. Len(Stamp(path)) = Len(rules)
  BY <1>1, <1>2, <1>3
<1>5. ASSUME NEW m \in DOMAIN rules
      PROVE  Stamp(path)[m] = Stamped(rules[m], path)
  BY DEF Stamp
<1>6. ASSUME NEW m \in DOMAIN rules
      PROVE  /\ rules[m].id \in RuleIds
             /\ \A n \in DOMAIN rules : n # m => rules[n].id # rules[m].id
  <2>1. rules[m] \in Rule
    BY <1>1, ElementOfSeq
  <2> QED
    BY <2>1 DEF Readable, Loads, Validate, Rule
<1> QED
  BY <1>1, <1>2, <1>4, <1>5, <1>6

LEMMA LoadSourceResult ==
    ASSUME IInv, ResultInv, LoadSource
    PROVE  ResultInv'
<1> DEFINE path == Head(sources)
           rules == disk[path].rules
<1>0. PICK N, L, M : N = Len(defs) /\ L = Len(layers) /\ M = Len(rules)
  OBVIOUS
<1>1. /\ pc = "load" /\ pc' = "load"
      /\ sources # <<>> /\ sources' = Tail(sources)
      /\ UNCHANGED <<disk, flagged, envSet, merged, ruleMap, conflicts, policy>>
  BY DEF LoadSource
<1>2. /\ disk \in DiskSpace
      /\ sources \in Seq({p \in Paths : Exists(p)})
      /\ layers \in Seq(Paths) /\ defs \in Seq(Definition)
      /\ merged = 0
  BY <1>1 DEF IInv, RulesTypeOK, LoadsFirst
<1>3. path \in Paths /\ Exists(path) /\ Range(sources) = {path} \cup Range(Tail(sources))
      /\ Tail(sources) \in Seq({p \in Paths : Exists(p)})
  <2>1. /\ path \in {p \in Paths : Exists(p)}
        /\ Tail(sources) \in Seq({p \in Paths : Exists(p)})
        /\ sources = <<path>> \o Tail(sources)
    BY <1>1, <1>2
  <2>2. <<path>> \in Seq({p \in Paths : Exists(p)}) /\ Range(<<path>>) = {path}
    BY <2>1 DEF Range
  <2>3. Range(<<path>> \o Tail(sources)) = Range(<<path>>) \cup Range(Tail(sources))
    <3>1. PICK S : S = {p \in Paths : Exists(p)}
      OBVIOUS
    <3>2. <<path>> \in Seq(S) /\ Tail(sources) \in Seq(S)
      BY <2>1, <2>2, <3>1
    <3> QED
      BY <3>2, RangeConcat
  <2> QED
    BY <2>1, <2>2, <2>3
<1>4. \A p : Readable(p)' = Readable(p)
  BY <1>1 DEF Readable, Exists, Loads
<1>5. \/ /\ Readable(path)
         /\ layers' = Append(layers, path)
         /\ defs' = defs \o Stamp(path)
      \/ /\ ~Readable(path)
         /\ UNCHANGED <<layers, defs>>
  BY <1>3 DEF LoadSource, Readable
<1> HIDE DEF path
<1>6. TypeOK'
  <2>1. RulesTypeOK'
    BY LoadSourceInv DEF IInv
  <2> QED
    BY <1>1, <2>1 DEF ResultInv, TypeOK
<1>7. RulesFromFiles'
  BY <1>1 DEF RulesFromFiles
<1>8. CASE ~Readable(path) /\ UNCHANGED <<layers, defs>>
  <2>1. InPlace' /\ Entries'
    BY <1>1, <1>8, UnchangedResult
  <2>2. Stages'
    BY <1>1, <1>4, <1>8 DEF ResultInv, Stages
  <2>3. Found'
    <3>1. Range(layers)' = Range(layers) /\ Range(sources)' = Range(Tail(sources))
      BY <1>1, <1>8 DEF Range
    <3>2. ASSUME NEW p \in {"home", "project"}, Readable(p)
          PROVE  p \in Range(Tail(sources)) \cup Range(layers)
      BY <1>1, <1>3, <1>8, <3>2 DEF ResultInv, Found
    <3>3. ASSUME Readable("home") PROVE layers # <<>> /\ layers[1] = "home"
      BY <1>1, <1>8, <3>3 DEF ResultInv, Found, path
    <3> QED
      BY <1>1, <1>4, <1>8, <3>1, <3>2, <3>3 DEF Found
  <2> QED
    BY <1>6, <1>7, <2>1, <2>2, <2>3 DEF ResultInv
<1>9. CASE Readable(path) /\ layers' = Append(layers, path) /\ defs' = defs \o Stamp(path)
  <2>1. /\ rules \in Seq(Rule)
        /\ Stamp(path) \in Seq(Definition)
        /\ Len(Stamp(path)) = M
    BY <1>0, <1>2, <1>3, <1>9, StampedRules
  <2>10. \A m \in DOMAIN rules : Stamp(path)[m] = Stamped(rules[m], path)
    BY <1>2, <1>3, <1>9, StampedRules
  <2>2. /\ layers' \in Seq(Paths) /\ Len(layers') = L + 1 /\ layers'[L + 1] = path
        /\ \A k \in 1..L : layers'[k] = layers[k]
        /\ L \in Nat /\ DOMAIN layers = 1..L /\ DOMAIN layers' = 1..(L + 1)
    BY <1>0, <1>2, <1>3, <1>9, AppendProperties
  <2>3. /\ N \in Nat /\ DOMAIN defs = 1..N /\ M \in Nat /\ DOMAIN rules = 1..M
        /\ DOMAIN defs' = 1..(N + M)
        /\ \A i \in 1..N : defs'[i] = defs[i]
        /\ \A i \in (N + 1)..(N + M) :
              i - N \in DOMAIN rules /\ defs'[i] = Stamped(rules[i - N], path)
    <3>1. N \in Nat /\ DOMAIN defs = 1..N /\ M \in Nat /\ DOMAIN rules = 1..M
      BY <1>0, <1>2, <2>1
    <3>2. /\ defs' \in Seq(Definition)
          /\ Len(defs') = N + M
          /\ \A i \in 1..(N + M) : defs'[i] = IF i <= N THEN defs[i] ELSE Stamp(path)[i - N]
      <4>1. PICK old \in Seq(Definition), new \in Seq(Definition) : old = defs /\ new = Stamp(path)
        BY <1>2, <2>1
      <4>2. /\ old \o new \in Seq(Definition)
            /\ Len(old \o new) = Len(old) + Len(new)
            /\ \A i \in 1..(Len(old) + Len(new)) :
                  (old \o new)[i] = IF i <= Len(old) THEN old[i] ELSE new[i - Len(old)]
        BY ConcatProperties
      <4>3. defs' = old \o new /\ Len(old) = N /\ Len(new) = M
        BY <1>0, <1>9, <2>1, <4>1
      <4> QED
        BY <4>1, <4>2, <4>3
    <3>3. ASSUME NEW i \in (N + 1)..(N + M)
          PROVE  i - N \in DOMAIN rules /\ defs'[i] = Stamp(path)[i - N]
      BY <3>1, <3>2
    <3>4. \A i \in (N + 1)..(N + M) :
             i - N \in DOMAIN rules /\ defs'[i] = Stamped(rules[i - N], path)
      BY <2>10, <3>3
    <3>5. DOMAIN defs' = 1..(N + M) /\ \A i \in 1..N : defs'[i] = defs[i]
      BY <3>1, <3>2
    <3> QED
      BY <3>1, <3>4, <3>5
  <2>4. /\ \A k \in 1..L : RulesOf(k)' = RulesOf(k)
        /\ RulesOf(L + 1)' = rules
    <3>1. ASSUME NEW k \in 1..L PROVE RulesOf(k)' = RulesOf(k)
      BY <1>1, <2>2 DEF RulesOf
    <3>2. RulesOf(L + 1)' = rules
      BY <1>1, <2>2 DEF RulesOf
    <3> QED
      BY <3>1, <3>2
  <2>6. Stages'
    <3>1. \A k \in 1..(L + 1) : Readable(layers'[k])
      BY <1>9, <2>2 DEF ResultInv, Stages
    <3> QED
      BY <1>1, <1>4, <2>2, <3>1 DEF Stages
  <2>7. Found'
    <3>1. Range(layers') = Range(layers) \cup {path}
      BY <2>2 DEF Range
    <3>2. ASSUME NEW p \in {"home", "project"}, Readable(p)
          PROVE  p \in Range(Tail(sources)) \cup Range(layers')
      BY <1>1, <1>3, <3>1, <3>2 DEF ResultInv, Found
    <3>3. ASSUME Readable("home") PROVE layers' # <<>> /\ layers'[1] = "home"
      <4>1. CASE layers = <<>>
        BY <1>1, <2>2, <3>3, <4>1 DEF ResultInv, Found, path
      <4>2. CASE layers # <<>>
        <5>1. 1 \in 1..L
          BY <1>0, <1>2, <2>2, <4>2
        <5> QED
          BY <1>1, <2>2, <3>3, <4>2, <5>1 DEF ResultInv, Found
      <4> QED
        BY <4>1, <4>2
    <3>4. Range(layers)' = Range(layers') /\ Range(sources)' = Range(Tail(sources))
      BY <1>1 DEF Range
    <3> QED
      BY <1>1, <1>4, <3>2, <3>3, <3>4 DEF Found
  <2>8. InPlace'
    <3>1. PICK from, nth \in [DOMAIN defs -> Nat] : Placed(from, nth)
      BY DEF ResultInv, InPlace
    <3>9. /\ \A i \in 1..N :
                /\ from[i] \in 1..L
                /\ nth[i] \in DOMAIN RulesOf(from[i])
                /\ defs[i] = Stamped(RulesOf(from[i])[nth[i]], layers[from[i]])
          /\ \A k \in 1..L : \A m \in DOMAIN RulesOf(k) :
                \E i \in 1..N : from[i] = k /\ nth[i] = m
          /\ \A i, j \in 1..N :
                i < j => from[i] < from[j] \/ (from[i] = from[j] /\ nth[i] < nth[j])
      <4>1. /\ \A i \in DOMAIN defs :
                  /\ from[i] \in DOMAIN layers
                  /\ nth[i] \in DOMAIN RulesOf(from[i])
                  /\ defs[i] = Stamped(RulesOf(from[i])[nth[i]], layers[from[i]])
            /\ \A k \in DOMAIN layers : \A m \in DOMAIN RulesOf(k) :
                  \E i \in DOMAIN defs : from[i] = k /\ nth[i] = m
            /\ \A i, j \in DOMAIN defs :
                  i < j => from[i] < from[j] \/ (from[i] = from[j] /\ nth[i] < nth[j])
        BY <3>1 DEF Placed
      <4>2. DOMAIN defs = 1..N /\ DOMAIN layers = 1..L
        BY <2>2, <2>3
      <4> QED
        BY <4>1, <4>2
    <3> DEFINE from1 == [i \in 1..(N + M) |-> IF i \in 1..N THEN from[i] ELSE L + 1]
               nth1 == [i \in 1..(N + M) |-> IF i \in 1..N THEN nth[i] ELSE i - N]
    <3>2. from1 \in [DOMAIN defs' -> Nat] /\ nth1 \in [DOMAIN defs' -> Nat]
      BY <2>2, <2>3, <3>1
    <3>3. /\ \A i \in 1..N : i \in 1..(N + M) /\ from1[i] = from[i] /\ nth1[i] = nth[i]
          /\ \A i \in (N + 1)..(N + M) :
                /\ i \in 1..(N + M) /\ from1[i] = L + 1 /\ nth1[i] = i - N
                /\ i - N \in DOMAIN rules
      BY <2>3
    <3> HIDE DEF from1, nth1
    <3>4. \A i \in 1..(N + M) : i \in 1..N \/ i \in (N + 1)..(N + M)
      BY <2>3
    <3>5. ASSUME NEW i \in 1..(N + M)
          PROVE  /\ from1[i] \in 1..(L + 1)
                 /\ nth1[i] \in DOMAIN RulesOf(from1[i])'
                 /\ defs'[i] = Stamped(RulesOf(from1[i])'[nth1[i]], layers'[from1[i]])
      <4>1. CASE i \in 1..N
        <5>1. /\ from[i] \in 1..L
              /\ nth[i] \in DOMAIN RulesOf(from[i])
              /\ defs[i] = Stamped(RulesOf(from[i])[nth[i]], layers[from[i]])
          BY <3>9, <4>1
        <5>2. RulesOf(from[i])' = RulesOf(from[i]) /\ layers'[from[i]] = layers[from[i]]
          BY <2>2, <2>4, <5>1
        <5> QED
          BY <2>2, <2>3, <3>3, <4>1, <5>1, <5>2
      <4>2. CASE i \in (N + 1)..(N + M)
        <5>1. from1[i] = L + 1 /\ nth1[i] = i - N /\ i - N \in DOMAIN rules
          BY <3>3, <4>2
        <5>2. RulesOf(from1[i])' = rules /\ layers'[from1[i]] = path
          BY <2>2, <2>4, <5>1
        <5> QED
          BY <2>2, <2>3, <4>2, <5>1, <5>2
      <4> QED
        BY <3>4, <4>1, <4>2
    <3>6. ASSUME NEW k \in 1..(L + 1), NEW m \in DOMAIN RulesOf(k)'
          PROVE  \E i \in 1..(N + M) : from1[i] = k /\ nth1[i] = m
      <4>1. CASE k \in 1..L
        <5>0. m \in DOMAIN RulesOf(k)
          BY <2>4, <4>1
        <5>1. PICK i \in 1..N : from[i] = k /\ nth[i] = m
          BY <3>9, <4>1, <5>0
        <5> QED
          BY <3>3, <5>1
      <4>2. CASE k = L + 1
        <5>1. m \in 1..M
          BY <2>3, <2>4, <4>2
        <5>2. N + m \in (N + 1)..(N + M) /\ (N + m) - N = m
          BY <2>3, <5>1
        <5> QED
          BY <3>3, <4>2, <5>2
      <4> QED
        BY <2>2, <4>1, <4>2
    <3>7. ASSUME NEW i \in 1..(N + M), NEW j \in 1..(N + M), i < j
          PROVE  from1[i] < from1[j] \/ (from1[i] = from1[j] /\ nth1[i] < nth1[j])
      <4>1. CASE j \in 1..N
        <5>1. i \in 1..N
          BY <2>3, <3>7, <4>1
        <5> QED
          BY <3>3, <3>7, <3>9, <4>1, <5>1
      <4>2. CASE j \in (N + 1)..(N + M)
        <5>1. CASE i \in 1..N
          <6>1. from[i] \in 1..L
            BY <3>9, <5>1
          <6> QED
            BY <2>2, <3>3, <4>2, <5>1, <6>1
        <5>2. CASE i \in (N + 1)..(N + M)
          <6>1. i - N < j - N
            BY <2>3, <3>7
          <6> QED
            BY <3>3, <4>2, <5>2, <6>1
        <5> QED
          BY <3>4, <5>1, <5>2
      <4> QED
        BY <3>4, <4>1, <4>2
    <3>8. Placed(from1, nth1)'
      <4> SUFFICES /\ \A i \in DOMAIN defs' :
                         /\ from1[i] \in DOMAIN layers'
                         /\ nth1[i] \in DOMAIN RulesOf(from1[i])'
                         /\ defs'[i] = Stamped(RulesOf(from1[i])'[nth1[i]], layers'[from1[i]])
                   /\ \A k \in DOMAIN layers' : \A m \in DOMAIN RulesOf(k)' :
                         \E i \in DOMAIN defs' : from1[i] = k /\ nth1[i] = m
                   /\ \A i, j \in DOMAIN defs' :
                         i < j => from1[i] < from1[j] \/ (from1[i] = from1[j] /\ nth1[i] < nth1[j])
        BY DEF Placed
      <4>1. DOMAIN defs' = 1..(N + M) /\ DOMAIN layers' = 1..(L + 1)
        BY <2>2, <2>3
      <4> QED
        BY <3>5, <3>6, <3>7, <4>1
    <3> QED
      BY <3>2, <3>8 DEF InPlace
  <2>9. Entries'
    <3>1. Met = {} /\ Met' = {}
      <4>1. \A id \in Met : Merged(id) # {}
        BY DEF ResultInv, Entries
      <4>2. \A id : Merged(id) = {}
        BY <1>2 DEF Merged
      <4> QED
        BY <1>1, <4>1, <4>2 DEF Met
    <3> QED
      BY <3>1 DEF Entries
  <2> QED
    BY <1>6, <1>7, <2>6, <2>7, <2>8, <2>9 DEF ResultInv
<1> QED
  BY <1>5, <1>8, <1>9

(* The steps of the merge leave everything but the entries as it is. *)
LEMMA MergeKeeps ==
    ASSUME IInv', ResultInv, pc \in {"load", "merge"}, pc' = "merge", sources = <<>>,
           UNCHANGED <<disk, flagged, envSet, sources, layers, defs, policy>>
    PROVE  TypeOK' /\ Stages' /\ Found' /\ InPlace' /\ RulesFromFiles'
<1>1. TypeOK'
  BY DEF IInv, ResultInv, TypeOK
<1>2. \A path : Readable(path)' = Readable(path)
  BY DEF Readable, Exists, Loads
<1>3. Stages'
  BY <1>2 DEF ResultInv, Stages
<1>4. Found'
  <2>1. Range(sources)' = Range(sources) /\ Range(layers)' = Range(layers)
    BY DEF Range
  <2> QED
    BY <1>2, <2>1 DEF ResultInv, Found
<1>5. InPlace'
  <2>1. PICK from, nth \in [DOMAIN defs -> Nat] : Placed(from, nth)
    BY DEF ResultInv, InPlace
  <2>2. \A k : RulesOf(k)' = RulesOf(k)
    BY DEF RulesOf
  <2>3. Placed(from, nth)'
    BY <2>1, <2>2 DEF Placed
  <2> QED
    BY <2>1, <2>3 DEF InPlace
<1>6. RulesFromFiles'
  BY DEF RulesFromFiles
<1> QED
  BY <1>1, <1>3, <1>4, <1>5, <1>6

LEMMA AddRuleResult ==
    ASSUME IInv, ResultInv, AddRule
    PROVE  ResultInv'
<1>0. PICK id : id = Current.id
  OBVIOUS
<1> DEFINE entry == [rule |-> Current, order |-> Cardinality(Met)]
<1>1. /\ merged < Len(defs) /\ merged' = merged + 1
      /\ pc = "merge" /\ pc' = "merge"
      /\ UNCHANGED <<disk, flagged, envSet, sources, layers, defs, conflicts, policy>>
      /\ ruleMap[id] = NoEntry
      /\ ruleMap' = [ruleMap EXCEPT ![id] = entry]
  BY <1>0 DEF AddRule, Met
<1>2. /\ merged + 1 \in DOMAIN defs
      /\ Current \in Definition
      /\ Current = defs[merged + 1]
      /\ Merged(id)' = Merged(id) \cup {merged + 1}
      /\ \A other \in RuleIds : other # id => Merged(other)' = Merged(other)
      /\ \A other \in RuleIds : \A i \in Merged(other) : i \in 1..merged
  BY <1>0, <1>1, MergeStep
<1>3. id \in RuleIds /\ merged \in Nat
  BY <1>0, <1>2 DEF Definition, IInv, RulesTypeOK
<1>4. entry \in Entry /\ entry # NoEntry /\ Cardinality(Met) \in Nat
  BY <1>2, FS_CardinalityType, NoEntryAssumption DEF IInv, Entry
<1>5. entry.rule = Current /\ entry.order = Cardinality(Met)
  OBVIOUS
<1> HIDE DEF entry
<1>6. /\ ruleMap \in [RuleIds -> Entry \cup {NoEntry}]
      /\ ruleMap'[id] = entry
      /\ \A other \in RuleIds : other # id => ruleMap'[other] = ruleMap[other]
  BY <1>1, <1>3, <1>4 DEF IInv, RulesTypeOK
<1>7. /\ Met' = Met \cup {id} /\ id \notin Met /\ Met \subseteq RuleIds
      /\ Cardinality(Met') = Cardinality(Met) + 1
  <2>1. Met' = Met \cup {id} /\ id \notin Met /\ Met \subseteq RuleIds
    BY <1>1, <1>3, <1>4, <1>6 DEF Met
  <2> QED
    BY <2>1, FS_AddElement DEF IInv
<1>8. Merged(id)' = {merged + 1}
  BY <1>1, <1>2, <1>3 DEF IInv, NotWeakened
<1>9. \A x \in Met : /\ x # id /\ x \in RuleIds
                     /\ ruleMap'[x] = ruleMap[x]
                     /\ Merged(x)' = Merged(x)
                     /\ ruleMap[x].order \in Nat
                     /\ ruleMap[x].order < Cardinality(Met)
  BY <1>2, <1>6, <1>7 DEF ResultInv, Entries, Met, Entry
<1>10. ASSUME NEW x \in Met'
       PROVE  /\ ruleMap'[x].rule.id = x
              /\ ruleMap'[x].order < Cardinality(Met')
              /\ \E i \in Merged(x)' : ruleMap'[x].rule.priority = defs[i].priority
  <2>1. CASE x = id
    BY <1>0, <1>2, <1>4, <1>5, <1>6, <1>7, <1>8, <2>1
  <2>2. CASE x \in Met
    <3>1. /\ ruleMap[x].rule.id = x
          /\ \E i \in Merged(x) : ruleMap[x].rule.priority = defs[i].priority
      BY <2>2 DEF ResultInv, Entries
    <3> QED
      BY <1>4, <1>7, <1>9, <2>2, <3>1
  <2> QED
    BY <1>7, <2>1, <2>2
<1>11. ASSUME NEW x \in Met', NEW y \in Met', x # y, ruleMap'[x].order <= ruleMap'[y].order
       PROVE  /\ ruleMap'[x].order < ruleMap'[y].order
              /\ \E i \in Merged(x)' : \A j \in Merged(y)' : i < j
  <2>1. CASE x = id
    <3>1. y \in Met /\ ruleMap[y].order < Cardinality(Met) /\ ruleMap[y].order \in Nat
      BY <1>7, <1>9, <1>11, <2>1
    <3> QED
      BY <1>4, <1>5, <1>6, <1>9, <1>11, <2>1, <3>1
  <2>2. CASE x \in Met /\ y = id
    <3>1. \E i \in Merged(x) : TRUE
      BY <2>2 DEF ResultInv, Entries
    <3>2. PICK i \in Merged(x) : i \in 1..merged
      BY <1>2, <1>9, <2>2, <3>1
    <3> QED
      BY <1>3, <1>5, <1>6, <1>8, <1>9, <2>2, <3>2
  <2>3. CASE x \in Met /\ y \in Met
    <3>1. ruleMap[x].order <= ruleMap[y].order
      BY <1>9, <1>11, <2>3
    <3>2. /\ ruleMap[x].order < ruleMap[y].order
          /\ \E i \in Merged(x) : \A j \in Merged(y) : i < j
      BY <1>11, <2>3, <3>1 DEF ResultInv, Entries
    <3> QED
      BY <1>9, <2>3, <3>2
  <2> QED
    BY <1>7, <2>1, <2>2, <2>3
<1>12. Entries'
  BY <1>1, <1>10, <1>11 DEF Entries
<1>13. sources = <<>>
  BY <1>1 DEF ResultInv, Stages
<1> QED
  BY <1>1, <1>12, <1>13, AddRuleInv, MergeKeeps DEF ResultInv

LEMMA OverrideRuleResult ==
    ASSUME IInv, ResultInv, OverrideRule
    PROVE  ResultInv'
<1>0. PICK id : id = Current.id
  OBVIOUS
<1> DEFINE higher == ruleMap[id].rule
           stronger == Strengthen(higher, Current)
<1>1. /\ merged < Len(defs) /\ merged' = merged + 1
      /\ pc = "merge" /\ pc' = "merge"
      /\ UNCHANGED <<disk, flagged, envSet, sources, layers, defs, policy>>
      /\ ruleMap[id] # NoEntry
      /\ ruleMap' = [ruleMap EXCEPT ![id].rule = stronger]
  BY <1>0 DEF OverrideRule
<1>2. /\ merged + 1 \in DOMAIN defs
      /\ Current \in Definition
      /\ Current = defs[merged + 1]
      /\ Merged(id)' = Merged(id) \cup {merged + 1}
      /\ \A other \in RuleIds : other # id => Merged(other)' = Merged(other)
      /\ \A other \in RuleIds : \A i \in Merged(other) : i \in 1..merged
  BY <1>0, <1>1, MergeStep
<1>3. id \in RuleIds /\ merged \in Nat
  BY <1>0, <1>2 DEF Definition, IInv, RulesTypeOK
<1>4. ruleMap \in [RuleIds -> Entry \cup {NoEntry}]
  BY DEF IInv, RulesTypeOK
<1>5. ruleMap[id] \in Entry /\ higher \in Definition
  BY <1>1, <1>3, <1>4 DEF Entry
<1>6. stronger.id = higher.id /\ stronger.priority \in {higher.priority, Current.priority}
      /\ stronger \in Definition
  <2>1. stronger.id = higher.id
    BY <1>5 DEF Strengthen, Definition
  <2>2. stronger.priority \in {higher.priority, Current.priority}
    BY <1>5 DEF Strengthen, Definition
  <2>3. stronger \in Definition
    BY <1>2, <1>5, StrengthenDef
  <2> QED
    BY <2>1, <2>2, <2>3
<1> HIDE DEF stronger
<1>7. /\ ruleMap'[id] \in Entry
      /\ ruleMap'[id].rule = stronger
      /\ ruleMap'[id].order = ruleMap[id].order
      /\ \A other \in RuleIds : other # id => ruleMap'[other] = ruleMap[other]
  BY <1>1, <1>3, <1>4, <1>5, <1>6 DEF Entry
<1>8. Met' = Met /\ id \in Met /\ Met \subseteq RuleIds
  BY <1>1, <1>3, <1>7, NoEntryAssumption DEF Met
<1>9. \A x \in Met : ruleMap'[x].order = ruleMap[x].order
  BY <1>7, <1>8
<1>10. ASSUME NEW x \in Met
       PROVE  /\ ruleMap'[x].rule.id = x
              /\ ruleMap'[x].order < Cardinality(Met)
              /\ \E i \in Merged(x)' : ruleMap'[x].rule.priority = defs[i].priority
  <2>1. /\ ruleMap[x].rule.id = x
        /\ ruleMap[x].order < Cardinality(Met)
        /\ \E i \in Merged(x) : ruleMap[x].rule.priority = defs[i].priority
    BY DEF ResultInv, Entries
  <2>2. CASE x = id
    BY <1>2, <1>6, <1>7, <2>1, <2>2
  <2>3. CASE x # id
    BY <1>2, <1>7, <1>8, <2>1, <2>3
  <2> QED
    BY <2>2, <2>3
<1>11. ASSUME NEW x \in Met, NEW y \in Met, x # y, ruleMap'[x].order <= ruleMap'[y].order
       PROVE  /\ ruleMap'[x].order < ruleMap'[y].order
              /\ \E i \in Merged(x)' : \A j \in Merged(y)' : i < j
  <2>1. ruleMap[x].order <= ruleMap[y].order
    BY <1>9, <1>11
  <2>2. /\ ruleMap[x].order < ruleMap[y].order
        /\ \E i \in Merged(x) : \A j \in Merged(y) : i < j
    BY <1>11, <2>1 DEF ResultInv, Entries
  <2>3. PICK i \in Merged(x) : \A j \in Merged(y) : i < j
    BY <2>2
  <2>4. i \in 1..merged /\ i \in Merged(x)'
    BY <1>2, <1>8
  <2>5. \A j \in Merged(y)' : j \in Merged(y) \/ j = merged + 1
    BY <1>2, <1>8
  <2>6. \A j \in Merged(y)' : i < j
    BY <1>3, <2>3, <2>4, <2>5
  <2> QED
    BY <1>9, <2>2, <2>4, <2>6
<1>12. Entries'
  BY <1>1, <1>8, <1>10, <1>11 DEF Entries
<1>13. sources = <<>>
  BY <1>1 DEF ResultInv, Stages
<1> QED
  BY <1>1, <1>12, <1>13, OverrideRuleInv, MergeKeeps DEF ResultInv

LEMMA StartMergeResult ==
    ASSUME IInv, ResultInv, StartMerge
    PROVE  ResultInv'
<1>1. /\ pc = "load" /\ pc' = "merge" /\ sources = <<>>
      /\ UNCHANGED <<disk, flagged, envSet, sources, layers, defs, merged, ruleMap,
                     conflicts, policy>>
  BY DEF StartMerge
<1>2. IInv'
  BY NextInv DEF Next
<1>3. Entries'
  BY <1>1, UnchangedResult
<1> QED
  BY <1>1, <1>2, <1>3, MergeKeeps DEF ResultInv

-----------------------------------------------------------------------------
(* sortByOrder.                                                            *)

LEMMA InsertType ==
    ASSUME NEW s \in Seq(Entry), NEW e \in Entry, NEW n, n = Len(s)
    PROVE  \E p \in 0..n :
              /\ Insert(s, e) \in Seq(Entry)
              /\ Len(Insert(s, e)) = n + 1
              /\ \A i \in 1..p : Insert(s, e)[i] = s[i]
              /\ Insert(s, e)[p + 1] = e
              /\ \A i \in (p + 2)..(n + 1) : Insert(s, e)[i] = s[i - 1]
              /\ p # 0 => s[p].order <= e.order
              /\ \A i \in (p + 1)..n : ~(s[i].order <= e.order)
<1>1. n \in Nat /\ DOMAIN s = 1..n /\ \A i \in 1..n : s[i] \in Entry
  OBVIOUS
<1> DEFINE earlier == {0} \cup {i \in DOMAIN s : s[i].order <= e.order}
<1>2. earlier \in SUBSET (0..n) /\ earlier # {} /\ \A i \in earlier : i = 0 \/ s[i].order <= e.order
  BY <1>1
<1>3. \A i \in 1..n : s[i].order <= e.order => i \in earlier
  BY <1>1
<1>4. Insert(s, e) = SubSeq(s, 1, (1 + Max(earlier)) - 1) \o <<e>> \o SubSeq(s, 1 + Max(earlier), Len(s))
  BY DEF Insert, InsertAt
<1> HIDE DEF earlier
<1>5. PICK p : p = Max(earlier) /\ p \in earlier /\ \A i \in earlier : i <= p
  BY <1>1, <1>2, MaxOf
<1>6. p \in 0..n
  BY <1>2, <1>5
<1>17. Insert(s, e) = SubSeq(s, 1, p) \o <<e>> \o SubSeq(s, p + 1, n)
  <2>1. (1 + p) - 1 = p /\ 1 + p = p + 1
    BY <1>6
  <2> QED
    BY <1>4, <1>5, <2>1
<1> DEFINE A == SubSeq(s, 1, p)
           B == SubSeq(s, p + 1, n)
<1>7. /\ A \in Seq(Entry) /\ Len(A) = p /\ \A i \in 1..p : A[i] = s[i]
      /\ B \in Seq(Entry) /\ Len(B) = n - p /\ \A i \in 1..(n - p) : B[i] = s[p + i]
  <2>1. A \in Seq(Entry) /\ Len(A) = p /\ \A i \in 1..p : A[i] = s[i]
    BY <1>1, <1>6
  <2>2. B \in Seq(Entry) /\ Len(B) = n - p
    BY <1>1, <1>6
  <2>3. \A i \in 1..(n - p) : B[i] = s[p + i]
    BY <1>1, <1>6
  <2> QED
    BY <2>1, <2>2, <2>3
<1> HIDE DEF A, B
<1>8. /\ A \o <<e>> \in Seq(Entry) /\ Len(A \o <<e>>) = p + 1
      /\ \A i \in 1..p : (A \o <<e>>)[i] = s[i]
      /\ (A \o <<e>>)[p + 1] = e
  <2>1. <<e>> \in Seq(Entry) /\ Len(<<e>>) = 1 /\ <<e>>[1] = e
    OBVIOUS
  <2>2. /\ A \o <<e>> \in Seq(Entry)
        /\ Len(A \o <<e>>) = p + 1
        /\ \A i \in 1..(p + 1) : (A \o <<e>>)[i] = IF i <= p THEN A[i] ELSE <<e>>[i - p]
    BY <1>7, <2>1, ConcatProperties
  <2>3. (p + 1) - p = 1 /\ p + 1 \in 1..(p + 1) /\ ~(p + 1 <= p)
    BY <1>6
  <2>4. (A \o <<e>>)[p + 1] = e
    BY <2>1, <2>2, <2>3
  <2>5. \A i \in 1..p : (A \o <<e>>)[i] = s[i]
    BY <1>6, <1>7, <2>2
  <2> QED
    BY <2>2, <2>4, <2>5
<1>9. PICK C : C = A \o <<e>>
  OBVIOUS
<1>10. /\ C \o B \in Seq(Entry) /\ Len(C \o B) = n + 1
       /\ \A i \in 1..(n + 1) : (C \o B)[i] = IF i <= p + 1 THEN C[i] ELSE B[i - (p + 1)]
  <2>1. /\ C \o B \in Seq(Entry) /\ Len(C \o B) = (p + 1) + (n - p)
        /\ \A i \in 1..((p + 1) + (n - p)) : (C \o B)[i] = IF i <= p + 1 THEN C[i] ELSE B[i - (p + 1)]
    <3>1. C \in Seq(Entry) /\ B \in Seq(Entry) /\ Len(C) = p + 1 /\ Len(B) = n - p
      BY <1>7, <1>8, <1>9
    <3>2. /\ C \o B \in Seq(Entry) /\ Len(C \o B) = Len(C) + Len(B)
          /\ \A i \in 1..(Len(C) + Len(B)) : (C \o B)[i] = IF i <= Len(C) THEN C[i] ELSE B[i - Len(C)]
      BY <3>1, ConcatProperties
    <3> QED
      BY <3>1, <3>2
  <2>2. (p + 1) + (n - p) = n + 1
    BY <1>1, <1>6
  <2> QED
    BY <2>1, <2>2
<1>11. Insert(s, e) = C \o B
  BY <1>17, <1>9 DEF A, B
<1>12. \A i \in (p + 2)..(n + 1) : (C \o B)[i] = s[i - 1]
  <2> TAKE i \in (p + 2)..(n + 1)
  <2>1. i \in 1..(n + 1) /\ ~(i <= p + 1) /\ i - (p + 1) \in 1..(n - p) /\ p + (i - (p + 1)) = i - 1
    BY <1>1, <1>6
  <2> QED
    BY <1>7, <1>10, <2>1
<1>13. (C \o B)[p + 1] = e
  BY <1>1, <1>6, <1>8, <1>9, <1>10
<1>14. \A i \in 1..p : (C \o B)[i] = s[i]
  BY <1>1, <1>6, <1>8, <1>9, <1>10
<1>15. p # 0 => s[p].order <= e.order
  BY <1>2, <1>5
<1>16. \A i \in (p + 1)..n : ~(s[i].order <= e.order)
  BY <1>1, <1>3, <1>5, <1>6
<1>18. PICK t : t = C \o B
  OBVIOUS
<1>19. t = Insert(s, e)
  BY <1>11, <1>18
<1>20. /\ t \in Seq(Entry) /\ Len(t) = n + 1
       /\ \A i \in 1..p : t[i] = s[i]
       /\ t[p + 1] = e
       /\ \A i \in (p + 2)..(n + 1) : t[i] = s[i - 1]
  BY <1>10, <1>12, <1>13, <1>14, <1>18
<1> QED
  BY <1>6, <1>15, <1>16, <1>19, <1>20

Sorted(s) == \A i, j \in DOMAIN s : i < j => s[i].order < s[j].order

LEMMA InsertSorts ==
    ASSUME NEW s \in Seq(Entry), NEW e \in Entry
    PROVE  /\ Insert(s, e) \in Seq(Entry)
           /\ Range(Insert(s, e)) = Range(s) \cup {e}
           /\ Sorted(s) /\ (\A x \in Range(s) : x.order # e.order) => Sorted(Insert(s, e))
<1> DEFINE t == Insert(s, e)
<1>1. PICK n : n = Len(s)
  OBVIOUS
<1>2. PICK p \in 0..n :
         /\ t \in Seq(Entry)
         /\ Len(t) = n + 1
         /\ \A i \in 1..p : t[i] = s[i]
         /\ t[p + 1] = e
         /\ \A i \in (p + 2)..(n + 1) : t[i] = s[i - 1]
         /\ p # 0 => s[p].order <= e.order
         /\ \A i \in (p + 1)..n : ~(s[i].order <= e.order)
  BY <1>1, InsertType
<1> HIDE DEF t
<1>3. /\ n \in Nat /\ DOMAIN s = 1..n /\ DOMAIN t = 1..(n + 1)
      /\ \A i \in 1..n : s[i] \in Entry /\ s[i].order \in Nat
      /\ e.order \in Nat
  <2>1. \A i \in 1..n : s[i] \in Entry
    BY <1>1
  <2> QED
    BY <1>1, <1>2, <2>1 DEF Entry
<1>4. \A i \in 1..(n + 1) : i \in 1..p \/ i = p + 1 \/ (i \in (p + 2)..(n + 1) /\ i - 1 \in (p + 1)..n)
  BY <1>2, <1>3
<1>5. Range(t) = Range(s) \cup {e}
  <2>1. \A i \in 1..(n + 1) : t[i] = e \/ \E j \in 1..n : t[i] = s[j]
    BY <1>2, <1>3, <1>4
  <2>2. ASSUME NEW j \in 1..n PROVE \E i \in 1..(n + 1) : t[i] = s[j]
    <3>1. CASE j \in 1..p
      BY <1>2, <1>3, <3>1
    <3>2. CASE j \in (p + 1)..n
      <4>1. j + 1 \in (p + 2)..(n + 1) /\ (j + 1) - 1 = j /\ j + 1 \in 1..(n + 1)
        BY <1>2, <1>3, <3>2
      <4> QED
        BY <1>2, <4>1
    <3> QED
      BY <1>2, <1>3, <3>1, <3>2
  <2>3. p + 1 \in 1..(n + 1) /\ t[p + 1] = e
    BY <1>2, <1>3
  <2> QED
    <3>1. Range(t) = {t[i] : i \in 1..(n + 1)} /\ Range(s) = {s[i] : i \in 1..n}
      BY <1>3 DEF Range
    <3>2. Range(t) \subseteq Range(s) \cup {e}
      BY <2>1, <3>1
    <3>3. Range(s) \cup {e} \subseteq Range(t)
      BY <2>2, <2>3, <3>1
    <3> QED
      BY <3>2, <3>3
<1>6. ASSUME Sorted(s), \A x \in Range(s) : x.order # e.order
      PROVE  Sorted(t)
  <2>1. \A i \in 1..n : s[i].order # e.order
    BY <1>3, <1>6 DEF Range
  <2>2. \A i, j \in 1..n : i < j => s[i].order < s[j].order
    BY <1>3, <1>6 DEF Sorted
  <2>3. \A i \in 1..p : s[i].order < e.order
    <3> TAKE i \in 1..p
    <3>1. p \in 1..n /\ i \in 1..n /\ s[p].order <= e.order /\ s[p].order # e.order
      BY <1>2, <1>3, <2>1
    <3>2. i = p \/ s[i].order < s[p].order
      BY <2>2, <3>1
    <3> QED
      BY <1>3, <3>1, <3>2
  <2>4. \A i \in (p + 1)..n : e.order < s[i].order
    BY <1>2, <1>3
  <2> SUFFICES ASSUME NEW i \in 1..(n + 1), NEW j \in 1..(n + 1), i < j
               PROVE  t[i].order < t[j].order
    BY <1>3 DEF Sorted
  <2>5. CASE j \in 1..p
    <3>1. i \in 1..p /\ i \in 1..n /\ j \in 1..n
      BY <1>2, <1>3, <2>5
    <3> QED
      BY <1>2, <2>2, <2>5, <3>1
  <2>6. CASE j = p + 1
    <3>1. i \in 1..p
      BY <1>2, <1>3, <2>6
    <3> QED
      BY <1>2, <2>3, <2>6, <3>1
  <2>7. CASE j \in (p + 2)..(n + 1) /\ j - 1 \in (p + 1)..n
    <3>1. t[j] = s[j - 1] /\ j - 1 \in 1..n
      BY <1>2, <1>3, <2>7
    <3>2. CASE i \in 1..p
      <4>1. i \in 1..n /\ i < j - 1 /\ t[i] = s[i]
        BY <1>2, <1>3, <2>7, <3>2
      <4> QED
        BY <2>2, <3>1, <4>1
    <3>3. CASE i = p + 1
      BY <1>2, <2>4, <2>7, <3>1, <3>3
    <3>4. CASE i \in (p + 2)..(n + 1) /\ i - 1 \in (p + 1)..n
      <4>1. t[i] = s[i - 1] /\ i - 1 \in 1..n /\ i - 1 < j - 1
        BY <1>2, <1>3, <2>7, <3>4
      <4> QED
        BY <2>2, <3>1, <4>1
    <3> QED
      BY <1>4, <3>2, <3>3, <3>4
  <2> QED
    BY <1>4, <2>5, <2>6, <2>7
<1> QED
  BY <1>2, <1>5, <1>6 DEF t

(* The sorted sequence is reached by inserting one entry after another. *)
LEMMA SortFold ==
    ASSUME NEW n \in Nat, NEW entries \in [1..n -> Entry]
    PROVE  \E g \in [0..n -> Seq(Entry)] :
              /\ g[0] = <<>>
              /\ \A k \in 1..n : g[k] = Insert(g[k - 1], entries[k])
              /\ SortByOrder(entries) = g[n]
<1> DEFINE S == Seq(Entry)
           move == [k \in 1..n |-> [x \in S |-> Insert(x, entries[k])]]
           iter == CHOOSE f : f = [s \in SUBSET (1..n) |->
               IF s = {} THEN <<>> ELSE Insert(f[s \ {Max(s)}], entries[Max(s)])]
<1>1. DOMAIN entries = 1..n /\ \A k \in 1..n : entries[k] \in Entry
  OBVIOUS
<1>2. move \in [1..n -> [S -> S]]
  BY <1>1, InsertSorts
<1>3. \A k \in 1..n, x \in S : move[k][x] = Insert(x, entries[k])
  OBVIOUS
<1>4. SortByOrder(entries) = iter[1..n]
  BY <1>1 DEF SortByOrder, FoldLeft, MapThenFoldSet
<1>14. <<>> \in S
  OBVIOUS
<1> HIDE DEF S, move, iter
<1>5. PICK none : none = <<>> /\ none \in S
  BY <1>14
<1>6. PICK it \in [SUBSET (1..n) -> S] : FoldsTo(it, none, n, move)
  BY <1>2, <1>5, Folds
<1>7. \A s \in SUBSET (1..n) : s # {} => Max(s) \in 1..n /\ s \ {Max(s)} \in SUBSET (1..n)
  <2>1. \A s \in SUBSET (1..n) : s \in SUBSET (0..n)
    OBVIOUS
  <2> QED
    BY <2>1, MaxOf
<1>8. it = [s \in SUBSET (1..n) |->
               IF s = {} THEN <<>> ELSE Insert(it[s \ {Max(s)}], entries[Max(s)])]
  BY <1>3, <1>5, <1>6, <1>7 DEF FoldsTo
<1>9. iter = [s \in SUBSET (1..n) |->
               IF s = {} THEN <<>> ELSE Insert(iter[s \ {Max(s)}], entries[Max(s)])]
  BY <1>8 DEF iter
<1>10. iter[{}] = none
  <2>1. {} \in SUBSET (1..n)
    OBVIOUS
  <2> QED
    BY <1>5, <1>9, <2>1
<1>11. ASSUME NEW k \in 1..n, iter[1..(k - 1)] \in S
       PROVE  iter[1..k] = move[k][iter[1..(k - 1)]]
  <2>1. /\ 1..k # {} /\ 1..k \in SUBSET (1..n)
        /\ Max(1..k) = k /\ (1..k) \ {k} = 1..(k - 1)
    BY FirstOnes
  <2>2. iter[1..k] = Insert(iter[1..(k - 1)], entries[k])
    BY <1>9, <2>1
  <2> QED
    BY <1>3, <1>11, <2>2
<1>15. Moves(iter, S, n, move)
  BY <1>11 DEF Moves
<1>12. PICK g \in [0..n -> S] : History(g, none, n, move, iter[1..n])
  BY <1>2, <1>5, <1>10, <1>15, Beginnings
<1>13. \A k \in 1..n : g[k - 1] \in S /\ g[k] = Insert(g[k - 1], entries[k])
  <2>1. \A k \in 1..n : k - 1 \in 0..n
    OBVIOUS
  <2> QED
    BY <1>3, <1>12, <2>1 DEF History
<1> QED
  BY <1>4, <1>5, <1>12, <1>13 DEF S, History

(* It has the entries given, and if no two have the same place, in order.  *)
LEMMA SortResult ==
    ASSUME NEW n \in Nat, NEW entries \in [1..n -> Entry],
           \A i, j \in 1..n : i # j => entries[i].order # entries[j].order
    PROVE  /\ SortByOrder(entries) \in Seq(Entry)
           /\ Range(SortByOrder(entries)) = Range(entries)
           /\ Sorted(SortByOrder(entries))
<1>1. PICK g \in [0..n -> Seq(Entry)] :
         /\ g[0] = <<>>
         /\ \A k \in 1..n : g[k] = Insert(g[k - 1], entries[k])
         /\ SortByOrder(entries) = g[n]
  BY SortFold
<1> DEFINE Good(k) == Range(g[k]) = {entries[i] : i \in 1..k} /\ Sorted(g[k])
           T == {k \in 0..n : Good(k)}
<1>2. Good(0)
  <2>1. Range(g[0]) = {} /\ 1..0 = {}
    BY <1>1 DEF Range
  <2>2. Sorted(g[0])
    BY <1>1 DEF Sorted
  <2> QED
    BY <2>1, <2>2
<1>3. ASSUME NEW k \in 1..n, Good(k - 1) PROVE Good(k)
  <2>1. k - 1 \in 0..n /\ 1..k = (1..(k - 1)) \cup {k} /\ k \notin 1..(k - 1) /\ 1..k \subseteq 1..n
    OBVIOUS
  <2>2. g[k - 1] \in Seq(Entry) /\ g[k] = Insert(g[k - 1], entries[k]) /\ entries[k] \in Entry
    BY <1>1, <2>1
  <2>3. \A x \in Range(g[k - 1]) : x.order # entries[k].order
    BY <1>3, <2>1
  <2>4. Range(g[k]) = Range(g[k - 1]) \cup {entries[k]} /\ Sorted(g[k])
    BY <1>3, <2>2, <2>3, InsertSorts
  <2> QED
    BY <1>3, <2>1, <2>4
<1> HIDE DEF Good
<1>4. 0 \in T /\ \A k \in 1..n : k - 1 \in T => k \in T
  BY <1>2, <1>3
<1> HIDE DEF T
<1>5. 0..n \subseteq T
  BY <1>4, UpTo
<1>6. Good(n)
  BY <1>5 DEF T
<1>7. Range(entries) = {entries[i] : i \in 1..n}
  BY DEF Range
<1> QED
  BY <1>1, <1>6, <1>7 DEF Good

-----------------------------------------------------------------------------
(* What the definitions say is what the files say.                         *)

(* i is the first definition of its rule.                                  *)
First(i) == \A j \in DOMAIN defs : defs[j].id = defs[i].id => i <= j

LEMMA DefinedInFiles ==
    ASSUME IInv, ResultInv
    PROVE  \E from, nth \in [DOMAIN defs -> Nat] :
              /\ Placed(from, nth)
              /\ \A i \in DOMAIN defs :
                    LET g == RulesOf(from[i])[nth[i]]
                    IN /\ g \in Given(from[i], defs[i].id)
                       /\ defs[i].enabled = g.enabled
                       /\ defs[i].severity = g.severity
                       /\ defs[i].priority = g.priority
                       /\ defs[i].id = g.id
                       /\ defs[i].id \in RuleIds
                       /\ defs[i].file = layers[from[i]]
              /\ \A k \in DOMAIN layers : \A id : \A g \in Given(k, id) :
                    \E i \in DOMAIN defs :
                       /\ from[i] = k /\ g = RulesOf(k)[nth[i]]
                       /\ defs[i].id = id
                       /\ defs[i].enabled = g.enabled
                       /\ defs[i].severity = g.severity
                       /\ defs[i].priority = g.priority
<1>1. PICK from, nth \in [DOMAIN defs -> Nat] : Placed(from, nth)
  BY DEF ResultInv, InPlace
<1>2. ASSUME NEW i \in DOMAIN defs, NEW g, g = RulesOf(from[i])[nth[i]]
      PROVE  /\ g \in Given(from[i], defs[i].id)
             /\ defs[i].enabled = g.enabled
             /\ defs[i].severity = g.severity
             /\ defs[i].priority = g.priority
             /\ defs[i].id = g.id
             /\ defs[i].id \in RuleIds
             /\ defs[i].file = layers[from[i]]
  <2>1. defs[i] = Stamped(g, layers[from[i]]) /\ nth[i] \in DOMAIN RulesOf(from[i])
    BY <1>1, <1>2 DEF Placed
  <2>2. /\ defs[i].enabled = g.enabled
        /\ defs[i].severity = g.severity
        /\ defs[i].priority = g.priority
        /\ defs[i].id = g.id
        /\ defs[i].file = layers[from[i]]
    BY <2>1 DEF Stamped
  <2>3. g \in Given(from[i], defs[i].id)
    BY <1>2, <2>1, <2>2 DEF Given, Range
  <2>4. defs[i] \in Definition
    BY ElementOfSeq DEF IInv, RulesTypeOK
  <2> QED
    BY <2>2, <2>3, <2>4 DEF Definition
<1>3. ASSUME NEW k \in DOMAIN layers, NEW id, NEW g \in Given(k, id)
      PROVE  \E i \in DOMAIN defs :
                /\ from[i] = k /\ g = RulesOf(k)[nth[i]]
                /\ defs[i].id = id
                /\ defs[i].enabled = g.enabled
                /\ defs[i].severity = g.severity
                /\ defs[i].priority = g.priority
  <2>1. PICK m \in DOMAIN RulesOf(k) : g = RulesOf(k)[m] /\ g.id = id
    BY DEF Given, Range
  <2>2. PICK i \in DOMAIN defs : from[i] = k /\ nth[i] = m
    BY <1>1 DEF Placed
  <2> QED
    BY <1>2, <2>1, <2>2
<1>4. \A i \in DOMAIN defs :
         LET g == RulesOf(from[i])[nth[i]]
         IN /\ g \in Given(from[i], defs[i].id)
            /\ defs[i].enabled = g.enabled
            /\ defs[i].severity = g.severity
            /\ defs[i].priority = g.priority
            /\ defs[i].id = g.id
            /\ defs[i].id \in RuleIds
            /\ defs[i].file = layers[from[i]]
  BY <1>2
<1> QED
  BY <1>1, <1>3, <1>4

(* A sequence of rules that is related to the definitions like this is     *)
(* related to the files as RulesFromFiles says.                            *)
OfDefinitions(r) ==
    /\ \E i \in DOMAIN defs : /\ First(i) /\ defs[i].id = r.id
                              /\ r.file = defs[i].file
                              /\ r.enabled = defs[i].enabled
    /\ \A i \in DOMAIN defs : defs[i].id = r.id =>
          /\ SeverityRank(r.severity) >= SeverityRank(defs[i].severity)
          /\ r.priority <= defs[i].priority
    /\ \E i \in DOMAIN defs : defs[i].id = r.id /\ r.severity = defs[i].severity
    /\ \E i \in DOMAIN defs : defs[i].id = r.id /\ r.priority = defs[i].priority

DefinedBefore(x, y) ==
    \E i \in DOMAIN defs : defs[i].id = x /\ \A j \in DOMAIN defs : defs[j].id = y => i < j

LEMMA ResultFromFiles ==
    ASSUME IInv, ResultInv, NEW rules,
           {r.id : r \in Range(rules)} = {defs[i].id : i \in DOMAIN defs},
           \A r \in Range(rules) : OfDefinitions(r),
           \A i, j \in DOMAIN rules : i < j => DefinedBefore(rules[i].id, rules[j].id)
    PROVE  FromFiles(rules)
<1>1. PICK from, nth \in [DOMAIN defs -> Nat] :
         /\ Placed(from, nth)
         /\ \A i \in DOMAIN defs :
               LET g == RulesOf(from[i])[nth[i]]
               IN /\ g \in Given(from[i], defs[i].id)
                  /\ defs[i].enabled = g.enabled
                  /\ defs[i].severity = g.severity
                  /\ defs[i].priority = g.priority
                  /\ defs[i].id = g.id
                  /\ defs[i].id \in RuleIds
                  /\ defs[i].file = layers[from[i]]
         /\ \A k \in DOMAIN layers : \A id : \A g \in Given(k, id) :
               \E i \in DOMAIN defs :
                  /\ from[i] = k /\ g = RulesOf(k)[nth[i]]
                  /\ defs[i].id = id
                  /\ defs[i].enabled = g.enabled
                  /\ defs[i].severity = g.severity
                  /\ defs[i].priority = g.priority
  BY DefinedInFiles
<1>2. /\ \A i \in DOMAIN defs : from[i] \in DOMAIN layers /\ nth[i] \in DOMAIN RulesOf(from[i])
      /\ \A i, j \in DOMAIN defs :
            i < j => from[i] < from[j] \/ (from[i] = from[j] /\ nth[i] < nth[j])
      /\ \A k \in DOMAIN layers : \A m \in DOMAIN RulesOf(k) :
            \E i \in DOMAIN defs : from[i] = k /\ nth[i] = m
  BY <1>1 DEF Placed
<1>3. DOMAIN defs = 1..Len(defs) /\ Len(defs) \in Nat
      /\ DOMAIN layers = 1..Len(layers) /\ Len(layers) \in Nat
  BY DEF IInv, RulesTypeOK
<1>4. {r.id : r \in Range(rules)} = {id \in RuleIds : \E k \in DOMAIN layers : Given(k, id) # {}}
  <2>1. \A i \in DOMAIN defs : defs[i].id \in RuleIds /\ Given(from[i], defs[i].id) # {}
    BY <1>1
  <2>2. \A id : (\E k \in DOMAIN layers : Given(k, id) # {}) => \E i \in DOMAIN defs : defs[i].id = id
    BY <1>1
  <2>3. {defs[i].id : i \in DOMAIN defs}
            = {id \in RuleIds : \E k \in DOMAIN layers : Given(k, id) # {}}
    BY <1>2, <2>1, <2>2
  <2> QED
    BY <2>3
<1>5. ASSUME NEW i \in DOMAIN defs, First(i)
      PROVE  /\ Given(from[i], defs[i].id) # {}
             /\ \A k \in 1..(from[i] - 1) : Given(k, defs[i].id) = {}
             /\ \A g \in Given(from[i], defs[i].id) : defs[i].enabled = g.enabled
  <2>1. ASSUME NEW k \in DOMAIN layers, NEW g \in Given(k, defs[i].id)
        PROVE  \E j \in DOMAIN defs : from[j] = k /\ g = RulesOf(k)[nth[j]] /\ (j = i \/ i < j)
    <3>1. PICK j \in DOMAIN defs : from[j] = k /\ g = RulesOf(k)[nth[j]] /\ defs[j].id = defs[i].id
      BY <1>1
    <3>2. i <= j
      BY <1>5, <3>1 DEF First
    <3> QED
      BY <1>3, <3>1, <3>2
  <2>2. \A k \in 1..(from[i] - 1) : Given(k, defs[i].id) = {}
    <3> SUFFICES ASSUME NEW k \in 1..(from[i] - 1), NEW g \in Given(k, defs[i].id)
                 PROVE  FALSE
      OBVIOUS
    <3>1. from[i] \in DOMAIN layers
      BY <1>2
    <3>2. k \in DOMAIN layers /\ k < from[i]
      BY <1>3, <3>1
    <3>3. PICK j \in DOMAIN defs : from[j] = k /\ (j = i \/ i < j)
      BY <2>1, <3>2
    <3>4. from[i] <= from[j]
      BY <1>2, <1>3, <3>1, <3>3
    <3> QED
      BY <1>3, <3>1, <3>2, <3>3, <3>4
  <2>3. ASSUME NEW g \in Given(from[i], defs[i].id) PROVE defs[i].enabled = g.enabled
    <3>1. PICK j \in DOMAIN defs :
             from[j] = from[i] /\ g = RulesOf(from[i])[nth[j]] /\ defs[j].id = defs[i].id
             /\ defs[j].enabled = g.enabled
      BY <1>1, <1>2
    <3>8. PICK path : path = layers[from[i]]
      OBVIOUS
    <3>2. /\ path \in Paths /\ Readable(path) /\ disk \in DiskSpace
          /\ RulesOf(from[i]) = disk[path].rules
      BY <1>2, <3>8, ElementOfSeq DEF IInv, RulesTypeOK, ResultInv, Stages, RulesOf
    <3>3. nth[i] \in DOMAIN RulesOf(from[i]) /\ nth[j] \in DOMAIN RulesOf(from[i])
      BY <1>2, <3>1
    <3>4. RulesOf(from[i])[nth[i]].id = RulesOf(from[i])[nth[j]].id
      BY <1>1, <3>1
    <3>6. PICK R : R = disk[path].rules
      OBVIOUS
    <3>7. \A m, n \in DOMAIN R : n # m => R[n].id # R[m].id
      BY <3>2, <3>6 DEF Readable, Loads, Validate
    <3>5. nth[i] = nth[j]
      BY <3>2, <3>3, <3>4, <3>6, <3>7
    <3> QED
      BY <1>1, <3>1, <3>5
  <2> QED
    BY <1>1, <2>2, <2>3
<1>6. ASSUME NEW r \in Range(rules) PROVE RuleFromFiles(r)
  <2>1. OfDefinitions(r)
    OBVIOUS
  <2>2. \E first \in DOMAIN layers :
           /\ Given(first, r.id) # {}
           /\ \A k \in 1..(first - 1) : Given(k, r.id) = {}
           /\ r.file = layers[first]
           /\ \A g \in Given(first, r.id) : r.enabled = g.enabled
    <3>1. PICK i \in DOMAIN defs : First(i) /\ defs[i].id = r.id
                                   /\ r.file = defs[i].file /\ r.enabled = defs[i].enabled
      BY <2>1 DEF OfDefinitions
    <3>2. from[i] \in DOMAIN layers /\ defs[i].file = layers[from[i]]
      BY <1>1, <1>2
    <3> QED
      BY <1>5, <3>1, <3>2
  <2>3. ASSUME NEW k \in DOMAIN layers, NEW g \in Given(k, r.id)
        PROVE  SeverityRank(r.severity) >= SeverityRank(g.severity) /\ r.priority <= g.priority
    <3>1. PICK i \in DOMAIN defs : defs[i].id = r.id /\ defs[i].severity = g.severity
                                   /\ defs[i].priority = g.priority
      BY <1>1
    <3> QED
      BY <2>1, <3>1 DEF OfDefinitions
  <2>4. \E k \in DOMAIN layers : \E g \in Given(k, r.id) : r.severity = g.severity
    <3>1. PICK i \in DOMAIN defs : defs[i].id = r.id /\ r.severity = defs[i].severity
      BY <2>1 DEF OfDefinitions
    <3> QED
      BY <1>1, <1>2, <3>1
  <2>5. \E k \in DOMAIN layers : \E g \in Given(k, r.id) : r.priority = g.priority
    <3>1. PICK i \in DOMAIN defs : defs[i].id = r.id /\ r.priority = defs[i].priority
      BY <2>1 DEF OfDefinitions
    <3> QED
      BY <1>1, <1>2, <3>1
  <2> QED
    BY <2>2, <2>3, <2>4, <2>5 DEF RuleFromFiles
<1>7. ASSUME NEW x, NEW y, DefinedBefore(x, y) PROVE OccursBefore(x, y)
  <2>1. PICK i \in DOMAIN defs : defs[i].id = x /\ \A j \in DOMAIN defs : defs[j].id = y => i < j
    BY <1>7 DEF DefinedBefore
  <2>2. /\ from[i] \in DOMAIN layers /\ nth[i] \in DOMAIN RulesOf(from[i])
        /\ RulesOf(from[i])[nth[i]].id = x
    BY <1>1, <1>2, <2>1
  <2>3. ASSUME NEW l \in 1..from[i], NEW n \in DOMAIN RulesOf(l), l < from[i] \/ n <= nth[i],
               RulesOf(l)[n].id = y
        PROVE  FALSE
    <3>1. l \in DOMAIN layers
      BY <1>3, <2>2
    <3>2. PICK j \in DOMAIN defs : from[j] = l /\ nth[j] = n
      BY <1>2, <3>1
    <3>3. defs[j].id = y
      BY <1>1, <2>3, <3>2
    <3>4. i < j
      BY <2>1, <3>3
    <3>5. from[i] < l \/ (from[i] = l /\ nth[i] < n)
      BY <1>2, <3>2, <3>4
    <3>6. n \in Nat /\ nth[i] \in Nat /\ from[i] \in Nat /\ l \in Nat
      BY <1>1, <3>2
    <3> QED
      BY <2>3, <3>5, <3>6
  <2> QED
    BY <2>2, <2>3 DEF OccursBefore
<1> QED
  BY <1>4, <1>6, <1>7 DEF FromFiles

-----------------------------------------------------------------------------
(* mergePlugins.                                                           *)

LEMMA PluginsType ==
    ASSUME disk \in DiskSpace, NEW path \in Paths, Readable(path), NEW names, names = disk[path].plugins
    PROVE  \E n \in Nat :
              /\ names \in [1..n -> {"lint", "scan"}]
              /\ Plugins(path) \in [1..n -> Plugin]
              /\ Plugins(path) \in Seq(Plugin)
              /\ \A i \in 1..n : Plugins(path)[i] = [name |-> names[i], file |-> path]
<1>1. names \in Seq({"lint", "scan"})
  BY DiskSpaceAssumption DEF Readable, Exists, PolicyRecord
<1>2. PICK n \in Nat : names \in [1..n -> {"lint", "scan"}]
  BY <1>1, SeqDef
<1>3. Plugins(path) = [i \in 1..n |-> [name |-> names[i], file |-> path]]
  BY <1>2 DEF Plugins
<1>4. Plugins(path) \in [1..n -> Plugin]
  BY <1>2, <1>3 DEF Plugin
<1>5. Plugins(path) \in Seq(Plugin)
  BY <1>4, SeqDef
<1> QED
  BY <1>2, <1>3, <1>4, <1>5

NameIn(name, found) == \E x \in Range(found) : x.name = name

LEMMA AddPluginResult ==
    ASSUME NEW found \in Seq(Plugin), NEW plugin \in Plugin
    PROVE  /\ AddPlugin(found, plugin) \in Seq(Plugin)
           /\ Range(AddPlugin(found, plugin))
                  = IF NameIn(plugin.name, found) THEN Range(found) ELSE Range(found) \cup {plugin}
<1>1. NameIn(plugin.name, found) <=> \E i \in DOMAIN found : found[i].name = plugin.name
  BY DEF NameIn, Range
<1>2. Append(found, plugin) \in Seq(Plugin) /\ Range(Append(found, plugin)) = Range(found) \cup {plugin}
  <2>1. <<plugin>> \in Seq(Plugin) /\ Range(<<plugin>>) = {plugin}
    BY DEF Range
  <2>2. Append(found, plugin) = found \o <<plugin>>
    BY AppendIsConcat
  <2>3. PICK one : one = <<plugin>>
    OBVIOUS
  <2>4. one \in Seq(Plugin) /\ Range(one) = {plugin}
    BY <2>1, <2>3
  <2>5. found \o one \in Seq(Plugin) /\ Range(found \o one) = Range(found) \cup Range(one)
    BY <2>4, RangeConcat
  <2> QED
    BY <2>2, <2>3, <2>4, <2>5
<1> QED
  BY <1>1, <1>2 DEF AddPlugin

LEMMA AddPluginFold ==
    ASSUME NEW n \in Nat, NEW plugins \in [1..n -> Plugin], NEW found \in Seq(Plugin)
    PROVE  \E g \in [0..n -> Seq(Plugin)] :
              /\ g[0] = found
              /\ \A k \in 1..n : g[k] = AddPlugin(g[k - 1], plugins[k])
              /\ FoldLeft(AddPlugin, found, plugins) = g[n]
<1> DEFINE S == Seq(Plugin)
           move == [k \in 1..n |-> [x \in S |-> AddPlugin(x, plugins[k])]]
           iter == CHOOSE f : f = [s \in SUBSET (1..n) |->
               IF s = {} THEN found ELSE AddPlugin(f[s \ {Max(s)}], plugins[Max(s)])]
<1>1. DOMAIN plugins = 1..n /\ \A k \in 1..n : plugins[k] \in Plugin
  OBVIOUS
<1>2. move \in [1..n -> [S -> S]]
  BY <1>1, AddPluginResult
<1>3. \A k \in 1..n, x \in S : move[k][x] = AddPlugin(x, plugins[k])
  OBVIOUS
<1>4. FoldLeft(AddPlugin, found, plugins) = iter[1..n]
  BY <1>1 DEF FoldLeft, MapThenFoldSet
<1>5. found \in S
  OBVIOUS
<1> HIDE DEF S, move, iter
<1>6. PICK it \in [SUBSET (1..n) -> S] : FoldsTo(it, found, n, move)
  BY <1>2, <1>5, Folds
<1>7. \A s \in SUBSET (1..n) : s # {} => Max(s) \in 1..n /\ s \ {Max(s)} \in SUBSET (1..n)
  <2>1. \A s \in SUBSET (1..n) : s \in SUBSET (0..n)
    OBVIOUS
  <2> QED
    BY <2>1, MaxOf
<1>8. it = [s \in SUBSET (1..n) |->
               IF s = {} THEN found ELSE AddPlugin(it[s \ {Max(s)}], plugins[Max(s)])]
  BY <1>3, <1>5, <1>6, <1>7 DEF FoldsTo
<1>9. iter = [s \in SUBSET (1..n) |->
               IF s = {} THEN found ELSE AddPlugin(iter[s \ {Max(s)}], plugins[Max(s)])]
  BY <1>8 DEF iter
<1>10. iter[{}] = found
  <2>1. {} \in SUBSET (1..n)
    OBVIOUS
  <2> QED
    BY <1>5, <1>9, <2>1
<1>11. ASSUME NEW k \in 1..n, iter[1..(k - 1)] \in S
       PROVE  iter[1..k] = move[k][iter[1..(k - 1)]]
  <2>1. /\ 1..k # {} /\ 1..k \in SUBSET (1..n)
        /\ Max(1..k) = k /\ (1..k) \ {k} = 1..(k - 1)
    BY FirstOnes
  <2>2. iter[1..k] = AddPlugin(iter[1..(k - 1)], plugins[k])
    BY <1>9, <2>1
  <2> QED
    BY <1>3, <1>11, <2>2
<1>12. Moves(iter, S, n, move)
  BY <1>11 DEF Moves
<1>13. PICK g \in [0..n -> S] : History(g, found, n, move, iter[1..n])
  BY <1>2, <1>5, <1>10, <1>12, Beginnings
<1>14. \A k \in 1..n : g[k - 1] \in S /\ g[k] = AddPlugin(g[k - 1], plugins[k])
  <2>1. \A k \in 1..n : k - 1 \in 0..n
    OBVIOUS
  <2> QED
    BY <1>3, <1>13, <2>1 DEF History
<1> QED
  BY <1>4, <1>5, <1>13, <1>14 DEF S, History

(* A file adds its plugins, but for those whose name is taken.             *)
LEMMA AddPluginsResult ==
    ASSUME disk \in DiskSpace, NEW path \in Paths, Readable(path), NEW found \in Seq(Plugin),
           NEW new, new = {[name |-> m, file |-> path] :
                              m \in {x \in Range(disk[path].plugins) : ~NameIn(x, found)}}
    PROVE  /\ AddPlugins(found, path) \in Seq(Plugin)
           /\ Range(AddPlugins(found, path)) = Range(found) \cup new
<1>1. PICK names : names = disk[path].plugins
  OBVIOUS
<1>2. PICK n \in Nat :
         /\ names \in [1..n -> {"lint", "scan"}]
         /\ Plugins(path) \in [1..n -> Plugin]
         /\ \A i \in 1..n : Plugins(path)[i] = [name |-> names[i], file |-> path]
  BY <1>1, PluginsType
<1>3. PICK plugins : plugins = Plugins(path)
  OBVIOUS
<1>12. plugins \in [1..n -> Plugin]
  BY <1>2, <1>3
<1>4. PICK g \in [0..n -> Seq(Plugin)] :
         /\ g[0] = found
         /\ \A k \in 1..n : g[k] = AddPlugin(g[k - 1], plugins[k])
         /\ FoldLeft(AddPlugin, found, plugins) = g[n]
  BY <1>12, AddPluginFold, ZenonT(60)
<1> DEFINE New(k) == {[name |-> names[i], file |-> path] : i \in {j \in 1..k : ~NameIn(names[j], found)}}
           Good(k) == Range(g[k]) = Range(found) \cup New(k)
           T == {k \in 0..n : Good(k)}
<1>5. Good(0)
  <2>1. New(0) = {}
    OBVIOUS
  <2> QED
    BY <1>4, <2>1
<1>6. ASSUME NEW k \in 1..n, Good(k - 1) PROVE Good(k)
  <2>1. PICK p : p = [name |-> names[k], file |-> path]
    OBVIOUS
  <2>2. /\ k - 1 \in 0..n /\ g[k - 1] \in Seq(Plugin) /\ plugins[k] = p /\ p \in Plugin
        /\ g[k] = AddPlugin(g[k - 1], p) /\ p.name = names[k]
    BY <1>2, <1>3, <1>4, <2>1
  <2>3. Range(g[k]) = IF NameIn(names[k], g[k - 1]) THEN Range(g[k - 1]) ELSE Range(g[k - 1]) \cup {p}
    BY <2>2, AddPluginResult
  <2>4. 1..k = (1..(k - 1)) \cup {k}
    OBVIOUS
  <2>5. New(k) = New(k - 1) \cup (IF NameIn(names[k], found) THEN {} ELSE {p})
    BY <2>1, <2>4
  <2>6. CASE NameIn(names[k], found)
    <3>1. NameIn(names[k], g[k - 1])
      BY <1>6, <2>6 DEF NameIn
    <3> QED
      BY <1>6, <2>3, <2>5, <2>6, <3>1
  <2>7. CASE ~NameIn(names[k], found)
    <3>1. NameIn(names[k], g[k - 1]) => p \in New(k - 1)
      <4> SUFFICES ASSUME NEW x \in Range(g[k - 1]), x.name = names[k]
                   PROVE  p \in New(k - 1)
        BY DEF NameIn
      <4>1. x \in New(k - 1)
        BY <1>6, <2>7 DEF NameIn
      <4>2. PICK i \in 1..(k - 1) : x = [name |-> names[i], file |-> path] /\ ~NameIn(names[i], found)
        BY <4>1
      <4>3. names[i] = names[k]
        BY <4>2
      <4> QED
        BY <2>1, <4>1, <4>2, <4>3
    <3> QED
      BY <1>6, <2>3, <2>5, <2>7, <3>1
  <2> QED
    BY <2>6, <2>7
<1> HIDE DEF Good
<1>7. 0 \in T /\ \A k \in 1..n : k - 1 \in T => k \in T
  BY <1>5, <1>6
<1> HIDE DEF T
<1>8. 0..n \subseteq T
  BY <1>7, UpTo
<1>9. Good(n)
  BY <1>8 DEF T
<1>10. New(n) = new
  <2>1. Range(names) = {names[i] : i \in 1..n}
    BY <1>2 DEF Range
  <2> QED
    BY <1>1, <2>1
<1>11. AddPlugins(found, path) = g[n]
  BY <1>3, <1>4 DEF AddPlugins
<1> QED
  BY <1>4, <1>9, <1>10, <1>11 DEF Good

LEMMA MergePluginsFold ==
    ASSUME disk \in DiskSpace, NEW n \in Nat, NEW paths \in [1..n -> Paths],
           \A k \in 1..n : Readable(paths[k])
    PROVE  \E h \in [0..n -> Seq(Plugin)] :
              /\ h[0] = <<>>
              /\ \A k \in 1..n : h[k] = AddPlugins(h[k - 1], paths[k])
              /\ MergePlugins(paths) = h[n]
<1> DEFINE S == Seq(Plugin)
           move == [k \in 1..n |-> [x \in S |-> AddPlugins(x, paths[k])]]
           iter == CHOOSE f : f = [s \in SUBSET (1..n) |->
               IF s = {} THEN <<>> ELSE AddPlugins(f[s \ {Max(s)}], paths[Max(s)])]
<1>1. DOMAIN paths = 1..n /\ \A k \in 1..n : paths[k] \in Paths
  OBVIOUS
<1>2. move \in [1..n -> [S -> S]]
  <2>1. \A k \in 1..n, x \in S : AddPlugins(x, paths[k]) \in S
    BY <1>1, AddPluginsResult
  <2> QED
    BY <2>1
<1>3. \A k \in 1..n, x \in S : move[k][x] = AddPlugins(x, paths[k])
  OBVIOUS
<1>4. MergePlugins(paths) = iter[1..n]
  BY <1>1 DEF MergePlugins, FoldLeft, MapThenFoldSet
<1>16. <<>> \in S
  OBVIOUS
<1> HIDE DEF S, move, iter
<1>5. PICK none : none = <<>> /\ none \in S
  BY <1>16
<1>6. PICK it \in [SUBSET (1..n) -> S] : FoldsTo(it, none, n, move)
  BY <1>2, <1>5, Folds
<1>7. \A s \in SUBSET (1..n) : s # {} => Max(s) \in 1..n /\ s \ {Max(s)} \in SUBSET (1..n)
  <2>1. \A s \in SUBSET (1..n) : s \in SUBSET (0..n)
    OBVIOUS
  <2> QED
    BY <2>1, MaxOf
<1>8. it = [s \in SUBSET (1..n) |->
               IF s = {} THEN <<>> ELSE AddPlugins(it[s \ {Max(s)}], paths[Max(s)])]
  BY <1>3, <1>5, <1>6, <1>7 DEF FoldsTo
<1>9. iter = [s \in SUBSET (1..n) |->
               IF s = {} THEN <<>> ELSE AddPlugins(iter[s \ {Max(s)}], paths[Max(s)])]
  BY <1>8 DEF iter
<1>10. iter[{}] = none
  <2>1. {} \in SUBSET (1..n)
    OBVIOUS
  <2> QED
    BY <1>5, <1>9, <2>1
<1>11. ASSUME NEW k \in 1..n, iter[1..(k - 1)] \in S
       PROVE  iter[1..k] = move[k][iter[1..(k - 1)]]
  <2>1. /\ 1..k # {} /\ 1..k \in SUBSET (1..n)
        /\ Max(1..k) = k /\ (1..k) \ {k} = 1..(k - 1)
    BY FirstOnes
  <2>2. iter[1..k] = AddPlugins(iter[1..(k - 1)], paths[k])
    BY <1>9, <2>1
  <2> QED
    BY <1>3, <1>11, <2>2
<1>12. Moves(iter, S, n, move)
  BY <1>11 DEF Moves
<1>13. PICK h \in [0..n -> S] : History(h, none, n, move, iter[1..n])
  BY <1>2, <1>5, <1>10, <1>12, Beginnings
<1>14. \A k \in 1..n : h[k - 1] \in S /\ h[k] = AddPlugins(h[k - 1], paths[k])
  <2>1. \A k \in 1..n : k - 1 \in 0..n
    OBVIOUS
  <2> QED
    BY <1>3, <1>13, <2>1 DEF History
<1> QED
  BY <1>4, <1>5, <1>13, <1>14 DEF S, History

-----------------------------------------------------------------------------
(* The two steps that produce a result.                                    *)

LEMMA NoLayers ==
    ASSUME IInv, ResultInv, layers = <<>>
    PROVE  defs = <<>>
<1>1. PICK from, nth \in [DOMAIN defs -> Nat] : Placed(from, nth)
  BY DEF ResultInv, InPlace
<1>2. DOMAIN defs = {}
  BY <1>1 DEF Placed
<1> QED
  BY <1>2 DEF IInv, RulesTypeOK

LEMMA SingleFromFiles ==
    ASSUME IInv, ResultInv, Len(layers) <= 1
    PROVE  FromFiles(defs)
<1>1. PICK from, nth \in [DOMAIN defs -> Nat] : Placed(from, nth)
  BY DEF ResultInv, InPlace
<1>2. /\ defs \in Seq(Definition) /\ Len(defs) \in Nat /\ DOMAIN defs = 1..Len(defs)
      /\ layers \in Seq(Paths) /\ Len(layers) \in Nat /\ DOMAIN layers = 1..Len(layers)
  BY DEF IInv, RulesTypeOK
<1>3. ASSUME NEW i \in DOMAIN defs, NEW j \in DOMAIN defs, defs[i].id = defs[j].id
      PROVE  i = j
  <2>1. /\ from[i] \in DOMAIN layers /\ nth[i] \in DOMAIN RulesOf(from[i])
        /\ from[j] \in DOMAIN layers /\ nth[j] \in DOMAIN RulesOf(from[j])
        /\ defs[i].id = RulesOf(from[i])[nth[i]].id
        /\ defs[j].id = RulesOf(from[j])[nth[j]].id
    BY <1>1 DEF Placed, Stamped
  <2>2. from[i] = 1 /\ from[j] = 1
    BY <1>2, <2>1
  <2>3. 1 \in DOMAIN layers /\ Readable(layers[1])
    BY <2>1, <2>2 DEF ResultInv, Stages
  <2>4. nth[i] = nth[j]
    BY <1>3, <2>1, <2>2, <2>3, ZenonT(60) DEF Readable, Loads, Validate, RulesOf
  <2>5. ~(i < j) /\ ~(j < i)
    BY <1>1, <2>2, <2>4 DEF Placed
  <2> QED
    BY <1>2, <2>5
<1>4. ASSUME NEW r \in Range(defs) PROVE OfDefinitions(r)
  <2>1. PICK i \in DOMAIN defs : r = defs[i]
    BY DEF Range
  <2>2. First(i) /\ \A j \in DOMAIN defs : defs[j].id = r.id => j = i
    BY <1>2, <1>3, <2>1 DEF First
  <2>3. defs[i] \in Definition
    BY <1>2, ElementOfSeq
  <2>4. SeverityRank(r.severity) \in 0..2 /\ r.priority \in Int
    BY <2>1, <2>3, RankType DEF Definition
  <2> QED
    BY <2>1, <2>2, <2>4 DEF OfDefinitions
<1>5. ASSUME NEW i \in DOMAIN defs, NEW j \in DOMAIN defs, i < j
      PROVE  DefinedBefore(defs[i].id, defs[j].id)
  BY <1>3, <1>5 DEF DefinedBefore
<1>6. {r.id : r \in Range(defs)} = {defs[i].id : i \in DOMAIN defs}
  BY DEF Range
<1> QED
  BY <1>4, <1>5, <1>6, ResultFromFiles

LEMMA CollectedRules ==
    ASSUME IInv, ResultInv, merged = Len(defs), NEW ids \in SetToSeqs(Met),
           NEW entries, entries = SortByOrder([i \in DOMAIN ids |-> ruleMap[ids[i]]]),
           NEW rules, rules = [i \in DOMAIN entries |-> entries[i].rule]
    PROVE  rules \in Seq(Definition) /\ FromFiles(rules)
<1>1. PICK n : n = Cardinality(Met)
  OBVIOUS
<1>2. /\ n \in Nat
      /\ ids \in [1..n -> Met] /\ DOMAIN ids = 1..n
      /\ \A i, j \in 1..n : i # j => ids[i] # ids[j]
  BY <1>1, FS_CardinalityType DEF IInv, SetToSeqs
<1>3. \A id \in Met : \E i \in 1..n : ids[i] = id
  <2>1. IsFiniteSet(1..n) /\ Cardinality(1..n) = n
    BY <1>2, FS_Interval
  <2>2. ids \in Injection(1..n, Met)
    BY <1>2 DEF Injection, IsInjective
  <2>3. ids \in Surjection(1..n, Met)
    BY <1>1, <2>1, <2>2, FS_Injection DEF IInv
  <2> QED
    BY <2>3 DEF Surjection
<1>4. PICK unsorted : unsorted = [i \in 1..n |-> ruleMap[ids[i]]]
  OBVIOUS
<1>5. \A id \in Met : id \in RuleIds /\ ruleMap[id] \in Entry /\ ruleMap[id].order \in Nat
                      /\ ruleMap[id].rule \in Definition
  BY DEF IInv, RulesTypeOK, Met, Entry
<1>6. unsorted \in [1..n -> Entry]
  BY <1>2, <1>4, <1>5
<1>7. \A x, y \in Met : x # y => ruleMap[x].order # ruleMap[y].order
  BY <1>5 DEF ResultInv, Entries
<1>8. \A i, j \in 1..n : i # j => unsorted[i].order # unsorted[j].order
  BY <1>2, <1>4, <1>7
<1>9. /\ entries \in Seq(Entry)
      /\ Range(entries) = Range(unsorted)
      /\ Sorted(entries)
  BY <1>2, <1>4, <1>6, <1>8, SortResult
<1>10. \A i \in DOMAIN entries : \E id \in Met : entries[i] = ruleMap[id]
  <2> TAKE i \in DOMAIN entries
  <2>1. entries[i] \in Range(unsorted)
    BY <1>9 DEF Range
  <2>2. PICK j \in 1..n : entries[i] = unsorted[j]
    BY <1>6, <2>1 DEF Range
  <2>3. ids[j] \in Met /\ entries[i] = ruleMap[ids[j]]
    BY <1>2, <1>4, <2>2
  <2> QED
    BY <2>3
<1>11. \A id \in Met : \E i \in DOMAIN entries : entries[i] = ruleMap[id]
  <2> TAKE id \in Met
  <2>1. PICK i \in 1..n : ids[i] = id
    BY <1>3
  <2>2. ruleMap[id] \in Range(unsorted)
    BY <1>4, <2>1 DEF Range
  <2> QED
    BY <1>9, <2>2 DEF Range
<1>12. /\ DOMAIN entries = 1..Len(entries) /\ Len(entries) \in Nat
       /\ DOMAIN rules = DOMAIN entries
       /\ \A i \in DOMAIN rules : rules[i] = entries[i].rule
  BY <1>9
<1>13. \A i \in DOMAIN rules : \E id \in Met : rules[i] = ruleMap[id].rule /\ rules[i].id = id
                                               /\ entries[i] = ruleMap[id]
  BY <1>10, <1>12 DEF ResultInv, Entries
<1>14. rules \in Seq(Definition)
  <2>1. \A i \in DOMAIN entries : entries[i].rule \in Definition
    BY <1>5, <1>10
  <2>2. PICK N : N = Len(entries)
    OBVIOUS
  <2>3. N \in Nat
    BY <1>12, <2>1, <2>2
  <2>4. rules = [i \in 1..N |-> entries[i].rule] /\ \A i \in 1..N : entries[i].rule \in Definition
    BY <1>12, <2>1, <2>2
  <2>5. PICK f : f = [i \in 1..N |-> entries[i].rule]
    OBVIOUS
  <2>6. f \in [1..N -> Definition]
    BY <2>4, <2>5
  <2>7. f \in Seq(Definition)
    BY <2>3, <2>6
  <2> QED
    BY <2>4, <2>5, <2>7
<1>15. /\ DOMAIN defs = 1..merged
       /\ \A id : Merged(id) = {i \in DOMAIN defs : defs[i].id = id}
  <2>1. defs \in Seq(Definition)
    BY DEF IInv, RulesTypeOK
  <2>2. DOMAIN defs = 1..merged
    BY <2>1
  <2> QED
    BY <2>2 DEF Merged
<1>16. \A i \in DOMAIN defs : defs[i].id \in Met
  <2> TAKE i \in DOMAIN defs
  <2>1. defs[i].id \in RuleIds
    <3>1. defs \in Seq(Definition)
      BY DEF IInv, RulesTypeOK
    <3>2. defs[i] \in Definition
      BY <3>1, ElementOfSeq
    <3> QED
      BY <3>2 DEF Definition
  <2> QED
    BY <1>15, <2>1 DEF IInv, NotWeakened, Met
<1>17. \A id \in Met : \E i \in DOMAIN defs : defs[i].id = id
  BY <1>15 DEF ResultInv, Entries
<1>18. {r.id : r \in Range(rules)} = {defs[i].id : i \in DOMAIN defs}
  <2>1. \A id \in Met : \E r \in Range(rules) : r.id = id
    <3> TAKE id \in Met
    <3>1. PICK i \in DOMAIN entries : entries[i] = ruleMap[id]
      BY <1>11
    <3>2. rules[i].id = id /\ rules[i] \in Range(rules)
      BY <1>12, <3>1 DEF Range, ResultInv, Entries
    <3> QED
      BY <3>2
  <2>2. \A r \in Range(rules) : r.id \in Met
    BY <1>13 DEF Range
  <2>3. {r.id : r \in Range(rules)} = Met
    BY <2>1, <2>2
  <2>4. {defs[i].id : i \in DOMAIN defs} = Met
    BY <1>16, <1>17
  <2> QED
    BY <2>3, <2>4
<1>19. ASSUME NEW r \in Range(rules) PROVE OfDefinitions(r)
  <2>1. PICK id \in Met : r = ruleMap[id].rule /\ r.id = id
    BY <1>13 DEF Range
  <2>2. id \in RuleIds /\ ruleMap[id] # NoEntry
    BY DEF Met
  <2>3. \E i \in DOMAIN defs : /\ First(i) /\ defs[i].id = r.id
                               /\ r.file = defs[i].file
                               /\ r.enabled = defs[i].enabled
    <3>1. PICK i \in Merged(id) : /\ \A j \in Merged(id) : i <= j
                                  /\ r.file = defs[i].file
                                  /\ r.enabled = defs[i].enabled
      BY <2>1, <2>2 DEF IInv, FirstDecides
    <3> QED
      BY <1>15, <2>1, <3>1 DEF First
  <2>4. \A i \in DOMAIN defs : defs[i].id = r.id =>
          /\ SeverityRank(r.severity) >= SeverityRank(defs[i].severity)
          /\ r.priority <= defs[i].priority
    BY <1>15, <2>1, <2>2 DEF IInv, NotWeakened
  <2>5. \E i \in DOMAIN defs : defs[i].id = r.id /\ r.severity = defs[i].severity
    BY <1>15, <2>1, <2>2 DEF IInv, SeverityGiven
  <2>6. \E i \in DOMAIN defs : defs[i].id = r.id /\ r.priority = defs[i].priority
    BY <1>15, <2>1 DEF ResultInv, Entries
  <2> QED
    BY <2>3, <2>4, <2>5, <2>6 DEF OfDefinitions
<1>20. ASSUME NEW i \in DOMAIN rules, NEW j \in DOMAIN rules, i < j
       PROVE  DefinedBefore(rules[i].id, rules[j].id)
  <2>1. PICK x \in Met : entries[i] = ruleMap[x] /\ rules[i].id = x
    BY <1>13
  <2>2. PICK y \in Met : entries[j] = ruleMap[y] /\ rules[j].id = y
    BY <1>13
  <2>3. ruleMap[x].order < ruleMap[y].order
    BY <1>9, <1>12, <1>20, <2>1, <2>2 DEF Sorted
  <2>4. x # y /\ ruleMap[x].order <= ruleMap[y].order
    BY <1>5, <2>3
  <2>5. PICK l \in Merged(x) : \A m \in Merged(y) : l < m
    BY <2>4 DEF ResultInv, Entries
  <2> QED
    BY <1>15, <2>1, <2>2, <2>5 DEF DefinedBefore
<1>21. FromFiles(rules)
  BY <1>18, <1>19, <1>20, ResultFromFiles
<1> QED
  BY <1>14, <1>21

(* Ending leaves the rest as it is. *)
LEMMA DoneKeeps ==
    ASSUME IInv, ResultInv, IInv', pc \in {"load", "merge"}, pc' = "done", sources = <<>>,
           UNCHANGED <<disk, flagged, envSet, sources, layers, defs, merged, ruleMap, conflicts>>,
           policy.plugins' \in Seq(Plugin), policy.rules' \in Seq(Definition),
           FromFiles(policy.rules')
    PROVE  ResultInv'
<1>1. TypeOK'
  BY DEF IInv, ResultInv, TypeOK
<1>2. \A path : Readable(path)' = Readable(path)
  BY DEF Readable, Exists, Loads
<1>3. Stages'
  BY <1>2 DEF ResultInv, Stages
<1>4. Found'
  <2>1. Range(sources)' = Range(sources) /\ Range(layers)' = Range(layers)
    BY DEF Range
  <2> QED
    BY <1>2, <2>1 DEF ResultInv, Found
<1>5. InPlace' /\ Entries'
  BY UnchangedResult
<1>6. RulesFromFiles'
  <2>1. PICK rules : rules = policy.rules'
    OBVIOUS
  <2>2. \A k : RulesOf(k)' = RulesOf(k)
    BY DEF RulesOf
  <2>3. \A k, id : Given(k, id)' = Given(k, id)
    BY <2>2 DEF Given
  <2>4. \A x, y : OccursBefore(x, y)' = OccursBefore(x, y)
    BY <2>2 DEF OccursBefore
  <2>5. \A r : RuleFromFiles(r)' = RuleFromFiles(r)
    BY <2>3 DEF RuleFromFiles
  <2>6. FromFiles(rules)'
    BY <2>1, <2>3, <2>4, <2>5 DEF FromFiles
  <2> QED
    BY <2>1, <2>6 DEF RulesFromFiles, FromFiles
<1> QED
  BY <1>1, <1>3, <1>4, <1>5, <1>6 DEF ResultInv

LEMMA TakeSingleResult ==
    ASSUME IInv, ResultInv, TakeSingle
    PROVE  ResultInv'
<1>1. /\ pc = "load" /\ pc' = "done" /\ sources = <<>> /\ Len(layers) <= 1
      /\ UNCHANGED <<disk, flagged, envSet, sources, layers, defs, merged, ruleMap, conflicts>>
  BY DEF TakeSingle
<1>2. IInv'
  BY NextInv DEF Next
<1>3. disk \in DiskSpace /\ layers \in Seq(Paths) /\ defs \in Seq(Definition)
  BY DEF IInv, RulesTypeOK
<1>4. FromFiles(defs)
  BY <1>1, SingleFromFiles
<1>5. CASE layers = <<>>
  <2>1. policy' = EmptyPolicy
    BY <1>5 DEF TakeSingle
  <2>2. defs = <<>>
    BY <1>5, NoLayers
  <2>3. policy.plugins' = <<>> /\ policy.rules' = defs
    BY <2>1, <2>2 DEF EmptyPolicy
  <2>4. policy.plugins' \in Seq(Plugin)
    BY <2>3
  <2> QED
    BY <1>1, <1>2, <1>3, <1>4, <2>3, <2>4, DoneKeeps
<1>6. CASE layers # <<>>
  <2>1. policy.plugins' = Plugins(layers[1]) /\ policy.rules' = defs
    BY <1>6 DEF TakeSingle
  <2>2. 1 \in DOMAIN layers
    BY <1>3, <1>6
  <2>3. PICK path \in Paths : path = layers[1]
    BY <1>3, <2>2, ElementOfSeq
  <2>4. Readable(path)
    BY <2>2, <2>3 DEF ResultInv, Stages
  <2>5. Plugins(path) \in Seq(Plugin)
    BY <1>3, <2>4, PluginsType
  <2> QED
    BY <1>1, <1>2, <1>3, <1>4, <2>1, <2>3, <2>5, DoneKeeps
<1> QED
  BY <1>5, <1>6

(* What the merge of the plugins is given. *)
LEMMA LayersType ==
    ASSUME IInv, ResultInv
    PROVE  \E n \in Nat :
              /\ n = Len(layers)
              /\ disk \in DiskSpace
              /\ layers \in [1..n -> Paths]
              /\ DOMAIN layers = 1..n
              /\ \A k \in 1..n : Readable(layers[k])
<1>1. layers \in Seq(Paths) /\ disk \in DiskSpace
  BY DEF IInv, RulesTypeOK
<1>2. PICK n \in Nat : n = Len(layers) /\ layers \in [1..n -> Paths] /\ DOMAIN layers = 1..n
  BY <1>1
<1> QED
  BY <1>1, <1>2 DEF ResultInv, Stages

LEMMA CollectResult ==
    ASSUME IInv, ResultInv, Collect
    PROVE  ResultInv'
<1>1. /\ pc = "merge" /\ pc' = "done" /\ merged = Len(defs)
      /\ UNCHANGED <<disk, flagged, envSet, sources, layers, defs, merged, ruleMap, conflicts>>
  BY DEF Collect
<1>2. IInv' /\ sources = <<>>
  BY <1>1, NextInv DEF Next, ResultInv, Stages
<1>3. PICK ids \in SetToSeqs(Met) :
         /\ policy.plugins' = MergePlugins(layers)
         /\ policy.rules' =
               LET entries == SortByOrder([i \in DOMAIN ids |-> ruleMap[ids[i]]])
               IN [i \in DOMAIN entries |-> entries[i].rule]
  <2>1. PICK ids \in SetToSeqs(Met) :
           LET entries == SortByOrder([i \in DOMAIN ids |-> ruleMap[ids[i]]])
               settings == MergeSettings(layers)
           IN policy' = [name     |-> MergeName(layers),
                         logLevel |-> settings.logLevel,
                         logFile  |-> settings.logFile,
                         remote   |-> MergeRemote(layers),
                         plugins  |-> MergePlugins(layers),
                         rules    |-> [i \in DOMAIN entries |-> entries[i].rule]]
    BY Zenon DEF Collect, Met
  <2>2. /\ policy.plugins' = MergePlugins(layers)
        /\ policy.rules' =
              LET entries == SortByOrder([i \in DOMAIN ids |-> ruleMap[ids[i]]])
              IN [i \in DOMAIN entries |-> entries[i].rule]
    BY <2>1
  <2> QED
    BY <2>2
<1>4. PICK entries : entries = SortByOrder([i \in DOMAIN ids |-> ruleMap[ids[i]]])
  OBVIOUS
<1>5. PICK rules : rules = [i \in DOMAIN entries |-> entries[i].rule]
  OBVIOUS
<1>6. policy.rules' = rules
  BY <1>3, <1>4, <1>5
<1>7. rules \in Seq(Definition) /\ FromFiles(rules)
  BY <1>1, <1>4, <1>5, CollectedRules
<1>8. MergePlugins(layers) \in Seq(Plugin)
  <2>1. PICK n \in Nat : /\ n = Len(layers)
                         /\ disk \in DiskSpace
                         /\ layers \in [1..n -> Paths]
                         /\ \A k \in 1..n : Readable(layers[k])
    BY LayersType
  <2>2. PICK paths \in [1..n -> Paths] : paths = layers
    BY <2>1
  <2>3. PICK h \in [0..n -> Seq(Plugin)] : MergePlugins(paths) = h[n]
    BY <2>1, <2>2, MergePluginsFold
  <2> QED
    BY <2>2, <2>3
<1> QED
  BY <1>1, <1>2, <1>3, <1>6, <1>7, <1>8, DoneKeeps

LEMMA StutterResult ==
    ASSUME IInv, ResultInv, UNCHANGED vars
    PROVE  ResultInv'
<1>1. /\ UNCHANGED <<pc, disk, flagged, envSet, sources, layers, defs, merged, ruleMap,
                    conflicts, policy>>
  BY DEF vars
<1>2. TypeOK'
  <2>1. IInv'
    BY NextInv
  <2> QED
    BY <1>1, <2>1 DEF IInv, ResultInv, TypeOK
<1>3. Stages' /\ Found' /\ RulesFromFiles'
  <2>1. \A path : Readable(path)' = Readable(path)
    BY <1>1 DEF Readable, Exists, Loads
  <2>2. Range(sources)' = Range(sources) /\ Range(layers)' = Range(layers)
    BY <1>1 DEF Range
  <2>3. Stages' /\ Found'
    BY <1>1, <2>1, <2>2 DEF ResultInv, Stages, Found
  <2>4. \A k : RulesOf(k)' = RulesOf(k)
    BY <1>1 DEF RulesOf
  <2>5. \A k, id : Given(k, id)' = Given(k, id)
    BY <2>4 DEF Given
  <2>6. \A x, y : OccursBefore(x, y)' = OccursBefore(x, y)
    BY <1>1, <2>4 DEF OccursBefore
  <2>7. \A r : RuleFromFiles(r)' = RuleFromFiles(r)
    BY <1>1, <2>5 DEF RuleFromFiles
  <2>8. RulesFromFiles'
    BY <1>1, <2>5, <2>6, <2>7 DEF ResultInv, RulesFromFiles, FromFiles
  <2> QED
    BY <2>3, <2>8
<1>4. InPlace' /\ Entries'
  BY <1>1, UnchangedResult
<1> QED
  BY <1>2, <1>3, <1>4 DEF ResultInv

LEMMA NextResult == IInv /\ ResultInv /\ [Next]_vars => ResultInv'
<1> SUFFICES ASSUME IInv, ResultInv, [Next]_vars PROVE ResultInv'
  OBVIOUS
<1>1. CASE DiscoverConfigSources
  BY <1>1, DiscoverResult
<1>2. CASE LoadSource
  BY <1>2, LoadSourceResult
<1>3. CASE TakeSingle
  BY <1>3, TakeSingleResult
<1>4. CASE StartMerge
  BY <1>4, StartMergeResult
<1>5. CASE AddRule
  BY <1>5, AddRuleResult
<1>6. CASE OverrideRule
  BY <1>6, OverrideRuleResult
<1>7. CASE Collect
  BY <1>7, CollectResult
<1>8. CASE UNCHANGED vars
  BY <1>8, StutterResult
<1> QED
  BY <1>1, <1>2, <1>3, <1>4, <1>5, <1>6, <1>7, <1>8 DEF Next

THEOREM ResultInvariance == Spec => []ResultInv
BY InitResult, NextResult, Invariance, PTL DEF Spec

(* Types, for any files: what the merge makes of the plugins and the rules *)
(* included.                                                               *)
THEOREM TypeCorrect == Spec => []TypeOK
<1>1. ResultInv => TypeOK
  BY DEF ResultInv
<1> QED
  BY <1>1, ResultInvariance, PTL

(* What the result says of a rule can be read off the files, whatever the  *)
(* order in which the map is iterated (MergePolicies and sortByOrder).     *)
THEOREM RulesReadOffFiles == Spec => []RulesFromFiles
<1>1. ResultInv => RulesFromFiles
  BY DEF ResultInv
<1> QED
  BY <1>1, ResultInvariance, PTL

LEMMA UserRules == IInv /\ ResultInv => UserRulesBind
<1> SUFFICES ASSUME IInv, ResultInv, pc = "done",
                    NEW path \in {"home", "project"}, Readable(path),
                    NEW r \in Range(disk[path].rules)
             PROVE  \E p \in Range(policy.rules) :
                       /\ p.id = r.id
                       /\ SeverityRank(p.severity) >= SeverityRank(r.severity)
                       /\ p.priority <= r.priority
                       /\ path = "home" => p.enabled = r.enabled
  BY DEF UserRulesBind, Readable
<1>1. sources = <<>> /\ FromFiles(policy.rules)
  BY DEF ResultInv, Stages, RulesFromFiles
<1>2. Range(sources) = {}
  BY <1>1 DEF Range
<1>3. path \in Range(layers) /\ (path = "home" => layers # <<>> /\ layers[1] = "home")
  BY <1>1, <1>2 DEF ResultInv, Found
<1>4. layers \in Seq(Paths) /\ disk \in DiskSpace /\ path \in Paths
  BY DEF IInv, RulesTypeOK, Paths
<1>5. PICK k \in DOMAIN layers : layers[k] = path /\ (path = "home" => k = 1)
  <2>1. path = "home" => 1 \in DOMAIN layers /\ layers[1] = path
    BY <1>3, <1>4
  <2>2. \E k \in DOMAIN layers : layers[k] = path
    BY <1>3 DEF Range
  <2> QED
    BY <2>1, <2>2
<1>6. r \in Given(k, r.id)
  BY <1>5 DEF Given, RulesOf
<1>7. r.id \in RuleIds
  <2>1. PICK rules : rules = disk[path].rules
    OBVIOUS
  <2>2. \A m \in DOMAIN rules : rules[m].id \in RuleIds
    BY <1>4, <2>1, StampedRules
  <2> QED
    BY <2>1, <2>2 DEF Range
<1>8. PICK p \in Range(policy.rules) : p.id = r.id
  <2>1. r.id \in {x.id : x \in Range(policy.rules)}
    BY <1>1, <1>6, <1>7 DEF FromFiles
  <2> QED
    BY <2>1
<1>9. RuleFromFiles(p)
  BY <1>1 DEF FromFiles
<1>10. r \in UNION {Given(j, p.id) : j \in DOMAIN layers}
  BY <1>6, <1>8
<1>11. SeverityRank(p.severity) >= SeverityRank(r.severity) /\ p.priority <= r.priority
  BY <1>9, <1>10 DEF RuleFromFiles
<1>12. ASSUME path = "home" PROVE p.enabled = r.enabled
  <2>1. PICK first \in DOMAIN layers : /\ \A j \in 1..(first - 1) : Given(j, p.id) = {}
                                       /\ \A g \in Given(first, p.id) : p.enabled = g.enabled
    BY <1>9 DEF RuleFromFiles
  <2>2. 1 \in 1..(first - 1) \/ first = 1
    BY <1>4, <2>1
  <2>3. first = 1
    BY <1>5, <1>6, <1>8, <1>12, <2>1, <2>2
  <2> QED
    BY <1>5, <1>6, <1>8, <1>12, <2>1, <2>3
<1> QED
  BY <1>8, <1>11, <1>12

(* The user's file binds every project, for any files and any number of    *)
(* rules (DiscoverConfigSources, LoadAll and MergePolicies together).      *)
THEOREM UserBinds == Spec => []UserRulesBind
BY UserRules, Invariance, ResultInvariance, PTL

-----------------------------------------------------------------------------
(* The settings and the plugins.  No file is loaded twice, so that a later *)
(* layer is never taken for an earlier one.                                *)

Distinct(s) == \A i, j \in DOMAIN s : i # j => s[i] # s[j]

Apart == /\ Distinct(sources)
         /\ Distinct(layers)
         /\ \A i \in DOMAIN layers, j \in DOMAIN sources : layers[i] # sources[j]

LEMMA ApartConcat ==
    ASSUME NEW s \in Seq(Paths), NEW t \in Seq(Paths), Distinct(s), Distinct(t),
           Range(s) \cap Range(t) = {}
    PROVE  Distinct(s \o t)
<1>1. PICK m, n \in Nat : /\ m = Len(s) /\ DOMAIN s = 1..m
                          /\ n = Len(t) /\ DOMAIN t = 1..n
  OBVIOUS
<1>2. PICK st : st = s \o t
  OBVIOUS
<1>3. /\ DOMAIN st = 1..(m + n)
      /\ \A i \in 1..(m + n) : st[i] = IF i <= m THEN s[i] ELSE t[i - m]
  BY <1>1, <1>2, ConcatProperties
<1>4. ASSUME NEW i \in 1..(m + n), NEW j \in 1..(m + n), i < j PROVE st[i] # st[j]
  <2>1. CASE j <= m
    BY <1>1, <1>3, <1>4, <2>1 DEF Distinct
  <2>2. CASE i <= m /\ ~(j <= m)
    <3>1. i \in DOMAIN s /\ j - m \in DOMAIN t /\ st[i] = s[i] /\ st[j] = t[j - m]
      BY <1>1, <1>3, <2>2
    <3>2. st[i] \in Range(s) /\ st[j] \in Range(t)
      BY <3>1 DEF Range
    <3> QED
      BY <3>2
  <2>3. CASE ~(i <= m)
    <3>1. i - m \in 1..n /\ j - m \in 1..n /\ i - m # j - m /\ ~(j <= m)
      BY <1>4, <2>3
    <3>2. st[i] = t[i - m] /\ st[j] = t[j - m]
      BY <1>3, <2>3, <3>1
    <3> QED
      BY <1>1, <3>1, <3>2 DEF Distinct
  <2> QED
    BY <2>1, <2>2, <2>3
<1>5. \A i, j \in 1..(m + n) : i # j => i < j \/ j < i
  BY <1>1
<1> QED
  BY <1>2, <1>3, <1>4, <1>5 DEF Distinct

LEMMA IfApart ==
    ASSUME NEW path \in Paths, NEW cond, NEW s, s = If(cond, path)
    PROVE  s \in Seq(Paths) /\ Distinct(s) /\ Range(s) \subseteq {path}
<1>1. CASE s = <<>>
  BY <1>1 DEF Distinct, Range
<1>2. CASE s = <<path>>
  BY <1>2 DEF Distinct, Range
<1> QED
  BY <1>1, <1>2 DEF If

LEMMA DiscoverApart ==
    ASSUME DiscoverConfigSources
    PROVE  Distinct(sources')
<1>1. PICK A, B, C, D, E : /\ A = If(TRUE, "home") /\ B = If(flagged, "flag")
                           /\ C = If(~flagged /\ envSet, "env") /\ D = If(TRUE, "project")
                           /\ E = If(~Exists("project"), "claude")
                           /\ sources' = A \o B \o C \o D \o E
  BY DEF DiscoverConfigSources
<1>2. /\ "home" \in Paths /\ "flag" \in Paths /\ "env" \in Paths
      /\ "project" \in Paths /\ "claude" \in Paths
  BY DEF Paths
<1>3. /\ A \in Seq(Paths) /\ Distinct(A) /\ Range(A) \subseteq {"home"}
      /\ B \in Seq(Paths) /\ Distinct(B) /\ Range(B) \subseteq {"flag"}
      /\ C \in Seq(Paths) /\ Distinct(C) /\ Range(C) \subseteq {"env"}
      /\ D \in Seq(Paths) /\ Distinct(D) /\ Range(D) \subseteq {"project"}
      /\ E \in Seq(Paths) /\ Distinct(E) /\ Range(E) \subseteq {"claude"}
  BY <1>1, <1>2, IfApart
<1>4. PICK AB : AB = A \o B
  OBVIOUS
<1>5. AB \in Seq(Paths) /\ Distinct(AB) /\ Range(AB) \subseteq {"home", "flag"}
  <2>1. Range(A) \cap Range(B) = {}
    BY <1>3
  <2>2. Distinct(AB)
    BY <1>3, <1>4, <2>1, ApartConcat
  <2>3. AB \in Seq(Paths) /\ Range(AB) = Range(A) \cup Range(B)
    BY <1>3, <1>4, RangeConcat
  <2> QED
    BY <1>3, <1>4, <2>2, <2>3
<1>6. PICK AC : AC = AB \o C
  OBVIOUS
<1>7. AC \in Seq(Paths) /\ Distinct(AC) /\ Range(AC) \subseteq {"home", "flag", "env"}
  <2>1. Range(AB) \cap Range(C) = {}
    BY <1>3, <1>5
  <2>2. Distinct(AC)
    BY <1>3, <1>5, <1>6, <2>1, ApartConcat
  <2>3. AC \in Seq(Paths) /\ Range(AC) = Range(AB) \cup Range(C)
    BY <1>3, <1>5, <1>6, RangeConcat
  <2> QED
    BY <1>3, <1>5, <1>6, <2>2, <2>3
<1>8. PICK AD : AD = AC \o D
  OBVIOUS
<1>9. AD \in Seq(Paths) /\ Distinct(AD) /\ Range(AD) \subseteq {"home", "flag", "env", "project"}
  <2>1. Range(AC) \cap Range(D) = {}
    BY <1>3, <1>7
  <2>2. Distinct(AD)
    BY <1>3, <1>7, <1>8, <2>1, ApartConcat
  <2>3. AD \in Seq(Paths) /\ Range(AD) = Range(AC) \cup Range(D)
    BY <1>3, <1>7, <1>8, RangeConcat
  <2> QED
    BY <1>3, <1>7, <1>8, <2>2, <2>3
<1>10. Range(AD) \cap Range(E) = {}
  BY <1>3, <1>9
<1>11. sources' = AD \o E
  BY <1>1, <1>4, <1>6, <1>8
<1> QED
  BY <1>3, <1>9, <1>10, <1>11, ApartConcat

LEMMA LoadSourceApart ==
    ASSUME IInv, Apart, LoadSource
    PROVE  Apart'
<1>1. PICK m, n \in Nat :
         /\ m = Len(layers) /\ layers \in Seq(Paths) /\ DOMAIN layers = 1..m
         /\ n = Len(sources) /\ n # 0 /\ DOMAIN sources = 1..n
         /\ sources \in Seq({p \in Paths : Exists(p)})
  BY DEF IInv, RulesTypeOK, LoadSource
<1>2. PICK path : path = sources[1]
  OBVIOUS
<1>3. /\ sources' = Tail(sources)
      /\ layers' = Append(layers, path) \/ layers' = layers
  BY <1>1, <1>2 DEF LoadSource
<1>4. /\ DOMAIN Tail(sources) = 1..(n - 1)
      /\ \A i \in 1..(n - 1) : Tail(sources)[i] = sources[i + 1]
  BY <1>1
<1>5. \A i \in 1..(n - 1) : i + 1 \in DOMAIN sources /\ i + 1 # 1 /\ 1 \in DOMAIN sources
  BY <1>1
<1>6. \A i \in 1..(n - 1) : Tail(sources)[i] # path
  BY <1>2, <1>4, <1>5 DEF Apart, Distinct
<1>7. Distinct(sources)'
  <2>1. \A i, j \in 1..(n - 1) : i # j => i + 1 # j + 1
    OBVIOUS
  <2>2. \A i, j \in 1..(n - 1) : i # j => Tail(sources)[i] # Tail(sources)[j]
    BY <1>4, <1>5, <2>1 DEF Apart, Distinct
  <2> QED
    BY <1>3, <1>4, <2>2 DEF Distinct
<1>8. CASE layers' = layers
  <2>1. \A i \in DOMAIN layers, j \in 1..(n - 1) : layers[i] # Tail(sources)[j]
    BY <1>4, <1>5 DEF Apart
  <2> QED
    BY <1>3, <1>4, <1>7, <1>8, <2>1 DEF Apart, Distinct
<1>9. CASE layers' = Append(layers, path)
  <2>1. PICK more : more = Append(layers, path)
    OBVIOUS
  <2>2. /\ DOMAIN more = 1..(m + 1)
        /\ \A i \in 1..(m + 1) : more[i] = IF i = m + 1 THEN path ELSE layers[i]
        /\ \A i \in 1..(m + 1) : i # m + 1 => i \in DOMAIN layers
    <3>1. path \in Paths
      <4>1. 1 \in DOMAIN sources
        BY <1>1
      <4>2. sources[1] \in {p \in Paths : Exists(p)}
        BY <1>1, <4>1, ElementOfSeq
      <4> QED
        BY <1>2, <4>2
    <3> QED
      BY <1>1, <2>1, <3>1, AppendProperties
  <2>3. \A i \in DOMAIN layers : layers[i] # path
    BY <1>1, <1>2 DEF Apart
  <2>4. Distinct(more)
    BY <2>2, <2>3 DEF Apart, Distinct
  <2>5. \A i \in DOMAIN more, j \in 1..(n - 1) : more[i] # Tail(sources)[j]
    <3> TAKE i \in DOMAIN more, j \in 1..(n - 1)
    <3>1. CASE i = m + 1
      BY <1>6, <2>2, <3>1
    <3>2. CASE i # m + 1
      BY <1>4, <1>5, <2>2, <3>2 DEF Apart
    <3> QED
      BY <3>1, <3>2
  <2> QED
    BY <1>3, <1>4, <1>7, <1>9, <2>1, <2>4, <2>5 DEF Apart, Distinct
<1> QED
  BY <1>3, <1>8, <1>9

LEMMA NextApart == IInv /\ ResultInv /\ Apart /\ [Next]_vars => Apart'
<1> SUFFICES ASSUME IInv, ResultInv, Apart, [Next]_vars PROVE Apart'
  OBVIOUS
<1>1. CASE DiscoverConfigSources
  <2>1. layers' = <<>>
    BY <1>1 DEF DiscoverConfigSources, ResultInv, Stages
  <2>2. Distinct(sources)'
    BY <1>1, DiscoverApart DEF Distinct
  <2> QED
    BY <2>1, <2>2 DEF Apart, Distinct
<1>2. CASE LoadSource
  BY <1>2, LoadSourceApart
<1>3. CASE UNCHANGED <<sources, layers>>
  BY <1>3 DEF Apart, Distinct
<1>4. [Next]_vars => DiscoverConfigSources \/ LoadSource \/ UNCHANGED <<sources, layers>>
  BY DEF Next, TakeSingle, StartMerge, AddRule, OverrideRule, Collect, vars
<1> QED
  BY <1>1, <1>2, <1>3, <1>4

-----------------------------------------------------------------------------

(* Of the values given, the first is kept. *)
Unset == ""
FirstSet(a, b) == IF a # Unset THEN a ELSE b
Keeping(h, val, n) == h[0] = Unset /\ \A k \in 1..n : h[k] = FirstSet(h[k - 1], val[k])
SetFirst(val, k) == val[k] # Unset /\ \A j \in 1..(k - 1) : val[j] = Unset

LEMMA FirstGivenKept ==
    ASSUME NEW n \in Nat, NEW val, NEW h, Keeping(h, val, n), NEW k \in 1..n, SetFirst(val, k)
    PROVE  h[n] = val[k]
<1> DEFINE Good(j) == /\ j < k => h[j] = Unset
                      /\ j >= k => h[j] = val[k]
           T == {j \in 0..n : Good(j)}
<1>1. Good(0)
  BY DEF Keeping
<1>2. ASSUME NEW j \in 1..n, Good(j - 1) PROVE Good(j)
  <2>1. h[j] = FirstSet(h[j - 1], val[j])
    BY DEF Keeping
  <2>2. CASE j < k
    <3>1. h[j - 1] = Unset /\ val[j] = Unset
      BY <1>2, <2>2 DEF SetFirst
    <3> QED
      BY <2>1, <2>2, <3>1 DEF FirstSet
  <2>3. CASE j = k
    <3>1. h[j - 1] = Unset
      BY <1>2, <2>3
    <3> QED
      BY <2>1, <2>3, <3>1 DEF FirstSet
  <2>4. CASE j > k
    <3>1. h[j - 1] = val[k] /\ val[k] # Unset
      BY <1>2, <2>4 DEF SetFirst
    <3> QED
      BY <2>1, <2>4, <3>1 DEF FirstSet
  <2> QED
    BY <2>2, <2>3, <2>4
<1> HIDE DEF Good
<1>3. 0 \in T /\ \A j \in 1..n : j - 1 \in T => j \in T
  BY <1>1, <1>2
<1> HIDE DEF T
<1>4. 0..n \subseteq T
  BY <1>3, UpTo
<1>5. Good(n)
  BY <1>4 DEF T
<1> QED
  BY <1>5 DEF Good

(* A file's settings, and what MergeSettings makes of those of the layers. *)
NoSettings == [logLevel |-> Unset, logFile |-> Unset]
LogLevels == {"", "debug", "info"}
LogFiles == {"", "log"}
Settings == [logLevel : LogLevels, logFile : LogFiles]

LEMMA AddSettingsType ==
    ASSUME disk \in DiskSpace, NEW path \in Paths, Readable(path), NEW s \in Settings
    PROVE  AddSettings(s, path) \in Settings
<1>1. PICK file \in PolicyRecord : file = disk[path]
  BY DiskSpaceAssumption DEF Readable, Exists
<1>2. PICK a, b : a = FirstGiven(s.logLevel, file.logLevel) /\ b = FirstGiven(s.logFile, file.logFile)
  OBVIOUS
<1>3. a \in {s.logLevel, file.logLevel} /\ b \in {s.logFile, file.logFile}
  BY <1>2 DEF FirstGiven
<1>4. /\ s.logLevel \in LogLevels /\ s.logFile \in LogFiles
      /\ file.logLevel \in LogLevels /\ file.logFile \in LogFiles
  <2>1. PolicyRecord =
            [version  : {"", "1"},
             name     : {"", "named"},
             logLevel : LogLevels,
             logFile  : LogFiles,
             remote   : [enabled : BOOLEAN, url : {"", "url"}],
             plugins  : Seq({"lint", "scan"}),
             rules    : Seq(Rule)]
    BY DEF PolicyRecord, LogLevels, LogFiles
  <2> QED
    BY <1>1, <2>1 DEF Settings
<1>5. AddSettings(s, path) = [logLevel |-> a, logFile |-> b]
  BY <1>1, <1>2 DEF AddSettings
<1> QED
  <2>1. a \in LogLevels /\ b \in LogFiles
    BY <1>3, <1>4
  <2> QED
    BY <1>5, <2>1 DEF Settings

LEMMA SettingsFold ==
    ASSUME disk \in DiskSpace, NEW n \in Nat, NEW paths \in [1..n -> Paths],
           \A k \in 1..n : Readable(paths[k])
    PROVE  \E h \in [0..n -> Settings] :
              /\ h[0] = NoSettings
              /\ \A k \in 1..n : h[k] = AddSettings(h[k - 1], paths[k])
              /\ MergeSettings(paths) = h[n]
<1> DEFINE base == NoSettings
           move == [k \in 1..n |-> [x \in Settings |-> AddSettings(x, paths[k])]]
           iter == CHOOSE f : f = [s \in SUBSET (1..n) |->
               IF s = {} THEN base ELSE AddSettings(f[s \ {Max(s)}], paths[Max(s)])]
<1>1. DOMAIN paths = 1..n /\ \A k \in 1..n : paths[k] \in Paths
  OBVIOUS
<1>2. move \in [1..n -> [Settings -> Settings]]
  <2>1. \A k \in 1..n, x \in Settings : AddSettings(x, paths[k]) \in Settings
    BY <1>1, AddSettingsType
  <2> QED
    BY <2>1
<1>3. \A k \in 1..n, x \in Settings : move[k][x] = AddSettings(x, paths[k])
  OBVIOUS
<1>4. MergeSettings(paths) = iter[1..n]
  BY <1>1 DEF MergeSettings, FoldLeft, MapThenFoldSet, NoSettings, Unset
<1>5. base \in Settings
  <2>1. Unset \in LogLevels /\ Unset \in LogFiles
    BY DEF Unset, LogLevels, LogFiles
  <2> QED
    BY <2>1 DEF NoSettings, Settings
<1> HIDE DEF base, move, iter
<1>6. PICK it \in [SUBSET (1..n) -> Settings] : FoldsTo(it, base, n, move)
  BY <1>2, <1>5, Folds
<1>7. \A s \in SUBSET (1..n) : s # {} => Max(s) \in 1..n /\ s \ {Max(s)} \in SUBSET (1..n)
  <2>1. \A s \in SUBSET (1..n) : s \in SUBSET (0..n)
    OBVIOUS
  <2> QED
    BY <2>1, MaxOf
<1>8. it = [s \in SUBSET (1..n) |->
               IF s = {} THEN base ELSE AddSettings(it[s \ {Max(s)}], paths[Max(s)])]
  BY <1>3, <1>5, <1>6, <1>7 DEF FoldsTo
<1>9. iter = [s \in SUBSET (1..n) |->
               IF s = {} THEN base ELSE AddSettings(iter[s \ {Max(s)}], paths[Max(s)])]
  BY <1>8 DEF iter
<1>10. iter[{}] = base
  <2>1. {} \in SUBSET (1..n)
    OBVIOUS
  <2> QED
    BY <1>9, <2>1
<1>11. ASSUME NEW k \in 1..n, iter[1..(k - 1)] \in Settings
       PROVE  iter[1..k] = move[k][iter[1..(k - 1)]]
  <2>1. /\ 1..k # {} /\ 1..k \in SUBSET (1..n)
        /\ Max(1..k) = k /\ (1..k) \ {k} = 1..(k - 1)
    BY FirstOnes
  <2>2. iter[1..k] = AddSettings(iter[1..(k - 1)], paths[k])
    BY <1>9, <2>1
  <2> QED
    BY <1>3, <1>11, <2>2
<1>12. Moves(iter, Settings, n, move)
  BY <1>11 DEF Moves
<1>13. PICK h \in [0..n -> Settings] : History(h, base, n, move, iter[1..n])
  BY <1>2, <1>5, <1>10, <1>12, Beginnings
<1>14. \A k \in 1..n : h[k - 1] \in Settings /\ h[k] = AddSettings(h[k - 1], paths[k])
  <2>1. \A k \in 1..n : k - 1 \in 0..n
    OBVIOUS
  <2> QED
    BY <1>3, <1>13, <2>1 DEF History
<1>15. h[0] = base /\ h[n] = iter[1..n]
  BY <1>13 DEF History
<1> QED
  BY <1>4, <1>14, <1>15 DEF base

LEMMA SettingsMerged ==
    ASSUME disk \in DiskSpace, NEW n \in Nat, NEW paths \in [1..n -> Paths],
           \A k \in 1..n : Readable(paths[k]),
           NEW result, result = MergeSettings(paths), NEW k \in 1..n
    PROVE  /\ disk[paths[k]].logLevel # Unset
              /\ (\A j \in 1..(k - 1) : disk[paths[j]].logLevel = Unset)
              => result.logLevel = disk[paths[k]].logLevel
           /\ disk[paths[k]].logFile # Unset
              /\ (\A j \in 1..(k - 1) : disk[paths[j]].logFile = Unset)
              => result.logFile = disk[paths[k]].logFile
<1>1. PICK h \in [0..n -> Settings] :
         /\ h[0] = NoSettings
         /\ \A m \in 1..n : h[m] = AddSettings(h[m - 1], paths[m])
         /\ result = h[n]
  BY SettingsFold
<1>2. \A a, b : FirstGiven(a, b) = FirstSet(a, b)
  BY DEF FirstGiven, FirstSet, Unset
<1>3. PICK levels : levels = [m \in 0..n |-> h[m].logLevel]
  OBVIOUS
<1>4. PICK files : files = [m \in 0..n |-> h[m].logFile]
  OBVIOUS
<1>5. PICK givenLevels : givenLevels = [m \in 1..n |-> disk[paths[m]].logLevel]
  OBVIOUS
<1>6. PICK givenFiles : givenFiles = [m \in 1..n |-> disk[paths[m]].logFile]
  OBVIOUS
<1>7. levels[0] = Unset /\ files[0] = Unset
  BY <1>1, <1>3, <1>4 DEF NoSettings
<1>8. ASSUME NEW m \in 1..n
      PROVE  /\ levels[m] = FirstSet(levels[m - 1], givenLevels[m])
             /\ files[m] = FirstSet(files[m - 1], givenFiles[m])
  <2>1. m \in 0..n /\ m - 1 \in 0..n
    OBVIOUS
  <2>2. /\ h[m].logLevel = FirstGiven(h[m - 1].logLevel, disk[paths[m]].logLevel)
        /\ h[m].logFile = FirstGiven(h[m - 1].logFile, disk[paths[m]].logFile)
    <3>1. h[m] = AddSettings(h[m - 1], paths[m])
      BY <1>1
    <3> QED
      BY <3>1 DEF AddSettings
  <2>3. levels[m] = h[m].logLevel /\ levels[m - 1] = h[m - 1].logLevel
        /\ files[m] = h[m].logFile /\ files[m - 1] = h[m - 1].logFile
    BY <1>3, <1>4, <2>1
  <2> QED
    BY <1>2, <1>5, <1>6, <2>2, <2>3
<1>9. levels[n] = result.logLevel /\ files[n] = result.logFile
  BY <1>1, <1>3, <1>4
<1>10. ASSUME disk[paths[k]].logLevel # Unset,
              \A j \in 1..(k - 1) : disk[paths[j]].logLevel = Unset
       PROVE  result.logLevel = disk[paths[k]].logLevel
  <2>1. givenLevels[k] # Unset /\ givenLevels[k] = disk[paths[k]].logLevel
        /\ \A j \in 1..(k - 1) : givenLevels[j] = Unset
    BY <1>5, <1>10
  <2>2. Keeping(levels, givenLevels, n) /\ SetFirst(givenLevels, k)
    BY <1>7, <1>8, <2>1 DEF Keeping, SetFirst
  <2>3. levels[n] = givenLevels[k]
    BY <2>2, FirstGivenKept
  <2> QED
    BY <1>9, <2>1, <2>3
<1>11. ASSUME disk[paths[k]].logFile # Unset,
              \A j \in 1..(k - 1) : disk[paths[j]].logFile = Unset
       PROVE  result.logFile = disk[paths[k]].logFile
  <2>1. givenFiles[k] # Unset /\ givenFiles[k] = disk[paths[k]].logFile
        /\ \A j \in 1..(k - 1) : givenFiles[j] = Unset
    BY <1>6, <1>11
  <2>2. Keeping(files, givenFiles, n) /\ SetFirst(givenFiles, k)
    BY <1>7, <1>8, <2>1 DEF Keeping, SetFirst
  <2>3. files[n] = givenFiles[k]
    BY <2>2, FirstGivenKept
  <2> QED
    BY <1>9, <2>1, <2>3
<1> QED
  BY <1>10, <1>11

(* The plugins of the k-th file that no earlier file gives. *)
Names(path) == Range(disk[path].plugins)
New(paths, k) ==
    {[name |-> m, file |-> paths[k]] :
        m \in {x \in Names(paths[k]) : \A j \in 1..(k - 1) : x \notin Names(paths[j])}}

LEMMA PluginsMerged ==
    ASSUME disk \in DiskSpace, NEW n \in Nat, NEW paths \in [1..n -> Paths],
           \A k \in 1..n : Readable(paths[k])
    PROVE  Range(MergePlugins(paths)) = UNION {New(paths, k) : k \in 1..n}
<1>1. PICK h \in [0..n -> Seq(Plugin)] :
         /\ h[0] = <<>>
         /\ \A k \in 1..n : h[k] = AddPlugins(h[k - 1], paths[k])
         /\ MergePlugins(paths) = h[n]
  BY MergePluginsFold
<1> DEFINE Good(k) == /\ Range(h[k]) = UNION {New(paths, j) : j \in 1..k}
                      /\ \A m : NameIn(m, h[k]) <=> \E j \in 1..k : m \in Names(paths[j])
           T == {k \in 0..n : Good(k)}
<1>2. Good(0)
  <2>1. Range(h[0]) = {}
    BY <1>1 DEF Range
  <2> QED
    BY <2>1 DEF NameIn
<1>3. ASSUME NEW k \in 1..n, Good(k - 1) PROVE Good(k)
  <2>1. PICK path \in Paths : path = paths[k]
    OBVIOUS
  <2>2. PICK found \in Seq(Plugin) : found = h[k - 1]
    BY <1>1
  <2>3. PICK new : new = {[name |-> m, file |-> path] :
                              m \in {x \in Range(disk[path].plugins) : ~NameIn(x, found)}}
    OBVIOUS
  <2>4. Readable(path) /\ h[k] = AddPlugins(found, path)
    BY <1>1, <2>1, <2>2
  <2>5. Range(h[k]) = Range(found) \cup new
    BY <2>3, <2>4, AddPluginsResult
  <2>6. \A m : NameIn(m, found) <=> \E j \in 1..(k - 1) : m \in Names(paths[j])
    BY <1>3, <2>2
  <2>7. new = New(paths, k)
    BY <2>1, <2>3, <2>6 DEF New, Names
  <2>8. 1..k = (1..(k - 1)) \cup {k}
    OBVIOUS
  <2>9. Range(found) = UNION {New(paths, j) : j \in 1..(k - 1)}
    BY <1>3, <2>2
  <2>10. Range(h[k]) = UNION {New(paths, j) : j \in 1..k}
    BY <2>5, <2>7, <2>8, <2>9
  <2>11. ASSUME NEW m PROVE NameIn(m, h[k]) <=> \E j \in 1..k : m \in Names(paths[j])
    <3>1. NameIn(m, h[k]) <=> NameIn(m, found) \/ \E x \in new : x.name = m
      BY <2>5 DEF NameIn
    <3>2. (\E x \in new : x.name = m) <=> m \in Names(path) /\ ~NameIn(m, found)
      <4>1. ASSUME NEW x \in new PROVE x.name \in Names(path) /\ ~NameIn(x.name, found)
        BY <2>3 DEF Names
      <4>2. ASSUME m \in Names(path), ~NameIn(m, found) PROVE \E x \in new : x.name = m
        <5>1. [name |-> m, file |-> path] \in new
          BY <2>3, <4>2 DEF Names
        <5> QED
          BY <5>1
      <4> QED
        BY <4>1, <4>2
    <3> QED
      BY <2>1, <2>6, <2>8, <3>1, <3>2
  <2> QED
    BY <2>10, <2>11
<1> HIDE DEF Good
<1>4. 0 \in T /\ \A k \in 1..n : k - 1 \in T => k \in T
  BY <1>2, <1>3
<1> HIDE DEF T
<1>5. 0..n \subseteq T
  BY <1>4, UpTo
<1>6. Good(n)
  BY <1>5 DEF T
<1> QED
  BY <1>1, <1>6 DEF Good

(* With no file twice among them, a plugin of a file is in the result just *)
(* when no earlier file gives it.                                          *)
LEMMA PluginOfFirst ==
    ASSUME NEW n \in Nat, NEW paths \in [1..n -> Paths], Distinct(paths),
           NEW k \in 1..n, NEW m \in Names(paths[k])
    PROVE  (\A j \in 1..(k - 1) : m \notin Names(paths[j]))
           <=> [name |-> m, file |-> paths[k]] \in UNION {New(paths, j) : j \in 1..n}
<1>1. ASSUME \A j \in 1..(k - 1) : m \notin Names(paths[j])
      PROVE  [name |-> m, file |-> paths[k]] \in UNION {New(paths, j) : j \in 1..n}
  <2>1. [name |-> m, file |-> paths[k]] \in New(paths, k)
    BY <1>1 DEF New
  <2> QED
    BY <2>1
<1>2. ASSUME [name |-> m, file |-> paths[k]] \in UNION {New(paths, j) : j \in 1..n}
      PROVE  \A j \in 1..(k - 1) : m \notin Names(paths[j])
  <2>1. PICK j \in 1..n : [name |-> m, file |-> paths[k]] \in New(paths, j)
    BY <1>2
  <2>2. /\ paths[j] = paths[k]
        /\ \A i \in 1..(j - 1) : m \notin Names(paths[i])
    BY <2>1 DEF New
  <2>3. j = k
    BY <2>2 DEF Distinct
  <2> QED
    BY <2>2, <2>3
<1> QED
  BY <1>1, <1>2

(* What SettingsByAuthority says of the k-th layer. *)
Authority(k, result) ==
    /\ disk[layers[k]].logLevel # Unset
       /\ (\A j \in 1..(k - 1) : disk[layers[j]].logLevel = Unset)
       => result.logLevel = disk[layers[k]].logLevel
    /\ disk[layers[k]].logFile # Unset
       /\ (\A j \in 1..(k - 1) : disk[layers[j]].logFile = Unset)
       => result.logFile = disk[layers[k]].logFile
    /\ \A m \in Names(layers[k]) :
          (\A j \in 1..(k - 1) : m \notin Names(layers[j]))
          <=> [name |-> m, file |-> layers[k]] \in Range(result.plugins)

Authorities == pc = "done" => \A k \in DOMAIN layers : Authority(k, policy)

LEMMA ByAuthority == SettingsByAuthority <=> Authorities
<1> SUFFICES ASSUME NEW k \in DOMAIN layers
             PROVE  Authority(k, policy) <=>
                LET file == disk[layers[k]]
                    Higher == {disk[layers[j]] : j \in 1..(k - 1)}
                IN /\ file.logLevel # "" /\ (\A h \in Higher : h.logLevel = "")
                          => policy.logLevel = file.logLevel
                   /\ file.logFile # "" /\ (\A h \in Higher : h.logFile = "")
                          => policy.logFile = file.logFile
                   /\ \A n \in Range(file.plugins) :
                          (\A h \in Higher : n \notin Range(h.plugins))
                          <=> [name |-> n, file |-> layers[k]] \in Range(policy.plugins)
  BY Zenon DEF SettingsByAuthority, Authorities
<1> DEFINE Higher == {disk[layers[j]] : j \in 1..(k - 1)}
<1>1. /\ (\A h \in Higher : h.logLevel = Unset)
            <=> \A j \in 1..(k - 1) : disk[layers[j]].logLevel = Unset
      /\ (\A h \in Higher : h.logFile = Unset)
            <=> \A j \in 1..(k - 1) : disk[layers[j]].logFile = Unset
      /\ \A n : (\A h \in Higher : n \notin Range(h.plugins))
                   <=> \A j \in 1..(k - 1) : n \notin Names(layers[j])
  BY DEF Names
<1> QED
  BY <1>1, Zenon DEF Authority, Unset, Names

LEMMA EachPlugin ==
    ASSUME disk \in DiskSpace, NEW path \in Paths, Readable(path)
    PROVE  \A m \in Names(path) : [name |-> m, file |-> path] \in Range(Plugins(path))
<1> TAKE m \in Names(path)
<1>1. PICK names : names = disk[path].plugins
  OBVIOUS
<1>2. PICK n \in Nat : /\ names \in [1..n -> {"lint", "scan"}]
                       /\ Plugins(path) \in [1..n -> Plugin]
                       /\ \A i \in 1..n : Plugins(path)[i] = [name |-> names[i], file |-> path]
  BY <1>1, PluginsType
<1>3. PICK i \in 1..n : m = names[i]
  BY <1>1, <1>2 DEF Names, Range
<1> QED
  BY <1>2, <1>3 DEF Range

LEMMA TakeSingleSettings ==
    ASSUME IInv, ResultInv, Apart, TakeSingle
    PROVE  SettingsByAuthority'
<1>1. /\ layers' = layers /\ disk' = disk /\ Len(layers) <= 1 /\ layers \in Seq(Paths)
      /\ disk \in DiskSpace
  BY DEF TakeSingle, IInv, RulesTypeOK
<1>2. PICK result : result = policy'
  OBVIOUS
<1>3. ASSUME NEW k \in DOMAIN layers PROVE Authority(k, result)
  <2>1. k = 1 /\ layers # <<>>
    BY <1>1
  <2>2. PICK path \in Paths : path = layers[1]
    BY <1>1, <2>1, ElementOfSeq
  <2>3. Readable(path)
    BY <2>1, <2>2 DEF ResultInv, Stages
  <2>4. /\ result.logLevel = disk[path].logLevel
        /\ result.logFile = disk[path].logFile
        /\ result.plugins = Plugins(path)
    BY <1>2, <2>1, <2>2 DEF TakeSingle
  <2>7. \A m \in Names(path) : [name |-> m, file |-> path] \in Range(Plugins(path))
    BY <1>1, <2>3, EachPlugin
  <2>8. 1..(k - 1) = {}
    BY <2>1
  <2> QED
    BY <2>1, <2>2, <2>4, <2>7, <2>8 DEF Authority
<1>4. \A k : Authority(k, result)' <=> Authority(k, result)
  BY <1>1 DEF Authority, Names
<1>5. \A k \in DOMAIN layers' : Authority(k, policy)'
  BY <1>1, <1>2, <1>3, <1>4 DEF Authority, Names
<1>6. Authorities'
  BY <1>5 DEF Authorities
<1> QED
  BY <1>6, ByAuthority, PTL

LEMMA CollectSettings ==
    ASSUME IInv, ResultInv, Apart, Collect
    PROVE  SettingsByAuthority'
<1>1. layers' = layers /\ disk' = disk
  BY DEF Collect
<1>2. PICK result : result = policy'
  OBVIOUS
<1>3. PICK settings : settings = MergeSettings(layers)
  OBVIOUS
<1>4. /\ result.logLevel = settings.logLevel
      /\ result.logFile = settings.logFile
      /\ result.plugins = MergePlugins(layers)
  <2>1. PICK rules :
           policy' = [name     |-> MergeName(layers),
                      logLevel |-> MergeSettings(layers).logLevel,
                      logFile  |-> MergeSettings(layers).logFile,
                      remote   |-> MergeRemote(layers),
                      plugins  |-> MergePlugins(layers),
                      rules    |-> rules]
    BY Zenon DEF Collect
  <2> QED
    BY <1>2, <1>3, <2>1
<1>5. PICK n \in Nat : /\ disk \in DiskSpace
                       /\ layers \in [1..n -> Paths]
                       /\ DOMAIN layers = 1..n
                       /\ \A k \in 1..n : Readable(layers[k])
  BY LayersType
<1>6. PICK paths \in [1..n -> Paths] : paths = layers
  BY <1>5
<1>7. Range(MergePlugins(paths)) = UNION {New(paths, j) : j \in 1..n}
  BY <1>5, <1>6, PluginsMerged
<1>8. Distinct(paths)
  BY <1>6 DEF Apart
<1>9. ASSUME NEW k \in 1..n PROVE Authority(k, result)
  <2>1. /\ disk[paths[k]].logLevel # Unset
              /\ (\A j \in 1..(k - 1) : disk[paths[j]].logLevel = Unset)
              => settings.logLevel = disk[paths[k]].logLevel
        /\ disk[paths[k]].logFile # Unset
              /\ (\A j \in 1..(k - 1) : disk[paths[j]].logFile = Unset)
              => settings.logFile = disk[paths[k]].logFile
    BY <1>3, <1>5, <1>6, SettingsMerged
  <2>2. \A m \in Names(paths[k]) :
           (\A j \in 1..(k - 1) : m \notin Names(paths[j]))
           <=> [name |-> m, file |-> paths[k]] \in UNION {New(paths, j) : j \in 1..n}
    BY <1>8, PluginOfFirst
  <2> QED
    BY <1>4, <1>6, <1>7, <2>1, <2>2 DEF Authority
<1>10. \A k \in DOMAIN layers' : Authority(k, policy)'
  BY <1>1, <1>2, <1>5, <1>9 DEF Authority, Names
<1>11. Authorities'
  BY <1>10 DEF Authorities
<1> QED
  BY <1>11, ByAuthority, PTL

LEMMA NextSettings ==
    IInv /\ ResultInv /\ Apart /\ SettingsByAuthority /\ [Next]_vars => SettingsByAuthority'
<1> SUFFICES ASSUME IInv, ResultInv, Apart, SettingsByAuthority, [Next]_vars
             PROVE  SettingsByAuthority'
  OBVIOUS
<1>1. CASE TakeSingle
  BY <1>1, TakeSingleSettings
<1>2. CASE Collect
  BY <1>2, CollectSettings
<1>3. CASE pc' # "done"
  BY <1>3 DEF SettingsByAuthority
<1>4. CASE UNCHANGED vars
  <2>1. UNCHANGED <<pc, disk, layers, policy>>
    BY <1>4 DEF vars
  <2>2. \A k, result : Authority(k, result)' <=> Authority(k, result)
    BY <2>1 DEF Authority, Names
  <2>3. Authorities'
    BY <2>1, <2>2, ByAuthority DEF Authorities, Authority, Names
  <2> QED
    BY <2>3, ByAuthority, PTL
<1>5. [Next]_vars => TakeSingle \/ Collect \/ pc' # "done" \/ UNCHANGED vars
  BY DEF Next, DiscoverConfigSources, LoadSource, StartMerge, AddRule, OverrideRule
<1> QED
  BY <1>1, <1>2, <1>3, <1>4, <1>5

(* Every setting and plugin of the result is that of the most              *)
(* authoritative file that gives it, for any files (mergeSettings and      *)
(* mergePlugins).                                                          *)
THEOREM AuthoritySettles == Spec => []SettingsByAuthority
<1>1. Init => Apart /\ SettingsByAuthority
  BY DEF Init, Apart, Distinct, SettingsByAuthority
<1> QED
  BY <1>1, NextApart, NextSettings, Invariance, ResultInvariance, PTL DEF Spec
==============================================================================
