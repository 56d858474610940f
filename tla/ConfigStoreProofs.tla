-------------------------- MODULE ConfigStoreProofs --------------------------
(***************************************************************************)
(* Proofs about ConfigStore for any rules, any number of them, and any     *)
(* initial file: of what every command writes, for any number of processes *)
(* at once, and of what can be recovered, for one process at a time.       *)
(***************************************************************************)
EXTENDS ConfigStore, SequenceTheorems, TLAPS

-----------------------------------------------------------------------------
(* What the changes of a policy in memory are. *)

(* Without leaves every other rule, in its order. *)
LEMMA WithoutDef ==
    ASSUME NEW rules \in Seq(Rule), NEW i \in DOMAIN rules, NEW w, w = Without(rules, i)
    PROVE  /\ w \in Seq(Rule)
           /\ Len(w) = Len(rules) - 1
           /\ \A j \in 1..Len(w) : w[j] = rules[IF j < i THEN j ELSE j + 1]
<1> DEFINE front == SubSeq(rules, 1, i - 1)
           back  == SubSeq(rules, i + 1, Len(rules))
<1>1. i \in 1..Len(rules) /\ Len(rules) \in Nat
  BY LenProperties
<1>2. /\ front \in Seq(Rule) /\ Len(front) = i - 1
      /\ \A j \in 1..(i - 1) : front[j] = rules[j]
  <2>1. \A j \in 1..(i - 1) : rules[j] \in Rule
    BY <1>1, ElementOfSeq
  <2>2. /\ front \in Seq(Rule)
        /\ Len(front) = IF 1 <= i - 1 THEN (i - 1) - 1 + 1 ELSE 0
        /\ \A j \in 1..((i - 1) - 1 + 1) : front[j] = rules[1 + j - 1]
    BY <1>1, <2>1, SubSeqProperties
  <2> QED
    BY <1>1, <2>2
<1>3. /\ back \in Seq(Rule) /\ Len(back) = Len(rules) - i
      /\ \A j \in 1..(Len(rules) - i) : back[j] = rules[i + j]
  <2>1. \A j \in (i + 1)..Len(rules) : rules[j] \in Rule
    BY <1>1, ElementOfSeq
  <2>2. /\ back \in Seq(Rule)
        /\ Len(back) = IF i + 1 <= Len(rules) THEN Len(rules) - (i + 1) + 1 ELSE 0
        /\ \A j \in 1..(Len(rules) - (i + 1) + 1) : back[j] = rules[(i + 1) + j - 1]
    BY <1>1, <2>1, SubSeqProperties
  <2> QED
    BY <1>1, <2>2
<1>4. w = front \o back
  BY DEF Without
<1> HIDE DEF front, back
<1>5. /\ w \in Seq(Rule) /\ Len(w) = Len(front) + Len(back)
      /\ \A j \in 1..(Len(front) + Len(back)) :
            w[j] = IF j <= Len(front) THEN front[j] ELSE back[j - Len(front)]
  <2>1. front \in Seq(Rule) /\ back \in Seq(Rule)
    BY <1>2, <1>3
  <2>2. /\ front \o back \in Seq(Rule) /\ Len(front \o back) = Len(front) + Len(back)
        /\ \A j \in 1..(Len(front) + Len(back)) :
              (front \o back)[j] = IF j <= Len(front) THEN front[j]
                                                      ELSE back[j - Len(front)]
    BY <2>1, ConcatProperties, Zenon
  <2> QED
    BY <1>4, <2>2, Zenon
<1>6. Len(w) = Len(rules) - 1
  BY <1>1, <1>2, <1>3, <1>5
<1>7. ASSUME NEW j \in 1..(Len(rules) - 1)
      PROVE  w[j] = rules[IF j < i THEN j ELSE j + 1]
  <2>1. w[j] = IF j <= i - 1 THEN front[j] ELSE back[j - (i - 1)]
    <3>1. Len(front) + Len(back) = Len(rules) - 1
      BY <1>1, <1>2, <1>3
    <3>2. w[j] = IF j <= Len(front) THEN front[j] ELSE back[j - Len(front)]
      BY <1>5, <1>7, <3>1
    <3> QED
      BY <1>2, <3>2
  <2>2. CASE j < i
    <3>1. j \in 1..(i - 1)
      BY <1>1, <2>2
    <3> QED
      BY <1>1, <1>2, <2>1, <2>2, <3>1
  <2>3. CASE ~(j < i)
    <3>1. j - (i - 1) \in 1..(Len(rules) - i) /\ i + (j - (i - 1)) = j + 1
      BY <1>1, <2>3
    <3>2. back[j - (i - 1)] = rules[j + 1]
      BY <1>3, <3>1
    <3> QED
      BY <1>1, <2>1, <2>3, <3>2
  <2> QED
    BY <2>2, <2>3
<1> QED
  BY <1>5, <1>6, <1>7

(* Two rules of a policy that loads have different ids, so it still loads  *)
(* without one of them, ...                                                *)
LEMMA WithoutLoads ==
    ASSUME NEW rules \in Seq(Rule), NEW i \in DOMAIN rules, Validate(rules)
    PROVE  Validate(Without(rules, i))
<1> PICK w : w = Without(rules, i)
  OBVIOUS
<1>1. /\ w \in Seq(Rule) /\ Len(w) = Len(rules) - 1
      /\ \A j \in 1..Len(w) : w[j] = rules[IF j < i THEN j ELSE j + 1]
  BY WithoutDef
<1>2. DOMAIN w = 1..Len(w) /\ DOMAIN rules = 1..Len(rules) /\ Len(rules) \in Nat
  BY <1>1, LenProperties
<1> DEFINE pos(j) == IF j < i THEN j ELSE j + 1
<1>3. \A j \in DOMAIN w : pos(j) \in DOMAIN rules /\ w[j] = rules[pos(j)]
  BY <1>1, <1>2
<1>4. \A j, k \in DOMAIN w : j # k => pos(j) # pos(k)
  BY <1>1, <1>2
<1> HIDE DEF pos
<1> QED
  BY <1>3, <1>4 DEF Validate

(* ... with a new one at its end, ...                                      *)
LEMMA AppendLoads ==
    ASSUME NEW rules \in Seq(Rule), NEW r \in Rule, Validate(rules),
           r.id # NoId, r.complete, r.severity \in Severities,
           \A i \in DOMAIN rules : rules[i].id # r.id
    PROVE  Validate(Append(rules, r))
<1> PICK w : w = Append(rules, r)
  OBVIOUS
<1>1. /\ w \in Seq(Rule) /\ Len(w) = Len(rules) + 1
      /\ w[Len(rules) + 1] = r
      /\ \A j \in 1..Len(rules) : w[j] = rules[j]
  BY AppendProperties
<1>2. DOMAIN w = 1..(Len(rules) + 1) /\ DOMAIN rules = 1..Len(rules) /\ Len(rules) \in Nat
  BY <1>1, LenProperties
<1>3. \A j \in DOMAIN w : j \in DOMAIN rules \/ j = Len(rules) + 1
  BY <1>2
<1> QED
  BY <1>1, <1>2, <1>3 DEF Validate

(* ... and with one changed that keeps its id.                             *)
LEMMA ExceptLoads ==
    ASSUME NEW rules \in Seq(Rule), NEW i \in DOMAIN rules, NEW r \in Rule, Validate(rules),
           r.id = rules[i].id, r.complete, r.severity \in Severities
    PROVE  Validate([rules EXCEPT ![i] = r])
<1> PICK w : w = [rules EXCEPT ![i] = r]
  OBVIOUS
<1>1. /\ DOMAIN w = DOMAIN rules
      /\ w[i] = r
      /\ \A j \in DOMAIN rules \ {i} : w[j] = rules[j]
  OBVIOUS
<1>2. \A j \in DOMAIN w : w[j].id = rules[j].id
  BY <1>1
<1> QED
  BY <1>1, <1>2 DEF Validate

(* A rule replaced by one with the same id is one change. *)
LEMMA ExceptIsOneChange ==
    ASSUME NEW rules \in Seq(Rule), NEW i \in DOMAIN rules, NEW r \in Rule,
           r.id = rules[i].id
    PROVE  /\ [rules EXCEPT ![i] = r] \in Seq(Rule)
           /\ OneChange(rules, [rules EXCEPT ![i] = r])
<1> PICK w : w = [rules EXCEPT ![i] = r]
  OBVIOUS
<1>1. w \in Seq(Rule)
  BY ExceptSeq
<1>2. /\ DOMAIN w = DOMAIN rules
      /\ w[i] = r
      /\ \A j \in DOMAIN rules \ {i} : w[j] = rules[j]
  OBVIOUS
<1>3. OneChange(rules, w)
  BY <1>2 DEF OneChange
<1> QED
  BY <1>1, <1>3

LEMMA AppendIsOneChange ==
    ASSUME NEW rules \in Seq(Rule), NEW r \in Rule
    PROVE  /\ Append(rules, r) \in Seq(Rule)
           /\ OneChange(rules, Append(rules, r))
<1> PICK w : w = Append(rules, r)
  OBVIOUS
<1>1. /\ w \in Seq(Rule) /\ Len(w) = Len(rules) + 1
      /\ \A j \in 1..Len(rules) : w[j] = rules[j]
  BY AppendProperties
<1>2. DOMAIN rules = 1..Len(rules)
  BY LenProperties
<1>3. OneChange(rules, w)
  BY <1>1, <1>2 DEF OneChange
<1> QED
  BY <1>1, <1>3

LEMMA WithoutIsOneChange ==
    ASSUME NEW rules \in Seq(Rule), NEW i \in DOMAIN rules
    PROVE  /\ Without(rules, i) \in Seq(Rule)
           /\ OneChange(rules, Without(rules, i))
<1>1. Without(rules, i) \in Seq(Rule)
  BY WithoutDef
<1>2. OneChange(rules, Without(rules, i))
  BY Zenon DEF OneChange, Without
<1> QED
  BY <1>1, <1>2

(* The position that an argument names is one of the policy's. *)
LEMMA FoundInRange ==
    ASSUME NEW rules, NEW id \in RuleIds, NEW i \in FindRuleIndex(rules, id)
    PROVE  i \in DOMAIN rules
BY DEF FindRuleIndex

(* Every change of a policy that loads is one change, and one that --json  *)
(* or the flags did not make loads again.                                  *)
LEMMA Modification ==
    ASSUME NEW p \in Procs, policy[p] \in Seq(Rule), Validate(policy[p]), ModifyPolicy(p)
    PROVE  \E command \in Commands \ {"none", "setup"}, rules \in Seq(Rule) :
              /\ Change(p, command, rules)
              /\ OneChange(policy[p], rules)
              /\ command \notin {"json", "flags"} => Validate(rules)
<1>1. CASE AddJSON(p)
  <2>1. PICK r \in RuleSpace : Change(p, "json", Append(policy[p], r))
    BY <1>1 DEF AddJSON
  <2>2. r \in Rule
    BY RuleSpaceAssumption
  <2> QED
    BY <2>1, <2>2, AppendIsOneChange DEF Commands
<1>2. CASE AddFlags(p)
  <2>1. PICK r \in RuleSpace : Change(p, "flags", Append(policy[p], r))
    BY <1>2 DEF AddFlags
  <2>2. r \in Rule
    BY RuleSpaceAssumption
  <2> QED
    BY <2>1, <2>2, AppendIsOneChange DEF Commands
<1>3. CASE AddWizard(p)
  <2>1. PICK r \in RuleSpace :
           /\ r.id # NoId /\ r.complete /\ r.severity \in Severities
           /\ \A i \in DOMAIN policy[p] : policy[p][i].id # r.id
           /\ Change(p, "wizard", Append(policy[p], r))
    BY <1>3 DEF AddWizard
  <2>2. r \in Rule
    BY RuleSpaceAssumption
  <2>3. Validate(Append(policy[p], r))
    BY <2>1, <2>2, AppendLoads
  <2> QED
    BY <2>1, <2>2, <2>3, AppendIsOneChange DEF Commands
<1>4. CASE Edit(p)
  <2>1. PICK id \in RuleIds : \E i \in FindRuleIndex(policy[p], id), behavior \in Behaviors :
           Change(p, "edit",
                  [policy[p] EXCEPT ![i] = [@ EXCEPT !.enabled = behavior.enabled,
                                                     !.severity = behavior.severity,
                                                     !.priority = behavior.priority]])
    BY <1>4 DEF Edit
  <2>2. PICK i \in FindRuleIndex(policy[p], id), behavior \in Behaviors :
           Change(p, "edit",
                  [policy[p] EXCEPT ![i] = [@ EXCEPT !.enabled = behavior.enabled,
                                                     !.severity = behavior.severity,
                                                     !.priority = behavior.priority]])
    BY <2>1
  <2>3. i \in DOMAIN policy[p]
    BY FoundInRange
  <2> DEFINE r == [policy[p][i] EXCEPT !.enabled = behavior.enabled,
                                       !.severity = behavior.severity,
                                       !.priority = behavior.priority]
  <2>4. policy[p][i] \in Rule /\ policy[p][i].complete
    BY <2>3, ElementOfSeq, LenProperties DEF Validate
  <2>5. /\ behavior.enabled \in BOOLEAN /\ behavior.severity \in Severities
        /\ behavior.priority \in Int
    <3>1. behavior \in [enabled : BOOLEAN, severity : Severities, priority : 1..100]
      BY BehaviorsAssumption
    <3>2. behavior.priority \in 1..100
      BY <3>1
    <3>3. behavior.enabled \in BOOLEAN /\ behavior.severity \in Severities
      BY <3>1, Zenon
    <3>4. \A n \in 1..100 : n \in Int
      OBVIOUS
    <3> QED
      BY <3>2, <3>3, <3>4, Zenon
  <2>6. /\ r \in Rule /\ r.id = policy[p][i].id
        /\ r.complete /\ r.severity \in Severities
    BY <2>4, <2>5 DEF Rule
  <2>7. Change(p, "edit", [policy[p] EXCEPT ![i] = r])
    BY <2>2
  <2> HIDE DEF r
  <2>8. /\ [policy[p] EXCEPT ![i] = r] \in Seq(Rule)
        /\ OneChange(policy[p], [policy[p] EXCEPT ![i] = r])
    BY <2>3, <2>6, ExceptIsOneChange
  <2>9. Validate([policy[p] EXCEPT ![i] = r])
    BY <2>3, <2>6, ExceptLoads
  <2> QED
    BY <2>7, <2>8, <2>9 DEF Commands
<1>5. CASE Delete(p)
  <2>1. PICK id \in RuleIds : \E i \in FindRuleIndex(policy[p], id) :
           Change(p, "delete", Without(policy[p], i))
    BY <1>5 DEF Delete
  <2>2. PICK i \in FindRuleIndex(policy[p], id) :
           Change(p, "delete", Without(policy[p], i))
    BY <2>1
  <2>3. i \in DOMAIN policy[p]
    BY FoundInRange
  <2>4. Without(policy[p], i) \in Seq(Rule) /\ OneChange(policy[p], Without(policy[p], i))
    BY <2>3, WithoutIsOneChange
  <2>5. Validate(Without(policy[p], i))
    BY <2>3, WithoutLoads
  <2> QED
    BY <2>2, <2>4, <2>5 DEF Commands
<1>6. CASE Toggle(p)
  <2>1. PICK id \in RuleIds : \E i \in FindRuleIndex(policy[p], id) :
           Change(p, "toggle", [policy[p] EXCEPT ![i].enabled = ~@])
    BY <1>6 DEF Toggle
  <2>2. PICK i \in FindRuleIndex(policy[p], id) :
           Change(p, "toggle", [policy[p] EXCEPT ![i].enabled = ~@])
    BY <2>1
  <2>3. i \in DOMAIN policy[p]
    BY FoundInRange
  <2> DEFINE r == [policy[p][i] EXCEPT !.enabled = ~@]
  <2>4. /\ policy[p][i] \in Rule /\ policy[p][i].complete
        /\ policy[p][i].severity \in Severities
    BY <2>3, ElementOfSeq, LenProperties DEF Validate
  <2>5. /\ r \in Rule /\ r.id = policy[p][i].id
        /\ r.complete /\ r.severity \in Severities
    BY <2>4 DEF Rule
  <2>6. Change(p, "toggle", [policy[p] EXCEPT ![i] = r])
    BY <2>2
  <2> HIDE DEF r
  <2>7. /\ [policy[p] EXCEPT ![i] = r] \in Seq(Rule)
        /\ OneChange(policy[p], [policy[p] EXCEPT ![i] = r])
    BY <2>3, <2>5, ExceptIsOneChange
  <2>8. Validate([policy[p] EXCEPT ![i] = r])
    BY <2>3, <2>5, ExceptLoads
  <2> QED
    BY <2>6, <2>7, <2>8 DEF Commands
<1> QED
  BY <1>1, <1>2, <1>3, <1>4, <1>5, <1>6 DEF ModifyPolicy

-----------------------------------------------------------------------------
(* Types, and what each command is about to write. *)

(* Where a process is says what it knows of the policy it holds. *)
Vetted(p) ==
    /\ pc[p] = "idle" => policy[p] = <<>>
    /\ pc[p] \in {"idle", "change"} => cmd[p] = "none"
    /\ pc[p] = "install" => cmd[p] = "setup"
    /\ pc[p] \in {"backup", "cutBackup", "fillBackup"} => cmd[p] # "setup"
    /\ cmd[p] \notin {"json", "flags"} => Validate(policy[p])

VettedInv == TypeOK /\ \A p \in Procs : Vetted(p)

LEMMA FileTypes ==
    /\ Absent \in File /\ Empty \in File /\ Garbled \in File
    /\ \A rules \in Seq(Rule) : Text(rules) \in File /\ Text(rules).rules = rules
    /\ \A file \in File : file.rules \in Seq(Rule)
BY DEF Absent, Empty, Garbled, Text, File

(* A written file is a file, and so is one written in part. *)
LEMMA WrittenType ==
    ASSUME NEW file \in File, NEW data \in File, NEW f \in Written(file, data)
    PROVE  f \in File
<1>1. CASE f \in {file, data, Garbled}
  BY <1>1, FileTypes
<1>2. CASE \E k \in DOMAIN file.rules :
              f = Text(data.rules \o SubSeq(file.rules, k, Len(file.rules)))
  <2>1. PICK k \in DOMAIN file.rules :
           f = Text(data.rules \o SubSeq(file.rules, k, Len(file.rules)))
    BY <1>2
  <2>2. file.rules \in Seq(Rule) /\ data.rules \in Seq(Rule)
    BY FileTypes
  <2>3. k \in 1..Len(file.rules) /\ Len(file.rules) \in Nat
    BY <2>2, LenProperties
  <2>4. \A i \in k..Len(file.rules) : file.rules[i] \in Rule
    BY <2>2, <2>3, ElementOfSeq
  <2>5. SubSeq(file.rules, k, Len(file.rules)) \in Seq(Rule)
    BY <2>3, <2>4, SubSeqProperties
  <2>6. data.rules \o SubSeq(file.rules, k, Len(file.rules)) \in Seq(Rule)
    BY <2>2, <2>5, ConcatProperties
  <2> QED
    BY <2>1, <2>6, FileTypes
<1> QED
  BY <1>1, <1>2 DEF Written

LEMMA PartType ==
    ASSUME NEW data \in File, NEW f \in Part(data)
    PROVE  f \in File
<1>1. CASE f \in {Empty, Garbled}
  BY <1>1, FileTypes
<1>2. CASE \E k \in DOMAIN data.rules : f = Text(SubSeq(data.rules, 1, k - 1))
  <2>1. PICK k \in DOMAIN data.rules : f = Text(SubSeq(data.rules, 1, k - 1))
    BY <1>2
  <2>2. data.rules \in Seq(Rule) /\ k \in 1..Len(data.rules) /\ Len(data.rules) \in Nat
    BY FileTypes, LenProperties
  <2>3. \A i \in 1..(k - 1) : data.rules[i] \in Rule
    BY <2>2, ElementOfSeq
  <2>4. SubSeq(data.rules, 1, k - 1) \in Seq(Rule)
    BY <2>2, <2>3, SubSeqProperties
  <2> QED
    BY <2>1, <2>4, FileTypes
<1> QED
  BY <1>1, <1>2 DEF Part

LEMMA InitVetted == Init => VettedInv
<1> SUFFICES ASSUME Init PROVE VettedInv
  OBVIOUS
<1>1. main \in File /\ committed \in File
  BY InitialFilesAssumption DEF Init
<1>2. <<>> \in Seq(Rule) /\ Validate(<<>>)
  BY DEF Validate
<1>3. TypeOK
  BY <1>1, <1>2, FileTypes DEF Init, TypeOK, Commands, Causes
<1>4. ASSUME NEW p \in Procs PROVE Vetted(p)
  BY <1>2 DEF Init, Vetted
<1> QED
  BY <1>3, <1>4 DEF VettedInv

(* A process that ends knows nothing and needs to know nothing. *)
LEMMA EndVetted ==
    ASSUME VettedInv, NEW p \in Procs, End(p)
    PROVE  /\ pc' \in [Procs -> {"idle", "change", "install", "backup", "cutBackup",
                                 "fillBackup", "cut", "fill"}]
           /\ cmd' \in [Procs -> Commands]
           /\ policy' \in [Procs -> Seq(Rule)]
           /\ old' \in [Procs -> File]
           /\ \A q \in Procs : Vetted(q)'
<1>1. <<>> \in Seq(Rule) /\ Validate(<<>>) /\ Absent \in File /\ "none" \in Commands
  BY FileTypes DEF Validate, Commands
<1>2. ASSUME NEW q \in Procs PROVE Vetted(q)'
  BY <1>1 DEF VettedInv, TypeOK, Vetted, End
<1> QED
  BY <1>1, <1>2 DEF VettedInv, TypeOK, End

(* The steps that move one process on without changing its policy or       *)
(* command.                                                                *)
LEMMA GoVetted ==
    ASSUME VettedInv, NEW p \in Procs, NEW from, NEW to, Go(p, from, to),
           to \in {"cutBackup", "fillBackup", "cut", "fill"},
           to \in {"cutBackup", "fillBackup"} => from \in {"backup", "cutBackup"},
           UNCHANGED <<cmd, policy>>
    PROVE  /\ pc' \in [Procs -> {"idle", "change", "install", "backup", "cutBackup",
                                 "fillBackup", "cut", "fill"}]
           /\ \A q \in Procs : Vetted(q)'
<1>1. ASSUME NEW q \in Procs PROVE Vetted(q)'
  BY DEF VettedInv, TypeOK, Vetted, Go, Validate
<1> QED
  BY <1>1 DEF VettedInv, TypeOK, Go

LEMMA LoadVetted ==
    ASSUME VettedInv, NEW p \in Procs, LoadLocalConfig(p)
    PROVE  VettedInv'
<1>1. main.rules \in Seq(Rule) /\ Validate(main.rules)
  BY FileTypes DEF VettedInv, TypeOK, LoadLocalConfig, Loads
<1>2. TypeOK'
  BY <1>1 DEF VettedInv, TypeOK, LoadLocalConfig, Go
<1>3. ASSUME NEW q \in Procs PROVE Vetted(q)'
  BY <1>1 DEF VettedInv, TypeOK, Vetted, LoadLocalConfig, Go
<1> QED
  BY <1>2, <1>3 DEF VettedInv

LEMMA ModifyVetted ==
    ASSUME VettedInv, NEW p \in Procs, ModifyPolicy(p)
    PROVE  VettedInv'
<1>1. policy[p] \in Seq(Rule) /\ Validate(policy[p])
  BY DEF VettedInv, TypeOK, Vetted, ModifyPolicy, AddJSON, AddFlags, AddWizard, Edit,
         Delete, Toggle, Change, Go
<1>2. PICK command \in Commands \ {"none", "setup"}, rules \in Seq(Rule) :
         /\ Change(p, command, rules)
         /\ command \notin {"json", "flags"} => Validate(rules)
  BY <1>1, Modification
<1>3. TypeOK'
  BY <1>2 DEF VettedInv, TypeOK, Change, Go
<1>4. ASSUME NEW q \in Procs PROVE Vetted(q)'
  BY <1>2 DEF VettedInv, TypeOK, Vetted, Change, Go
<1> QED
  BY <1>3, <1>4 DEF VettedInv

LEMMA TakeVetted ==
    ASSUME VettedInv, NEW p \in Procs, TakeRule(p)
    PROVE  VettedInv'
<1>1. PICK r \in ShippedRules :
         /\ \A i \in DOMAIN policy[p] : policy[p][i].id # r.id
         /\ policy' = [policy EXCEPT ![p] = Append(@, r)]
  BY DEF TakeRule
<1>2. /\ r \in Rule /\ r.id # NoId /\ r.complete /\ r.severity \in Severities
  BY ShippedAssumption
<1>3. /\ policy[p] \in Seq(Rule) /\ Validate(policy[p])
      /\ cmd[p] = "setup"
  BY DEF VettedInv, TypeOK, Vetted, TakeRule
<1>4. Validate(Append(policy[p], r)) /\ Append(policy[p], r) \in Seq(Rule)
  BY <1>1, <1>2, <1>3, AppendLoads, AppendIsOneChange
<1>5. TypeOK'
  BY <1>1, <1>4 DEF VettedInv, TypeOK, TakeRule
<1>6. ASSUME NEW q \in Procs PROVE Vetted(q)'
  BY <1>1, <1>3, <1>4 DEF VettedInv, TypeOK, Vetted, TakeRule
<1> QED
  BY <1>5, <1>6 DEF VettedInv

LEMMA VettedStep ==
    ASSUME VettedInv, [Next]_vars
    PROVE  VettedInv'
<1>1. CASE UNCHANGED vars
  BY <1>1 DEF VettedInv, TypeOK, Vetted, vars, Validate
<1>2. CASE Next
  <2>1. PICK p \in Procs :
           \/ LoadLocalConfig(p) \/ ModifyPolicy(p)
           \/ ReadOld(p) \/ CutBackup(p) \/ FillBackup(p) \/ BackupFails(p)
           \/ StartSetup(p) \/ TakeRule(p) \/ Install(p)
           \/ Cut(p) \/ Fill(p) \/ FillFails(p) \/ Crash(p)
    BY <1>2 DEF Next
  <2>2. CASE LoadLocalConfig(p)
    BY <2>2, LoadVetted
  <2>3. CASE ModifyPolicy(p)
    BY <2>3, ModifyVetted
  <2>4. CASE ReadOld(p)
    BY <2>4, GoVetted DEF VettedInv, TypeOK, ReadOld
  <2>5. CASE CutBackup(p)
    BY <2>5, GoVetted, FileTypes DEF VettedInv, TypeOK, CutBackup
  <2>6. CASE FillBackup(p)
    BY <2>6, GoVetted, WrittenType DEF VettedInv, TypeOK, FillBackup
  <2>7. CASE BackupFails(p)
    BY <2>7, GoVetted, WrittenType, PartType DEF VettedInv, TypeOK, BackupFails
  <2>8. CASE StartSetup(p)
    <3>1. TypeOK'
      BY <2>8 DEF VettedInv, TypeOK, StartSetup, Go, Commands
    <3>2. ASSUME NEW q \in Procs PROVE Vetted(q)'
      BY <2>8 DEF VettedInv, TypeOK, Vetted, StartSetup, Go, Validate
    <3> QED
      BY <3>1, <3>2 DEF VettedInv
  <2>9. CASE TakeRule(p)
    BY <2>9, TakeVetted
  <2>10. CASE Install(p)
    BY <2>10, GoVetted DEF VettedInv, TypeOK, Install
  <2>11. CASE Cut(p)
    BY <2>11, GoVetted, FileTypes DEF VettedInv, TypeOK, Cut, Causes
  <2>12. CASE Fill(p)
    <3>1. Text(policy[p]) \in File
      BY FileTypes DEF VettedInv, TypeOK
    <3> QED
      BY <2>12, <3>1, EndVetted, WrittenType DEF VettedInv, TypeOK, Fill, Causes
  <2>13. CASE FillFails(p)
    <3>1. Text(policy[p]) \in File
      BY FileTypes DEF VettedInv, TypeOK
    <3>2. lossy' \in BOOLEAN
      BY <2>13 DEF VettedInv, TypeOK, FillFails, Loads, Validate
    <3> QED
      BY <2>13, <3>1, <3>2, EndVetted, WrittenType, PartType
         DEF VettedInv, TypeOK, FillFails, Causes
  <2>14. CASE Crash(p)
    BY <2>14, EndVetted DEF VettedInv, TypeOK, Crash, Causes
  <2> QED
    BY <2>1, <2>2, <2>3, <2>4, <2>5, <2>6, <2>7, <2>8, <2>9, <2>10, <2>11, <2>12, <2>13, <2>14
<1> QED
  BY <1>1, <1>2

THEOREM VettedAlways == Spec => []VettedInv
<1>1. VettedInv /\ [Next]_vars => VettedInv'
  BY VettedStep
<1> QED
  BY InitVetted, <1>1, PTL DEF Spec

(* The files and what the processes hold are always typed. *)
THEOREM StoreTyped == Spec => []TypeOK
<1>1. VettedInv => TypeOK
  BY DEF VettedInv
<1> QED
  BY VettedAlways, <1>1, PTL

-----------------------------------------------------------------------------
(* Why a config does not load. *)

Writing(p) == pc[p] = "fill"

(* Without a cause, the file loads, or it is empty and one process writes. *)
CauseKnown ==
    cause = "none" =>
        \/ Loads(main) /\ \A p \in Procs : ~Writing(p)
        \/ /\ main = Empty
           /\ \E p \in Procs : Writing(p) /\ \A q \in Procs \ {p} : ~Writing(q)

(* To an empty file the data is written as it is. *)
LEMMA WrittenToEmpty == \A data : Written(Empty, data) = {data}
BY DEF Written

(* Where the same processes write, nothing changes. *)
LEMMA CauseFrame ==
    ASSUME CauseKnown, UNCHANGED <<main, cause>>,
           \A q \in Procs : Writing(q)' <=> Writing(q)
    PROVE  CauseKnown'
BY DEF CauseKnown, Loads, Validate

LEMMA CauseStep ==
    ASSUME VettedInv, CauseKnown, [Next]_vars
    PROVE  CauseKnown'
<1>0. pc \in [Procs -> {"idle", "change", "install", "backup", "cutBackup", "fillBackup",
                        "cut", "fill"}]
  BY DEF VettedInv, TypeOK
<1>1. CASE UNCHANGED vars
  BY <1>1, CauseFrame DEF vars, Writing
<1>2. CASE Next
  <2>1. PICK p \in Procs :
           \/ LoadLocalConfig(p) \/ ModifyPolicy(p)
           \/ ReadOld(p) \/ CutBackup(p) \/ FillBackup(p) \/ BackupFails(p)
           \/ StartSetup(p) \/ TakeRule(p) \/ Install(p)
           \/ Cut(p) \/ Fill(p) \/ FillFails(p) \/ Crash(p)
    BY <1>2 DEF Next
  <2>2. ASSUME NEW from, NEW to, Go(p, from, to), from # "fill", to # "fill",
               UNCHANGED <<main, cause>>
        PROVE  CauseKnown'
    BY <1>0, <2>2, CauseFrame DEF Go, Writing
  <2>3. CASE LoadLocalConfig(p) \/ ReadOld(p) \/ CutBackup(p) \/ FillBackup(p)
                \/ BackupFails(p) \/ StartSetup(p) \/ Install(p)
    BY <2>2, <2>3 DEF LoadLocalConfig, ReadOld, CutBackup, FillBackup, BackupFails,
                      StartSetup, Install
  <2>4. CASE ModifyPolicy(p)
    BY <2>2, <2>4 DEF ModifyPolicy, AddJSON, AddFlags, AddWizard, Edit, Delete, Toggle, Change
  <2>5. CASE TakeRule(p)
    BY <2>5, CauseFrame DEF TakeRule, Writing
  <2>6. CASE Cut(p)
    <3>1. /\ main' = Empty /\ Writing(p)'
          /\ cause' = "none" => \A q \in Procs \ {p} : ~Writing(q)
      BY <1>0, <2>6 DEF Cut, Go, Writing
    <3>2. \A q \in Procs \ {p} : pc'[q] = pc[q]
      BY <1>0, <2>6 DEF Cut, Go
    <3> QED
      BY <3>1, <3>2 DEF CauseKnown, Writing
  <2>7. CASE Fill(p)
    <3>1. SUFFICES ASSUME cause' = "none"
                   PROVE  Loads(main)' /\ \A q \in Procs : ~Writing(q)'
      BY DEF CauseKnown
    <3>2. cause = "none" /\ cmd[p] \notin {"json", "flags"} /\ Writing(p)
      BY <2>7, <3>1 DEF Fill, Writing
    <3>3. Validate(policy[p])
      BY <3>2 DEF VettedInv, Vetted
    <3>4. main = Empty /\ \A q \in Procs \ {p} : ~Writing(q)
      BY <3>2 DEF CauseKnown
    <3>5. main' = Text(policy[p])
      BY <2>7, <3>4, WrittenToEmpty DEF Fill
    <3>6. main'.state = "text" /\ main'.rules = policy[p]
      BY <3>5 DEF Text
    <3>7. Loads(main)'
      BY <3>3, <3>6 DEF Loads, Validate
    <3>8. \A q \in Procs : ~Writing(q)'
      BY <1>0, <2>7, <3>4 DEF Fill, End, Writing
    <3> QED
      BY <3>7, <3>8
  <2>8. CASE FillFails(p)
    BY <2>8 DEF FillFails, CauseKnown
  <2>9. CASE Crash(p)
    <3>1. CASE Writing(p)
      BY <2>9, <3>1 DEF Crash, CauseKnown, Writing
    <3>2. CASE ~Writing(p)
      BY <1>0, <2>9, <3>2, CauseFrame DEF Crash, End, Writing
    <3> QED
      BY <3>1, <3>2
  <2> QED
    BY <2>1, <2>3, <2>4, <2>5, <2>6, <2>7, <2>8, <2>9
<1> QED
  BY <1>1, <1>2

(* However many commands run at once, a config that does not load, and     *)
(* that nobody is writing, was so at first, was written by `rules add`     *)
(* with --json or flags, or is what a writer that died or failed, or two   *)
(* that overlapped, have left.                                             *)
THEOREM UnloadableExplained == Spec => []UnloadableForCause
<1>1. Init => CauseKnown
  BY DEF Init, CauseKnown, Writing
<1>2. VettedInv /\ CauseKnown /\ [Next]_vars => CauseKnown'
  BY CauseStep
<1>3. CauseKnown => UnloadableForCause
  <2> SUFFICES ASSUME CauseKnown, cause = "none", \A p \in Procs : ~Writing(p)
               PROVE  Loads(main)
    BY DEF UnloadableForCause, Writing
  <2> QED
    BY DEF CauseKnown
<1> QED
  BY <1>1, <1>2, <1>3, VettedAlways, PTL DEF Spec

-----------------------------------------------------------------------------
(* One process at a time. *)

OneWriter == \A p, q \in Procs : p = q

(* What the files hold follows from where the process is. *)
Kept(p) ==
    /\ pc[p] = "change" => Loads(main) /\ policy[p] = main.rules
    /\ pc[p] \in {"backup", "cutBackup", "fillBackup", "cut"} /\ cmd[p] # "setup" =>
          Loads(main) /\ OneChange(main.rules, policy[p])
    /\ pc[p] \in {"cutBackup", "fillBackup"} => old[p] = main
    /\ pc[p] = "fillBackup" => bak = Empty
    /\ pc[p] = "cut" /\ cmd[p] # "setup" /\ ~lossy => bak = main
    /\ pc[p] = "fill" => main = Empty /\ (last = "setup" <=> cmd[p] = "setup")
    /\ pc[p] = "fill" /\ cmd[p] # "setup" /\ ~lossy =>
          bak = committed /\ Loads(bak) /\ OneChange(bak.rules, policy[p])

(* What loads is what was committed. *)
LoadsCommitted == ~lossy /\ Loads(main) => main = committed

StoreInv ==
    /\ VettedInv
    /\ LoadsCommitted
    /\ CommittedKept
    /\ \A p \in Procs : Kept(p)

LEMMA NothingLoads == ~Loads(Empty) /\ ~Loads(Absent) /\ ~Loads(Garbled)
BY DEF Loads, Empty, Absent, Garbled

LEMMA InitStore == Init => StoreInv
<1> SUFFICES ASSUME Init PROVE StoreInv
  OBVIOUS
<1>1. LoadsCommitted /\ CommittedKept
  BY DEF Init, LoadsCommitted, CommittedKept
<1>2. ASSUME NEW p \in Procs PROVE Kept(p)
  BY DEF Init, Kept
<1> QED
  BY <1>1, <1>2, InitVetted DEF StoreInv

(* The step of one process, kind by kind: what the invariant says of it    *)
(* and of the files afterwards.                                            *)
LEMMA StoreStep ==
    ASSUME OneWriter, StoreInv, Next
    PROVE  StoreInv'
<1>1. VettedInv'
  BY VettedStep DEF StoreInv
<1>2. PICK p \in Procs :
         \/ LoadLocalConfig(p) \/ ModifyPolicy(p)
         \/ ReadOld(p) \/ CutBackup(p) \/ FillBackup(p) \/ BackupFails(p)
         \/ StartSetup(p) \/ TakeRule(p) \/ Install(p)
         \/ Cut(p) \/ Fill(p) \/ FillFails(p) \/ Crash(p)
  BY DEF Next
<1>3. /\ LoadsCommitted /\ CommittedKept /\ Kept(p) /\ Vetted(p) /\ TypeOK
  BY DEF StoreInv, VettedInv
<1>4. SUFFICES LoadsCommitted' /\ CommittedKept' /\ Kept(p)'
  <2>1. \A q \in Procs : q = p
    BY DEF OneWriter
  <2> QED
    BY <1>1, <2>1 DEF StoreInv
<1>5. CASE LoadLocalConfig(p)
  BY <1>3, <1>5 DEF TypeOK, Vetted, LoadsCommitted, CommittedKept, Kept, LoadLocalConfig, Go
<1>6. CASE ModifyPolicy(p)
  <2>1. /\ pc[p] = "change" /\ policy[p] \in Seq(Rule) /\ Validate(policy[p])
    BY <1>3, <1>6 DEF TypeOK, Vetted, ModifyPolicy, AddJSON, AddFlags, AddWizard, Edit,
           Delete, Toggle, Change, Go
  <2>2. PICK command \in Commands \ {"none", "setup"}, rules \in Seq(Rule) :
           Change(p, command, rules) /\ OneChange(policy[p], rules)
    BY <1>6, <2>1, Modification
  <2>3. /\ pc'[p] = "backup" /\ policy'[p] = rules /\ cmd'[p] = command
        /\ UNCHANGED <<main, bak, committed, last, lossy>>
    BY <1>3, <2>2 DEF TypeOK, Change, Go
  <2>4. Loads(main)' /\ OneChange(main'.rules, policy'[p])
    BY <1>3, <2>1, <2>2, <2>3 DEF Kept, Loads
  <2> QED
    BY <1>3, <2>3, <2>4 DEF LoadsCommitted, CommittedKept, Kept, Loads
<1>7. CASE ReadOld(p)
  BY <1>3, <1>7 DEF TypeOK, LoadsCommitted, CommittedKept, Kept, ReadOld, Go
<1>8. CASE CutBackup(p)
  BY <1>3, <1>8 DEF TypeOK, Vetted, LoadsCommitted, CommittedKept, Kept, CutBackup, Go
<1>9. CASE FillBackup(p)
  <2>1. bak' = main /\ main' = main
    BY <1>3, <1>9, WrittenToEmpty DEF Kept, FillBackup, Go
  <2> QED
    BY <1>3, <1>9, <2>1 DEF TypeOK, Vetted, LoadsCommitted, CommittedKept, Kept, FillBackup, Go
<1>10. CASE BackupFails(p)
  BY <1>3, <1>10 DEF TypeOK, Vetted, LoadsCommitted, CommittedKept, Kept, BackupFails, Go
<1>11. CASE StartSetup(p)
  BY <1>3, <1>11 DEF TypeOK, LoadsCommitted, CommittedKept, Kept, StartSetup, Go
<1>12. CASE TakeRule(p)
  BY <1>3, <1>12 DEF TypeOK, LoadsCommitted, CommittedKept, Kept, TakeRule
<1>13. CASE Install(p)
  BY <1>3, <1>13 DEF TypeOK, Vetted, LoadsCommitted, CommittedKept, Kept, Install, Go
<1>14. CASE Cut(p)
  <2>1. /\ main' = Empty /\ pc'[p] = "fill" /\ ~Loads(main')
        /\ UNCHANGED <<bak, cmd, policy, committed, lossy>>
        /\ last' = IF cmd[p] = "setup" THEN "setup" ELSE "rules"
    BY <1>3, <1>14, NothingLoads DEF TypeOK, Cut, Go, Loads, Validate
  <2>2. cmd[p] # "setup" /\ ~lossy =>
           bak = main /\ main = committed /\ Loads(bak) /\ OneChange(bak.rules, policy[p])
    BY <1>3, <1>14 DEF LoadsCommitted, Kept, Cut, Go
  <2> QED
    BY <2>1, <2>2 DEF LoadsCommitted, CommittedKept, Kept
<1>15. CASE Fill(p)
  <2>1. main' = Text(policy[p]) /\ committed' = main'
    BY <1>3, <1>15, WrittenToEmpty DEF Kept, Fill
  <2>2. pc'[p] = "idle"
    BY <1>3, <1>15 DEF TypeOK, Fill, End
  <2> QED
    BY <2>1, <2>2 DEF LoadsCommitted, CommittedKept, Kept
<1>16. CASE FillFails(p)
  <2>1. pc'[p] = "idle" /\ UNCHANGED <<bak, committed, last>>
    BY <1>3, <1>16 DEF TypeOK, FillFails, End
  <2>2. ~lossy' => ~lossy /\ ~Loads(main')
    BY <1>16 DEF FillFails
  <2>3. ~lossy /\ last # "setup" => bak = committed
    BY <1>3, <1>16 DEF Kept, FillFails
  <2> QED
    BY <2>1, <2>2, <2>3 DEF LoadsCommitted, CommittedKept, Kept
<1>17. CASE Crash(p)
  BY <1>3, <1>17 DEF TypeOK, LoadsCommitted, CommittedKept, Kept, Crash, End
<1> QED
  BY <1>2, <1>5, <1>6, <1>7, <1>8, <1>9, <1>10, <1>11, <1>12, <1>13, <1>14, <1>15, <1>16, <1>17

LEMMA StoreStutter ==
    ASSUME StoreInv, UNCHANGED vars
    PROVE  StoreInv'
<1>1. VettedInv'
  BY VettedStep DEF StoreInv
<1>2. LoadsCommitted' /\ CommittedKept'
  BY DEF StoreInv, LoadsCommitted, CommittedKept, Loads, vars
<1>3. ASSUME NEW p \in Procs PROVE Kept(p)'
  BY DEF StoreInv, Kept, Loads, vars
<1> QED
  BY <1>1, <1>2, <1>3 DEF StoreInv

THEOREM StoreInvariance ==
    ASSUME OneWriter
    PROVE  Spec => []StoreInv
<1>1. StoreInv /\ [Next]_vars => StoreInv'
  BY StoreStep, StoreStutter
<1> QED
  BY InitStore, <1>1, PTL DEF Spec

(* When one command runs at a time, the .bak holds the config whenever     *)
(* saveConfig is about to truncate it, ...                                 *)
THEOREM BacksUp ==
    ASSUME OneWriter
    PROVE  Spec => []BackedUp
<1>1. StoreInv => BackedUp
  BY DEF StoreInv, Kept, BackedUp
<1> QED
  BY StoreInvariance, <1>1, PTL

(* ... and what was written last is in one of the two files after any      *)
(* number of crashes and failed attempts.                                  *)
THEOREM KeepsCommitted ==
    ASSUME OneWriter
    PROVE  Spec => []CommittedKept
<1>1. StoreInv => CommittedKept
  BY DEF StoreInv
<1> QED
  BY StoreInvariance, <1>1, PTL

(* The steps that matter to OneChangeAtATime are those that write a file. *)
LEMMA RecoverableStep ==
    ASSUME OneWriter, StoreInv, Next, ~lossy, ~lossy', last' # "setup"
    PROVE  \/ Recoverable' = Recoverable
           \/ OneChange(Recoverable.rules, Recoverable.rules')
<1>1. PICK p \in Procs :
         \/ LoadLocalConfig(p) \/ ModifyPolicy(p)
         \/ ReadOld(p) \/ CutBackup(p) \/ FillBackup(p) \/ BackupFails(p)
         \/ StartSetup(p) \/ TakeRule(p) \/ Install(p)
         \/ Cut(p) \/ Fill(p) \/ FillFails(p) \/ Crash(p)
  BY DEF Next
<1>2. Kept(p) /\ Vetted(p)
  BY DEF StoreInv, VettedInv
<1>3. CASE UNCHANGED <<main, bak>>
  BY <1>3 DEF Recoverable, Loads
<1>4. CASE Loads(main) /\ main' = main
  BY <1>4 DEF Recoverable, Loads
<1>5. CASE CutBackup(p) \/ FillBackup(p)
  <2>1. Loads(main) /\ main' = main
    BY <1>2, <1>5 DEF Kept, Vetted, CutBackup, FillBackup, Go
  <2> QED
    BY <2>1, <1>4
<1>6. CASE BackupFails(p)
  BY <1>6 DEF BackupFails
<1>7. CASE Cut(p)
  <2>1. cmd[p] # "setup"
    BY <1>7 DEF Cut
  <2>2. Loads(main) /\ bak = main
    BY <1>2, <1>7, <2>1 DEF Kept, Cut, Go
  <2>3. main' = Empty /\ bak' = bak
    BY <1>7 DEF Cut
  <2>4. Recoverable = main
    BY <2>2 DEF Recoverable
  <2>5. Recoverable' = bak
    BY <2>2, <2>3, NothingLoads DEF Recoverable, Loads
  <2> QED
    BY <2>2, <2>4, <2>5
<1>8. ASSUME pc[p] = "fill", UNCHANGED <<bak, last>>
      PROVE  Recoverable = bak /\ Loads(bak) /\ bak' = bak /\ OneChange(bak.rules, policy[p])
  <2>1. main = Empty /\ Loads(bak) /\ OneChange(bak.rules, policy[p])
    BY <1>2, <1>8 DEF Kept
  <2> QED
    BY <1>8, <2>1, NothingLoads DEF Recoverable
<1>9. CASE Fill(p)
  <2>1. Recoverable = bak /\ Loads(bak) /\ bak' = bak /\ OneChange(bak.rules, policy[p])
    BY <1>8, <1>9 DEF Fill
  <2>2. main' = Text(policy[p]) /\ main'.rules = policy[p]
    BY <1>2, <1>9, WrittenToEmpty DEF Kept, Fill, Text
  <2>3. CASE Loads(main)'
    <3>1. Recoverable'.rules = policy[p]
      BY <2>2, <2>3 DEF Recoverable
    <3> QED
      BY <2>1, <3>1
  <2>4. CASE ~Loads(main)'
    BY <2>1, <2>4 DEF Recoverable, Loads
  <2> QED
    BY <2>3, <2>4
<1>10. CASE FillFails(p)
  <2>1. Recoverable = bak /\ Loads(bak) /\ bak' = bak
    BY <1>8, <1>10 DEF FillFails
  <2>2. ~Loads(main)'
    BY <1>10 DEF FillFails
  <2> QED
    BY <2>1, <2>2 DEF Recoverable, Loads
<1> QED
  BY <1>1, <1>3, <1>5, <1>6, <1>7, <1>9, <1>10
     DEF LoadLocalConfig, ModifyPolicy, AddJSON, AddFlags, AddWizard, Edit, Delete, Toggle,
         Change, ReadOld, StartSetup, TakeRule, Install, Crash

(* No step of a `rules` command changes by more than one rule what there   *)
(* is to go on with, whatever crashed before.                              *)
THEOREM ChangesOneRule ==
    ASSUME OneWriter
    PROVE  Spec => OneChangeAtATime
<1>1. StoreInv /\ [Next]_vars =>
         [~lossy /\ ~lossy' /\ last' # "setup"
             => \/ Recoverable' = Recoverable
                \/ OneChange(Recoverable.rules, Recoverable.rules')]_vars
  BY RecoverableStep
<1> QED
  BY StoreInvariance, <1>1, PTL DEF Spec, OneChangeAtATime
=============================================================================
