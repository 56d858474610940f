--------------------------- MODULE HookInstallProofs ---------------------------
(***************************************************************************)
(* Proofs about HookInstall for any platforms' files, any commands and any *)
(* number of hook groups.                                                  *)
(***************************************************************************)
EXTENDS HookInstall, Folding

-----------------------------------------------------------------------------
(* The groups of a kind. *)

(* g tells what is kept after each group. *)
Keeps(g, s, n, kind) ==
    /\ g[0] = <<>>
    /\ \A k \in 1..n : g[k] = IF s[k] \in kind THEN Append(g[k - 1], s[k]) ELSE g[k - 1]
    /\ Only(s, kind) = g[n]

LEMMA OnlyHistory ==
    ASSUME NEW G, NEW s \in Seq(G), NEW kind
    PROVE  \E g \in [0..Len(s) -> Seq(G)] : Keeps(g, s, Len(s), kind)
<1>0. PICK n \in Nat : n = Len(s)
  OBVIOUS
<1> DEFINE S == Seq(G)
           move == [k \in 1..n |-> [x \in S |-> IF s[k] \in kind THEN Append(x, s[k]) ELSE x]]
           kept == CHOOSE f : f = [i \in 0..n |->
               IF i = 0 THEN <<>>
               ELSE IF s[i] \in kind THEN Append(f[i - 1], s[i])
               ELSE f[i - 1]]
<1>1. \A k \in 1..n : s[k] \in G
  BY <1>0
<1>2. \A k \in 1..n, x \in S : (IF s[k] \in kind THEN Append(x, s[k]) ELSE x) \in S
  BY <1>1
<1>3. Only(s, kind) = kept[n]
  BY <1>0 DEF Only
<1>4. move \in [1..n -> [S -> S]]
        /\ \A k \in 1..n, x \in S :
              move[k][x] = IF s[k] \in kind THEN Append(x, s[k]) ELSE x
  BY <1>2
<1>15. <<>> \in S
  OBVIOUS
<1> HIDE DEF S, move, kept
<1>5. PICK none : none = <<>> /\ none \in S
  BY <1>15
<1>6. PICK it \in [SUBSET (1..n) -> S] : FoldsTo(it, none, n, move)
  BY <1>4, <1>5, Folds
<1>7. it[{}] = none
  <2>1. {} \in SUBSET (1..n)
    OBVIOUS
  <2> QED
    BY <1>6, <2>1 DEF FoldsTo
<1>8. Moves(it, S, n, move)
  <2> SUFFICES ASSUME NEW k \in 1..n PROVE it[1..k] = move[k][it[1..(k - 1)]]
    BY DEF Moves
  <2>1. /\ 1..k # {} /\ 1..k \in SUBSET (1..n)
        /\ Max(1..k) = k /\ (1..k) \ {k} = 1..(k - 1)
    BY FirstOnes
  <2> QED
    BY <1>6, <2>1 DEF FoldsTo
<1>9. PICK g \in [0..n -> S] : History(g, none, n, move, it[1..n])
  BY <1>4, <1>5, <1>7, <1>8, Beginnings
<1>10. g[0] = none /\ \A k \in 1..n : k - 1 \in 0..n /\ g[k - 1] \in S /\ g[k] = move[k][g[k - 1]]
  BY <1>9 DEF History
<1>11. \A k \in 1..n : g[k] = IF s[k] \in kind THEN Append(g[k - 1], s[k]) ELSE g[k - 1]
  BY <1>4, <1>10
<1>12. g = [i \in 0..n |->
               IF i = 0 THEN <<>>
               ELSE IF s[i] \in kind THEN Append(g[i - 1], s[i])
               ELSE g[i - 1]]
  <2>1. \A i \in 0..n : g[i] = IF i = 0 THEN <<>>
                               ELSE IF s[i] \in kind THEN Append(g[i - 1], s[i])
                               ELSE g[i - 1]
    <3> TAKE i \in 0..n
    <3>1. i = 0 \/ (i \in 1..n /\ i # 0)
      OBVIOUS
    <3> QED
      BY <1>5, <1>10, <1>11, <3>1
  <2> QED
    BY <2>1
<1>13. kept = [i \in 0..n |->
               IF i = 0 THEN <<>>
               ELSE IF s[i] \in kind THEN Append(kept[i - 1], s[i])
               ELSE kept[i - 1]]
  BY <1>12 DEF kept
<1>14. kept[n] = g[n]
  <2> DEFINE T == {k \in 0..n : kept[k] = g[k]}
  <2>1. 0 \in T
    BY <1>5, <1>10, <1>13
  <2>2. \A k \in 1..n : k - 1 \in T => k \in T
    <3>1. \A k \in 1..n : kept[k] = IF s[k] \in kind THEN Append(kept[k - 1], s[k]) ELSE kept[k - 1]
      <4>1. \A k \in 1..n : k \in 0..n /\ k # 0
        OBVIOUS
      <4> QED
        BY <1>13, <4>1
    <3>2. \A k \in 1..n : k \in 0..n
      OBVIOUS
    <3> QED
      BY <1>11, <3>1, <3>2
  <2> HIDE DEF T
  <2>3. 0..n \subseteq T
    BY <2>1, <2>2, UpTo
  <2> QED
    BY <2>3 DEF T
<1>16. Keeps(g, s, n, kind)
  BY <1>3, <1>5, <1>10, <1>11, <1>14 DEF Keeps
<1> QED
  BY <1>0, <1>16 DEF S

LEMMA OnlyType ==
    ASSUME NEW G, NEW s \in Seq(G), NEW kind
    PROVE  Only(s, kind) \in Seq(G)
<1>1. PICK n \in Nat : n = Len(s)
  OBVIOUS
<1>2. PICK g \in [0..n -> Seq(G)] : Keeps(g, s, n, kind)
  BY <1>1, OnlyHistory
<1>3. g[n] \in Seq(G)
  OBVIOUS
<1> QED
  BY <1>2, <1>3 DEF Keeps

LEMMA OnlyOfNone ==
    ASSUME NEW kind
    PROVE  Only(<<>>, kind) = <<>>
<1>1. <<>> \in Seq({}) /\ Len(<<>>) = 0
  OBVIOUS
<1>2. PICK s : s = <<>> /\ s \in Seq({}) /\ 0 = Len(s)
  BY <1>1
<1>3. PICK g : Keeps(g, s, 0, kind)
  BY <1>2, OnlyHistory
<1> QED
  BY <1>2, <1>3 DEF Keeps

LEMMA OnlyAppend ==
    ASSUME NEW G, NEW s \in Seq(G), NEW e \in G, NEW kind
    PROVE  Only(Append(s, e), kind)
               = IF e \in kind THEN Append(Only(s, kind), e) ELSE Only(s, kind)
<1>1. PICK n \in Nat : n = Len(s)
  OBVIOUS
<1>2. PICK t : t = Append(s, e)
  OBVIOUS
<1>3. /\ t \in Seq(G) /\ n + 1 = Len(t)
      /\ t[n + 1] = e /\ \A k \in 1..n : t[k] = s[k]
  BY <1>1, <1>2
<1>4. PICK g : Keeps(g, s, n, kind)
  BY <1>1, OnlyHistory
<1>5. PICK m \in Nat : m = n + 1
  OBVIOUS
<1>6. PICK h : Keeps(h, t, m, kind)
  <2>1. m = Len(t)
    BY <1>3, <1>5
  <2> QED
    BY <1>3, <2>1, OnlyHistory
<1> DEFINE T == {k \in 0..n : h[k] = g[k]}
<1>7. 0 \in T /\ \A k \in 1..n : k - 1 \in T => k \in T
  <2>1. \A k \in 1..n : k \in 1..m /\ k \in 0..n
    BY <1>5
  <2>2. ASSUME NEW k \in 1..n, h[k - 1] = g[k - 1] PROVE h[k] = g[k]
    <3>1. h[k] = IF s[k] \in kind THEN Append(h[k - 1], s[k]) ELSE h[k - 1]
      BY <1>3, <1>6, <2>1 DEF Keeps
    <3>2. g[k] = IF s[k] \in kind THEN Append(g[k - 1], s[k]) ELSE g[k - 1]
      BY <1>4 DEF Keeps
    <3> QED
      BY <2>2, <3>1, <3>2
  <2>3. h[0] = g[0] /\ 0 \in 0..n
    BY <1>4, <1>6 DEF Keeps
  <2> QED
    BY <2>1, <2>2, <2>3
<1> HIDE DEF T
<1>8. 0..n \subseteq T
  BY <1>7, UpTo
<1>9. h[n] = g[n] /\ m \in 1..m /\ m - 1 = n
  BY <1>5, <1>8 DEF T
<1>10. h[m] = IF t[m] \in kind THEN Append(h[n], t[m]) ELSE h[n]
  BY <1>6, <1>9 DEF Keeps
<1>11. Only(s, kind) = g[n] /\ Only(t, kind) = h[m]
  BY <1>4, <1>6 DEF Keeps
<1> QED
  BY <1>2, <1>3, <1>5, <1>9, <1>10, <1>11

LEMMA AppendRange ==
    ASSUME NEW G, NEW s \in Seq(G), NEW e \in G
    PROVE  /\ Append(s, e) \in Seq(G)
           /\ Range(Append(s, e)) = Range(s) \cup {e}
<1>1. PICK n \in Nat : n = Len(s) /\ DOMAIN s = 1..n
  OBVIOUS
<1>2. PICK t : t = Append(s, e)
  OBVIOUS
<1>3. /\ t \in Seq(G) /\ DOMAIN t = 1..(n + 1)
      /\ t[n + 1] = e /\ \A k \in 1..n : t[k] = s[k]
  BY <1>1, <1>2
<1>4. 1..(n + 1) = (1..n) \cup {n + 1}
  OBVIOUS
<1>5. Range(t) = {t[k] : k \in 1..(n + 1)} /\ Range(s) = {s[k] : k \in 1..n}
  BY <1>1, <1>3 DEF Range
<1> QED
  BY <1>2, <1>3, <1>4, <1>5

(* The groups kept are groups of the kind. *)
LEMMA OnlyRange ==
    ASSUME NEW G, NEW s \in Seq(G), NEW kind
    PROVE  Range(Only(s, kind)) = Range(s) \cap kind
<1> DEFINE T == {t \in Seq(G) : Range(Only(t, kind)) = Range(t) \cap kind}
<1>1. <<>> \in T
  <2>1. Range(<<>>) = {} /\ <<>> \in Seq(G)
    BY DEF Range
  <2> QED
    BY <2>1, OnlyOfNone
<1>2. ASSUME NEW t \in Seq(G), NEW e \in G, t \in T PROVE Append(t, e) \in T
  <2>1. PICK o : o = Only(t, kind)
    OBVIOUS
  <2>2. o \in Seq(G)
    BY <2>1, OnlyType
  <2>3. Range(Append(o, e)) = Range(o) \cup {e} /\ Range(Append(t, e)) = Range(t) \cup {e}
        /\ Append(t, e) \in Seq(G)
    BY <2>2, AppendRange
  <2>4. Only(Append(t, e), kind) = IF e \in kind THEN Append(o, e) ELSE o
    BY <2>1, OnlyAppend
  <2>5. Range(o) = Range(t) \cap kind
    BY <1>2, <2>1
  <2> QED
    BY <2>3, <2>4, <2>5
<1> HIDE DEF T
<1>3. s \in T
  BY <1>1, <1>2, AppendInduction
<1> QED
  BY <1>3 DEF T

LEMMA OnlyAll ==
    ASSUME NEW G, NEW s \in Seq(G), NEW kind, Range(s) \subseteq kind
    PROVE  Only(s, kind) = s
<1> DEFINE T == {t \in Seq(G) : Range(t) \subseteq kind => Only(t, kind) = t}
<1>1. <<>> \in T
  BY OnlyOfNone
<1>2. ASSUME NEW t \in Seq(G), NEW e \in G, t \in T PROVE Append(t, e) \in T
  <2>1. Append(t, e) \in Seq(G) /\ Range(Append(t, e)) = Range(t) \cup {e}
    BY AppendRange
  <2>2. Only(Append(t, e), kind) = IF e \in kind THEN Append(Only(t, kind), e) ELSE Only(t, kind)
    BY OnlyAppend
  <2> QED
    BY <1>2, <2>1, <2>2
<1> HIDE DEF T
<1>3. s \in T
  BY <1>1, <1>2, AppendInduction
<1> QED
  BY <1>3 DEF T

LEMMA OnlyDisjoint ==
    ASSUME NEW G, NEW s \in Seq(G), NEW kind, Range(s) \cap kind = {}
    PROVE  Only(s, kind) = <<>>
<1>1. PICK o : o = Only(s, kind)
  OBVIOUS
<1>2. o \in Seq(G) /\ Range(o) = {}
  BY <1>1, OnlyType, OnlyRange
<1>3. ~(1 \in DOMAIN o)
  BY <1>2 DEF Range
<1>4. o = <<>>
  BY <1>2, <1>3
<1> QED
  BY <1>1, <1>4

(* Of the groups of a wider kind, those of a kind are the same. *)
LEMMA OnlyOnly ==
    ASSUME NEW G, NEW s \in Seq(G), NEW wide, NEW kind, kind \subseteq wide
    PROVE  Only(Only(s, wide), kind) = Only(s, kind)
<1> DEFINE T == {t \in Seq(G) : Only(Only(t, wide), kind) = Only(t, kind)}
<1>1. <<>> \in T
  BY OnlyOfNone
<1>2. ASSUME NEW t \in Seq(G), NEW e \in G, t \in T PROVE Append(t, e) \in T
  <2>1. Append(t, e) \in Seq(G)
    OBVIOUS
  <2>2. PICK o : o = Only(t, wide)
    OBVIOUS
  <2>3. o \in Seq(G)
    BY <2>2, OnlyType
  <2>4. /\ Only(Append(t, e), wide) = IF e \in wide THEN Append(o, e) ELSE o
        /\ Only(Append(t, e), kind) = IF e \in kind THEN Append(Only(t, kind), e) ELSE Only(t, kind)
    BY <2>2, OnlyAppend
  <2>5. Only(Append(o, e), kind) = IF e \in kind THEN Append(Only(o, kind), e) ELSE Only(o, kind)
    BY <2>3, OnlyAppend
  <2>6. Only(o, kind) = Only(t, kind)
    BY <1>2, <2>2
  <2> QED
    BY <2>1, <2>4, <2>5, <2>6
<1> HIDE DEF T
<1>3. s \in T
  BY <1>1, <1>2, AppendInduction
<1> QED
  BY <1>3 DEF T

LEMMA OnlyConcat ==
    ASSUME NEW G, NEW s \in Seq(G), NEW t \in Seq(G), NEW kind
    PROVE  Only(s \o t, kind) = Only(s, kind) \o Only(t, kind)
<1> DEFINE T == {x \in Seq(G) : Only(s \o x, kind) = Only(s, kind) \o Only(x, kind)}
<1>0. PICK o \in Seq(G) : o = Only(s, kind)
  BY OnlyType
<1>1. <<>> \in T
  <2>1. s \o <<>> = s /\ o \o <<>> = o /\ <<>> \in Seq(G)
    OBVIOUS
  <2> QED
    BY <1>0, <2>1, OnlyOfNone
<1>2. ASSUME NEW x \in Seq(G), NEW e \in G, x \in T PROVE Append(x, e) \in T
  <2>1. PICK p \in Seq(G) : p = Only(x, kind)
    BY OnlyType
  <2>2. PICK sx : sx = s \o x
    OBVIOUS
  <2>3. sx \in Seq(G) /\ s \o Append(x, e) = Append(sx, e) /\ Append(x, e) \in Seq(G)
        /\ o \o Append(p, e) = Append(o \o p, e)
    BY <2>2, SMTT(30)
  <2>4. /\ Only(Append(sx, e), kind) = IF e \in kind THEN Append(Only(sx, kind), e) ELSE Only(sx, kind)
        /\ Only(Append(x, e), kind) = IF e \in kind THEN Append(p, e) ELSE p
    <3>1. sx \in Seq(G)
      BY <2>3
    <3>2. Only(Append(sx, e), kind) = IF e \in kind THEN Append(Only(sx, kind), e) ELSE Only(sx, kind)
      BY <3>1, OnlyAppend
    <3>3. Only(Append(x, e), kind) = IF e \in kind THEN Append(p, e) ELSE p
      BY <2>1, OnlyAppend
    <3> QED
      BY <3>2, <3>3
  <2>5. Only(sx, kind) = o \o p
    BY <1>0, <1>2, <2>1, <2>2
  <2>6. Only(s \o Append(x, e), kind) = o \o Only(Append(x, e), kind)
    BY <2>3, <2>4, <2>5
  <2> QED
    BY <1>0, <2>3, <2>6
<1> HIDE DEF T
<1>3. t \in T
  BY <1>1, <1>2, AppendInduction
<1> QED
  BY <1>3 DEF T

-----------------------------------------------------------------------------
(* The invariant: what the command has in memory, and what is in the file  *)
(* it writes, at each of its stages.                                       *)

Used(platform, e) == Matchers(platform, e) # <<>>

(* A file runs binary b at every event setup uses, and no other.           *)
HasOwn(file, f, b) ==
    \A e \in Events : Used(f, e) => Only(file.hooks[e], Own) = BuildPlatformHooks(f, b)[e]

(* A file that is missing or empty holds nothing.                          *)
Blanks ==
    \A f \in Platforms : files[f].state \in {"absent", "empty"} => files[f] = Blank(files[f].state)

Stages ==
    /\ pc \in {"read", "cut", "fill"} => todo # <<>> /\ cmd \in {"setup", "uninstall"}
    /\ pc = "skills" => \/ cmd = "setup" /\ skillTodo # <<>>
                        \/ cmd = "uninstall" /\ todo # <<>>

(* What is to be written has all that is the others', and either the hooks *)
(* of one binary or none of constitution.                                  *)
Held ==
    /\ pc \in {"cut", "fill"} =>
          /\ held.state = "text"
          /\ Current \notin {"codex"} \cup spoiled => Theirs(Current, held) = theirs[Current]
          /\ cmd = "setup" =>
                /\ bin \in Binaries
                /\ Binaries \subseteq Constitutional => HasOwn(held, Current, bin)
    /\ pc \in {"cut", "fill", "skills"} /\ cmd = "uninstall" => Clean(held)

(* Between the truncation and the write the file is empty, unless others   *)
(* edit it.                                                                *)
Truncated ==
    pc = "fill" =>
        /\ Current \notin gone
        /\ installed[Current] = NoBinary
        /\ Current \notin spoiled => files[Current] = Blank("empty")

IInv ==
    /\ TypeOK
    /\ Blanks
    /\ Stages
    /\ Held
    /\ Truncated
    /\ TheirsKept
    /\ OwnHooksOnce
    /\ UninstallClean

-----------------------------------------------------------------------------
(* What the helpers return. *)

Hooks == [Events -> Seq(Group)]
TheirsKind == [settings : Settings, groups : Hooks]

LEMMA BlankType ==
    ASSUME NEW state \in {"absent", "empty", "null", "broken", "text"}
    PROVE  Blank(state) \in File
<1>1. NoHooks \in [Events -> Seq(Group)]
  <2>1. <<>> \in Seq(Group)
    OBVIOUS
  <2> QED
    BY <2>1 DEF NoHooks
<1> QED
  BY <1>1, NoSettingsAssumption DEF Blank, File

LEMMA TheirsType ==
    ASSUME NEW platform, NEW file \in File
    PROVE  Theirs(platform, file) \in TheirsKind
<1>1. file.hooks \in [Events -> Seq(Group)] /\ file.settings \in Settings
  BY DEF File
<1>2. \A e \in Events : Only(file.hooks[e], Foreign(platform, e)) \in Seq(Group)
  BY <1>1, OnlyType
<1> QED
  BY <1>1, <1>2 DEF Theirs, TheirsKind, Hooks

(* Two files with the same settings and the same groups of others. *)
LEMMA TheirsSame ==
    ASSUME NEW platform, NEW x, NEW y, x.settings = y.settings,
           \A e \in Events :
              Only(x.hooks[e], Foreign(platform, e)) = Only(y.hooks[e], Foreign(platform, e))
    PROVE  Theirs(platform, x) = Theirs(platform, y)
BY DEF Theirs

LEMMA BuildResult ==
    ASSUME NEW platform \in Platforms, NEW b \in Binaries, NEW new,
           new = BuildPlatformHooks(platform, b)
    PROVE  /\ new \in Hooks
           /\ \A e \in Events : Range(new[e]) \subseteq Own
           /\ \A e \in Events : new[e] = <<>> <=> ~Used(platform, e)
<1> SUFFICES ASSUME NEW e \in Events
             PROVE  /\ new[e] \in Seq(Group)
                    /\ Range(new[e]) \subseteq Own
                    /\ new[e] = <<>> <=> ~Used(platform, e)
  BY DEF Hooks, BuildPlatformHooks
<1>1. PICK matchers : matchers = Matchers(platform, e)
  OBVIOUS
<1>2. matchers \in Seq(Patterns)
  <2>4. /\ <<>> \in Seq(Patterns)
        /\ \A x \in Patterns : <<x>> \in Seq(Patterns)
        /\ \A x, y, z \in Patterns : <<x, y, z>> \in Seq(Patterns)
    OBVIOUS
  <2>1. PICK any, bash, write, glob \in Patterns :
           any = "" /\ bash = "Bash" /\ write = "Read|Write|Edit" /\ glob = "Glob|Grep"
    BY PatternsAssumption
  <2>2. matchers \in {<<any>>, <<bash>>, <<>>, <<bash, write, glob>>}
    BY <1>1, <2>1, Zenon DEF Matchers
  <2>3. <<any>> \in Seq(Patterns) /\ <<bash>> \in Seq(Patterns) /\ <<>> \in Seq(Patterns)
        /\ <<bash, write, glob>> \in Seq(Patterns)
    BY <2>1, <2>4, Zenon
  <2> QED
    BY <2>2, <2>3
<1>3. PICK n \in Nat : n = Len(matchers) /\ DOMAIN matchers = 1..n
  BY <1>2
<1>4. new[e] = [k \in 1..n |-> [matcher |-> matchers[k], commands |-> {b}, odd |-> FALSE]]
  BY <1>1, <1>3 DEF BuildPlatformHooks
<1>5. \A k \in 1..n : [matcher |-> matchers[k], commands |-> {b}, odd |-> FALSE] \in Own
  BY <1>2, <1>3, CommandsAssumption DEF Own, Group
<1>6. new[e] \in Seq(Group)
  <2>1. \A k \in 1..n : [matcher |-> matchers[k], commands |-> {b}, odd |-> FALSE] \in Group
    BY <1>5 DEF Own
  <2> QED
    BY <1>4, <2>1
<1>7. Range(new[e]) \subseteq Own
  BY <1>4, <1>5 DEF Range
<1>8. new[e] = <<>> <=> n = 0
  BY <1>4
<1>9. n = 0 <=> ~Used(platform, e)
  BY <1>1, <1>2, <1>3 DEF Used
<1> QED
  BY <1>6, <1>7, <1>8, <1>9

(* applyHooks: what is the others' stays, and where setup has hooks they   *)
(* are the only ones.                                                      *)
LEMMA ApplyResult ==
    ASSUME NEW platform \in Platforms, NEW b \in Binaries, NEW old \in Hooks, NEW new,
           new = BuildPlatformHooks(platform, b), NEW hooks, hooks = ApplyHooks(old, new)
    PROVE  /\ hooks \in Hooks
           /\ \A e \in Events :
                 Only(hooks[e], Foreign(platform, e)) = Only(old[e], Foreign(platform, e))
           /\ Binaries \subseteq Constitutional =>
                 \A e \in Events : Used(platform, e) => Only(hooks[e], Own) = new[e]
<1>1. /\ new \in Hooks
      /\ \A e \in Events : Range(new[e]) \subseteq Own
      /\ \A e \in Events : new[e] = <<>> <=> ~Used(platform, e)
  BY BuildResult
<1> SUFFICES ASSUME NEW e \in Events
             PROVE  /\ hooks[e] \in Seq(Group)
                    /\ Only(hooks[e], Foreign(platform, e)) = Only(old[e], Foreign(platform, e))
                    /\ Binaries \subseteq Constitutional /\ Used(platform, e) =>
                          Only(hooks[e], Own) = new[e]
  BY DEF Hooks, ApplyHooks
<1>2. PICK o \in Seq(Group) : o = old[e]
  BY DEF Hooks
<1>3. PICK w \in Seq(Group) : w = new[e]
  BY <1>1 DEF Hooks
<1>4. CASE ~Used(platform, e)
  BY <1>1, <1>2, <1>4 DEF ApplyHooks
<1>5. CASE Used(platform, e)
  <2>1. PICK kept \in Seq(Group) : kept = Only(o, Unmarked)
    BY OnlyType
  <2>2. hooks[e] = kept \o w
    BY <1>1, <1>2, <1>3, <1>5, <2>1 DEF ApplyHooks
  <2>3. hooks[e] \in Seq(Group)
    BY <2>2
  <2>4. Range(w) \subseteq Own
    BY <1>1, <1>3
  <2>5. Only(hooks[e], Foreign(platform, e)) = Only(o, Foreign(platform, e))
    <3>0. PICK kind : kind = Foreign(platform, e) /\ kind = Unmarked \ Own
      BY <1>5 DEF Foreign, Used
    <3>1. Only(hooks[e], kind) = Only(kept, kind) \o Only(w, kind)
      BY <2>2, OnlyConcat
    <3>2. Only(w, kind) = <<>>
      <4>1. Range(w) \cap kind = {}
        BY <2>4, <3>0
      <4> QED
        BY <4>1, OnlyDisjoint
    <3>3. Only(kept, kind) = Only(o, kind)
      <4>1. kind \subseteq Unmarked
        BY <3>0
      <4> QED
        BY <2>1, <4>1, OnlyOnly
    <3>4. PICK f \in Seq(Group) : f = Only(o, kind)
      BY OnlyType
    <3>5. f \o <<>> = f
      OBVIOUS
    <3> QED
      BY <3>0, <3>1, <3>2, <3>3, <3>4, <3>5
  <2>6. ASSUME Binaries \subseteq Constitutional PROVE Only(hooks[e], Own) = w
    <3>1. Only(hooks[e], Own) = Only(kept, Own) \o Only(w, Own)
      BY <2>2, OnlyConcat
    <3>2. Only(w, Own) = w
      BY <2>4, OnlyAll
    <3>3. Only(kept, Own) = <<>>
      <4>1. Range(kept) \subseteq Unmarked
        BY <2>1, OnlyRange
      <4>2. Unmarked \cap Own = {}
        BY <2>6 DEF Unmarked, Own, IsConstitution
      <4>3. Range(kept) \cap Own = {}
        BY <4>1, <4>2
      <4> QED
        BY <4>3, OnlyDisjoint
    <3>4. <<>> \o w = w
      OBVIOUS
    <3> QED
      BY <3>1, <3>2, <3>3, <3>4
  <2> QED
    BY <1>2, <1>3, <2>3, <2>5, <2>6
<1> QED
  BY <1>4, <1>5

(* applyHooksCodex: where setup has hooks they are the only ones. *)
LEMMA ApplyCodexResult ==
    ASSUME NEW platform \in Platforms, NEW b \in Binaries, NEW old \in Hooks, NEW new,
           new = BuildPlatformHooks(platform, b), NEW hooks, hooks = ApplyHooksCodex(old, new)
    PROVE  /\ hooks \in Hooks
           /\ \A e \in Events : Used(platform, e) => Only(hooks[e], Own) = new[e]
<1>1. /\ new \in Hooks
      /\ \A e \in Events : Range(new[e]) \subseteq Own
      /\ \A e \in Events : new[e] = <<>> <=> ~Used(platform, e)
  BY BuildResult
<1> SUFFICES ASSUME NEW e \in Events
             PROVE  /\ hooks[e] \in Seq(Group)
                    /\ Used(platform, e) => Only(hooks[e], Own) = new[e]
  BY DEF Hooks, ApplyHooksCodex
<1>2. old[e] \in Seq(Group)
  BY DEF Hooks
<1>3. PICK w \in Seq(Group) : w = new[e]
  BY <1>1 DEF Hooks
<1>4. hooks[e] = IF ~Used(platform, e) THEN old[e] ELSE w
  BY <1>1, <1>3 DEF ApplyHooksCodex
<1>5. Range(w) \subseteq Own
  BY <1>1, <1>3
<1>6. Only(w, Own) = w
  BY <1>5, OnlyAll
<1> QED
  BY <1>2, <1>3, <1>4, <1>6

(* cmdUninstall: only groups of constitution are gone, and all of them. *)
LEMMA RemoveResult ==
    ASSUME NEW platform, NEW old \in Hooks, NEW hooks, hooks = RemoveHooks(old)
    PROVE  /\ hooks \in Hooks
           /\ \A e \in Events :
                 Only(hooks[e], Foreign(platform, e)) = Only(old[e], Foreign(platform, e))
           /\ \A e \in Events : \A i \in DOMAIN hooks[e] : ~IsConstitution(hooks[e][i])
<1> SUFFICES ASSUME NEW e \in Events
             PROVE  /\ hooks[e] \in Seq(Group)
                    /\ Only(hooks[e], Foreign(platform, e)) = Only(old[e], Foreign(platform, e))
                    /\ \A i \in DOMAIN hooks[e] : ~IsConstitution(hooks[e][i])
  BY DEF Hooks, RemoveHooks
<1>1. PICK o \in Seq(Group) : o = old[e]
  BY DEF Hooks
<1>2. PICK kept \in Seq(Group) : kept = Only(o, Unrelated)
  BY OnlyType
<1>3. hooks[e] = kept
  BY <1>1, <1>2 DEF RemoveHooks
<1>4. Only(kept, Foreign(platform, e)) = Only(o, Foreign(platform, e))
  <2>1. Foreign(platform, e) \subseteq Unrelated
    BY DEF Foreign, Unmarked, Unrelated
  <2> QED
    BY <1>2, <2>1, OnlyOnly
<1>5. Range(kept) \subseteq Unrelated
  BY <1>2, OnlyRange
<1>6. \A i \in DOMAIN kept : ~IsConstitution(kept[i])
  BY <1>5 DEF Range, Unrelated
<1> QED
  BY <1>1, <1>3, <1>4, <1>6

-----------------------------------------------------------------------------
(* The invariant holds initially. *)

LocalType ==
    /\ pc \in {"idle", "read", "cut", "fill", "skills"}
    /\ cmd \in {"none", "setup", "uninstall"}
    /\ todo \in Seq(Platforms)
    /\ skillTodo \in Seq(Platforms)
    /\ bin \in Binaries \cup {NoBinary}
    /\ held \in File

FilesType ==
    /\ files \in [Platforms -> File]
    /\ skill \subseteq Platforms
    /\ theirs \in [Platforms -> TheirsKind]
    /\ spoiled \subseteq Platforms
    /\ installed \in [Platforms -> Binaries \cup {NoBinary}]
    /\ gone \subseteq Platforms

LEMMA TypeParts == TypeOK <=> LocalType /\ FilesType
BY DEF TypeOK, LocalType, FilesType, TheirsKind, Hooks

LEMMA InitInv == Init => IInv
<1> SUFFICES ASSUME Init PROVE IInv
  OBVIOUS
<1>1. files \in [Platforms -> File] /\ \A f \in Platforms : files[f] \in InitialFiles[f]
  BY InitialFilesAssumption DEF Init
<1>2. pc = "idle" /\ LocalType
  BY BlankType DEF Init, Idle, LocalType
<1>3. FilesType
  BY <1>1, TheirsType DEF Init, FilesType
<1>4. Blanks
  BY <1>1, InitialFilesAssumption DEF Blanks
<1>5. Stages /\ Held /\ Truncated
  BY <1>2 DEF Stages, Held, Truncated
<1>6. TheirsKept /\ OwnHooksOnce /\ UninstallClean
  BY DEF Init, TheirsKept, OwnHooksOnce, UninstallClean
<1> QED
  BY <1>2, <1>3, <1>4, <1>5, <1>6, TypeParts DEF IInv

-----------------------------------------------------------------------------
(* Where the command goes on. *)

(* It has nothing in memory to write, or to have written. *)
Resting == pc \in {"idle", "read"} \/ (pc = "skills" /\ cmd = "setup")

LEMMA EndResult ==
    ASSUME End
    PROVE  LocalType' /\ Stages' /\ Resting'
<1>1. Blank("absent") \in File
  BY BlankType
<1>2. LocalType'
  BY <1>1 DEF End, LocalType
<1> QED
  BY <1>2 DEF End, Stages, Resting

LEMMA TailMore ==
    ASSUME NEW S, NEW s \in Seq(S), Len(s) > 1
    PROVE  Tail(s) \in Seq(S) /\ Tail(s) # <<>>
<1>1. Tail(s) \in Seq(S) /\ Len(Tail(s)) = Len(s) - 1 /\ Len(s) \in Nat
  OBVIOUS
<1>2. Len(Tail(s)) # 0
  BY <1>1
<1>3. Len(<<>>) = 0
  OBVIOUS
<1> QED
  BY <1>1, <1>2, <1>3

LEMMA NextPlatformResult ==
    ASSUME LocalType, todo # <<>>, cmd \in {"setup", "uninstall"}, NextPlatform
    PROVE  LocalType' /\ Stages' /\ Resting'
<1>1. Blank("absent") \in File
  BY BlankType
<1>2. PICK n \in Nat : n = Len(todo)
  BY DEF LocalType
<1>3. CASE Len(todo) > 1
  <2>1. /\ pc' = "read" /\ todo' = Tail(todo) /\ cmd' = cmd /\ skillTodo' = skillTodo
        /\ bin' = NoBinary /\ held' = Blank("absent")
    BY <1>3 DEF NextPlatform
  <2>2. Tail(todo) \in Seq(Platforms) /\ Tail(todo) # <<>>
    <3>1. todo \in Seq(Platforms)
      BY DEF LocalType
    <3> QED
      BY <3>1, <1>3, TailMore
  <2>3. LocalType'
    BY <1>1, <2>1, <2>2 DEF LocalType
  <2> QED
    BY <2>1, <2>2, <2>3 DEF Stages, Resting
<1>4. CASE ~(Len(todo) > 1) /\ cmd = "setup" /\ skillTodo # <<>>
  <2>1. /\ pc' = "skills" /\ todo' = <<>> /\ cmd' = cmd /\ skillTodo' = skillTodo
        /\ bin' = NoBinary /\ held' = Blank("absent")
    BY <1>4 DEF NextPlatform
  <2>2. todo' \in Seq(Platforms)
    BY <2>1
  <2>3. LocalType'
    BY <1>1, <2>1, <2>2 DEF LocalType
  <2> QED
    BY <1>4, <2>1, <2>3 DEF Stages, Resting
<1>5. CASE ~(Len(todo) > 1) /\ ~(cmd = "setup" /\ skillTodo # <<>>)
  BY <1>5, EndResult DEF NextPlatform
<1> QED
  BY <1>3, <1>4, <1>5

LEMMA AfterWriteResult ==
    ASSUME LocalType, todo # <<>>, cmd \in {"setup", "uninstall"}, AfterWrite
    PROVE  /\ LocalType' /\ Stages'
           /\ Resting' \/ (cmd = "uninstall" /\ pc' = "skills" /\ held' = held)
<1>1. CASE cmd = "setup"
  BY <1>1, NextPlatformResult DEF AfterWrite
<1>2. CASE cmd = "uninstall"
  <2>1. pc' = "skills" /\ UNCHANGED <<cmd, todo, skillTodo, bin, held>>
    BY <1>2 DEF AfterWrite
  <2> QED
    BY <1>2, <2>1 DEF LocalType, Stages
<1> QED
  BY <1>1, <1>2

LEMMA Rests ==
    ASSUME Resting'
    PROVE  Held' /\ Truncated'
BY DEF Resting, Held, Truncated

(* Steps that leave the files alone, and the write they end was not under  *)
(* way.                                                                    *)
LEMMA FilesKept ==
    ASSUME IInv, UNCHANGED <<files, theirs, installed>>, spoiled \subseteq spoiled',
           pc = "fill" => Current \in spoiled'
    PROVE  Blanks' /\ TheirsKept' /\ OwnHooksOnce'
<1>1. Blanks'
  BY DEF IInv, Blanks
<1>2. TheirsKept'
  <2> SUFFICES ASSUME NEW f \in Platforms \ {"codex"}, f \notin spoiled'
               PROVE  Theirs(f, files[f]) = theirs[f]
    BY DEF TheirsKept
  <2>1. ~Writing(f) /\ f \notin spoiled
    BY DEF Writing
  <2> QED
    BY <2>1 DEF IInv, TheirsKept
<1>3. OwnHooksOnce'
  BY DEF IInv, OwnHooksOnce
<1> QED
  BY <1>1, <1>2, <1>3

LEMMA InvParts ==
    ASSUME LocalType', FilesType', Blanks', Stages', Held', Truncated', TheirsKept',
           OwnHooksOnce', UninstallClean'
    PROVE  IInv'
<1>1. TypeOK'
  BY DEF LocalType, FilesType, TypeOK, TheirsKind, Hooks
<1> QED
  BY <1>1 DEF IInv

-----------------------------------------------------------------------------
(* The steps of the command that leave the files alone. *)

LEMMA ListsType == \A list \in PlatformLists : list \in Seq(Platforms) /\ list # <<>>
<1> SUFFICES ASSUME NEW list \in PlatformLists PROVE list \in Seq(Platforms) /\ list # <<>>
  OBVIOUS
<1>1. CASE \E p \in Platforms : list = <<p>>
  BY <1>1
<1>2. CASE \E p, q \in Platforms : list = <<p, q>>
  BY <1>2
<1> QED
  BY <1>1, <1>2 DEF PlatformLists

LEMMA CleanKept ==
    ASSUME UninstallClean, UNCHANGED files, gone' \subseteq gone, skill' \subseteq skill
    PROVE  UninstallClean'
BY DEF UninstallClean, Clean

LEMMA StartSetupInv == IInv /\ StartSetup => IInv'
<1> SUFFICES ASSUME IInv, StartSetup PROVE IInv'
  OBVIOUS
<1>1. LocalType /\ FilesType
  BY TypeParts DEF IInv
<1>2. UNCHANGED <<files, skill, bin, held, history>> /\ pc = "idle" /\ pc' = "read" /\ cmd' = "setup"
  BY DEF StartSetup, Go
<1>3. todo' \in PlatformLists /\ skillTodo' \in {<<>>} \cup PlatformLists
  BY DEF StartSetup
<1>4. todo' \in Seq(Platforms) /\ todo' # <<>> /\ skillTodo' \in Seq(Platforms)
  <2>1. PICK list \in PlatformLists : todo' = list
    BY <1>3
  <2>2. list \in Seq(Platforms) /\ list # <<>>
    BY ListsType
  <2>3. PICK rest \in {<<>>} \cup PlatformLists : skillTodo' = rest
    BY <1>3
  <2>4. <<>> \in Seq(Platforms)
    OBVIOUS
  <2>5. rest \in Seq(Platforms)
    BY <2>4, ListsType
  <2> QED
    BY <2>1, <2>2, <2>3, <2>5
<1>5. LocalType' /\ Stages' /\ Resting'
  BY <1>1, <1>2, <1>4 DEF LocalType, Stages, Resting
<1>6. FilesType'
  BY <1>1, <1>2 DEF FilesType, history
<1>7. Blanks' /\ TheirsKept' /\ OwnHooksOnce'
  BY <1>2, FilesKept DEF history
<1>8. UninstallClean'
  BY <1>2, CleanKept DEF history, IInv
<1> QED
  BY <1>5, <1>6, <1>7, <1>8, Rests, InvParts

LEMMA StartUninstallInv == IInv /\ StartUninstall => IInv'
<1> SUFFICES ASSUME IInv, StartUninstall PROVE IInv'
  OBVIOUS
<1>1. LocalType /\ FilesType
  BY TypeParts DEF IInv
<1>2. /\ UNCHANGED <<files, skill, skillTodo, bin, held, history>>
      /\ pc = "idle" /\ pc' = "read" /\ cmd' = "uninstall"
  BY DEF StartUninstall, Go
<1>3. todo' \in Seq(Platforms) /\ todo' # <<>>
  <2>1. PICK list \in PlatformLists : todo' = list
    BY DEF StartUninstall
  <2> QED
    BY <2>1, ListsType
<1>4. LocalType' /\ Stages' /\ Resting'
  BY <1>1, <1>2, <1>3 DEF LocalType, Stages, Resting
<1>5. FilesType'
  BY <1>1, <1>2 DEF FilesType, history
<1>6. Blanks' /\ TheirsKept' /\ OwnHooksOnce'
  BY <1>2, FilesKept DEF history
<1>7. UninstallClean'
  BY <1>2, CleanKept DEF history, IInv
<1> QED
  BY <1>4, <1>5, <1>6, <1>7, Rests, InvParts

LEMMA PanicInv == IInv /\ Panic => IInv'
<1> SUFFICES ASSUME IInv, Panic PROVE IInv'
  OBVIOUS
<1>1. LocalType /\ FilesType
  BY TypeParts DEF IInv
<1>2. UNCHANGED <<files, skill, history>> /\ pc = "read" /\ End
  BY DEF Panic
<1>3. LocalType' /\ Stages' /\ Resting'
  BY <1>2, EndResult
<1>4. FilesType'
  BY <1>1, <1>2 DEF FilesType, history
<1>5. Blanks' /\ TheirsKept' /\ OwnHooksOnce'
  BY <1>2, FilesKept DEF history
<1>6. UninstallClean'
  BY <1>2, CleanKept DEF history, IInv
<1> QED
  BY <1>3, <1>4, <1>5, <1>6, Rests, InvParts

LEMMA SkipInv == IInv /\ Skip => IInv'
<1> SUFFICES ASSUME IInv, Skip PROVE IInv'
  OBVIOUS
<1>1. LocalType /\ FilesType /\ Stages
  BY TypeParts DEF IInv
<1>2. UNCHANGED <<files, skill, history>> /\ pc = "read" /\ NextPlatform
  BY DEF Skip
<1>3. LocalType' /\ Stages' /\ Resting'
  <2>1. todo # <<>> /\ cmd \in {"setup", "uninstall"}
    BY <1>1, <1>2 DEF Stages
  <2> QED
    BY <1>1, <1>2, <2>1, NextPlatformResult
<1>4. FilesType'
  BY <1>1, <1>2 DEF FilesType, history
<1>5. Blanks' /\ TheirsKept' /\ OwnHooksOnce'
  BY <1>2, FilesKept DEF history
<1>6. UninstallClean'
  BY <1>2, CleanKept DEF history, IInv
<1> QED
  BY <1>3, <1>4, <1>5, <1>6, Rests, InvParts

LEMMA CrashInv == IInv /\ Crash => IInv'
<1> SUFFICES ASSUME IInv, Crash PROVE IInv'
  OBVIOUS
<1>1. LocalType /\ FilesType /\ Stages
  BY TypeParts DEF IInv
<1>2. UNCHANGED <<files, skill, theirs, installed, gone>> /\ End
  BY DEF Crash
<1>3. spoiled' = IF pc = "fill" THEN spoiled \cup {Current} ELSE spoiled
  BY DEF Crash
<1>4. LocalType' /\ Stages' /\ Resting'
  BY <1>2, EndResult
<1>5. FilesType'
  <2>1. pc = "fill" => Current \in Platforms
    BY <1>1 DEF Stages, LocalType, Current
  <2> QED
    BY <1>1, <1>2, <1>3, <2>1 DEF FilesType
<1>6. Blanks' /\ TheirsKept' /\ OwnHooksOnce'
  <2>1. spoiled \subseteq spoiled' /\ (pc = "fill" => Current \in spoiled')
    BY <1>3
  <2> QED
    BY <1>2, <2>1, FilesKept
<1>7. UninstallClean'
  BY <1>2, CleanKept DEF IInv
<1> QED
  BY <1>4, <1>5, <1>6, <1>7, Rests, InvParts

LEMMA InstallSkillInv == IInv /\ InstallSkill => IInv'
<1> SUFFICES ASSUME IInv, InstallSkill PROVE IInv'
  OBVIOUS
<1>1. LocalType /\ FilesType /\ Stages
  BY TypeParts DEF IInv
<1>2. /\ UNCHANGED <<files, theirs, spoiled, installed>>
      /\ pc = "skills" /\ cmd = "setup"
      /\ skill' \in {skill, skill \cup {Head(skillTodo)}}
      /\ gone' = gone \ {Head(skillTodo)}
  BY DEF InstallSkill
<1>3. skillTodo # <<>> /\ skillTodo \in Seq(Platforms)
  BY <1>1, <1>2 DEF Stages, LocalType
<1>4. PICK p \in Platforms : p = Head(skillTodo)
  BY <1>3
<1>5. LocalType' /\ Stages' /\ Resting'
  <2>1. CASE Len(skillTodo) > 1
    <3>1. skillTodo' = Tail(skillTodo) /\ UNCHANGED <<pc, cmd, todo, bin, held>>
      BY <2>1 DEF InstallSkill
    <3>2. Tail(skillTodo) \in Seq(Platforms) /\ Tail(skillTodo) # <<>>
      BY <1>3, <2>1, TailMore
    <3> QED
      BY <1>1, <1>2, <3>1, <3>2 DEF LocalType, Stages, Resting
  <2>2. CASE ~(Len(skillTodo) > 1)
    <3>1. End
      BY <2>2 DEF InstallSkill
    <3> QED
      BY <3>1, EndResult
  <2> QED
    BY <2>1, <2>2
<1>6. FilesType'
  BY <1>1, <1>2, <1>4 DEF FilesType
<1>7. Blanks' /\ TheirsKept' /\ OwnHooksOnce'
  BY <1>2, FilesKept
<1>8. UninstallClean'
  <2> SUFFICES ASSUME NEW f \in gone' PROVE Clean(files[f])' /\ f \notin skill'
    BY DEF UninstallClean
  <2>1. f \in gone /\ f # p
    BY <1>2, <1>4
  <2> QED
    BY <1>2, <1>4, <2>1 DEF IInv, UninstallClean, Clean
<1> QED
  BY <1>5, <1>6, <1>7, <1>8, Rests, InvParts

-----------------------------------------------------------------------------
(* The reads. *)

LEMMA ParsedResult ==
    ASSUME NEW file \in File, NEW old, old = Parsed(file)
    PROVE  old \in File /\ old.state = "text"
<1>1. Blank("text") \in File
  BY BlankType
<1>2. Blank("text").state = "text"
  BY DEF Blank
<1> QED
  BY <1>1, <1>2 DEF Parsed

LEMMA BlankTheirs == \A p, s, t : Theirs(p, Blank(s)) = Theirs(p, Blank(t))
BY DEF Theirs, Blank

(* Nothing of the others' is lost by reading a file that is what they      *)
(* left, unless it is no JSON.                                             *)
LEMMA ParsedTheirs ==
    ASSUME NEW p, NEW file \in File,
           file.state \in {"absent", "empty"} => file = Blank(file.state),
           file.state \notin {"null", "broken"}
    PROVE  Theirs(p, Parsed(file)) = Theirs(p, file)
<1>1. CASE file.state = "text"
  BY <1>1 DEF Parsed
<1>2. CASE file.state \in {"absent", "empty"}
  BY <1>2, BlankTheirs DEF Parsed
<1> QED
  BY <1>1, <1>2 DEF File

LEMMA ReadForSetupInv == IInv /\ ReadForSetup => IInv'
<1> SUFFICES ASSUME IInv, ReadForSetup PROVE IInv'
  OBVIOUS
<1>1. LocalType /\ FilesType /\ Stages /\ Blanks
  BY TypeParts DEF IInv
<1>2. /\ cmd = "setup" /\ pc = "read" /\ pc' = "cut"
      /\ UNCHANGED <<files, skill, cmd, todo, skillTodo, theirs, installed, gone>>
      /\ spoiled' = IF files[Current].state = "broken" THEN spoiled \cup {Current} ELSE spoiled
      /\ files[Current].state # "null"
  BY DEF ReadForSetup, Go
<1>3. todo # <<>> /\ todo \in Seq(Platforms)
  BY <1>1, <1>2 DEF Stages, LocalType
<1>4. PICK p \in Platforms : p = Current
  BY <1>3 DEF Current
<1>5. Current' = p
  BY <1>2, <1>4 DEF Current
<1>6. PICK file \in File : file = files[p]
  BY <1>1 DEF FilesType
<1>7. PICK old \in File : old = Parsed(file) /\ old.state = "text"
  BY ParsedResult
<1>8. old.hooks \in Hooks
  BY DEF File, Hooks
<1>9. PICK b \in Binaries :
         LET new == BuildPlatformHooks(p, b)
             apply == IF p = "codex" THEN ApplyHooksCodex(old.hooks, new)
                      ELSE ApplyHooks(old.hooks, new)
         IN  /\ bin' = b
             /\ held' = [old EXCEPT !.hasHooks = TRUE, !.hooks = apply]
  BY <1>4, <1>6, <1>7, Zenon DEF ReadForSetup
<1>10. PICK new : new = BuildPlatformHooks(p, b)
  OBVIOUS
<1>11. PICK hooks : hooks = IF p = "codex" THEN ApplyHooksCodex(old.hooks, new)
                            ELSE ApplyHooks(old.hooks, new)
  OBVIOUS
<1>12. bin' = b /\ held' = [old EXCEPT !.hasHooks = TRUE, !.hooks = hooks]
  BY <1>9, <1>10, <1>11
<1>13. /\ hooks \in Hooks
       /\ p # "codex" => \A e \in Events :
             Only(hooks[e], Foreign(p, e)) = Only(old.hooks[e], Foreign(p, e))
       /\ Binaries \subseteq Constitutional =>
             \A e \in Events : Used(p, e) => Only(hooks[e], Own) = new[e]
  <2>1. CASE p = "codex"
    BY <2>1, <1>8, <1>10, <1>11, ApplyCodexResult
  <2>2. CASE p # "codex"
    BY <2>2, <1>8, <1>10, <1>11, ApplyResult
  <2> QED
    BY <2>1, <2>2
<1>14. PICK h \in File : h = held' /\ h.state = "text" /\ h.hooks = hooks /\ h.settings = old.settings
  <2>1. PICK h : h = [old EXCEPT !.hasHooks = TRUE, !.hooks = hooks]
    OBVIOUS
  <2>2. h \in File
    BY <2>1, <1>13, Zenon DEF File, Hooks
  <2>3. h.state = "text" /\ h.hooks = hooks /\ h.settings = old.settings
    BY <2>1, <1>7 DEF File
  <2> QED
    BY <1>12, <2>1, <2>2, <2>3
<1>15. LocalType' /\ Stages'
  BY <1>1, <1>2, <1>3, <1>12, <1>14 DEF LocalType, Stages
<1>16. FilesType'
  BY <1>1, <1>2, <1>4 DEF FilesType
<1>17. Blanks' /\ TheirsKept' /\ OwnHooksOnce'
  <2>1. spoiled \subseteq spoiled' /\ pc # "fill"
    BY <1>2
  <2> QED
    BY <1>2, <2>1, FilesKept
<1>18. UninstallClean'
  BY <1>2, CleanKept DEF IInv
<1>19. p \notin {"codex"} \cup spoiled' => Theirs(p, h) = theirs[p]
  <2> SUFFICES ASSUME p # "codex", p \notin spoiled' PROVE Theirs(p, h) = theirs[p]
    OBVIOUS
  <2>1. file.state \notin {"null", "broken"} /\ p \notin spoiled
    BY <1>2, <1>4, <1>6
  <2>2. Theirs(p, file) = theirs[p]
    BY <2>1, <1>2, <1>6 DEF IInv, TheirsKept, Writing
  <2>3. Theirs(p, old) = Theirs(p, file)
    BY <1>1, <1>6, <1>7, <2>1, ParsedTheirs DEF Blanks
  <2>4. Theirs(p, h) = Theirs(p, old)
    BY <1>13, <1>14, TheirsSame
  <2> QED
    BY <2>2, <2>3, <2>4
<1>20. Binaries \subseteq Constitutional => HasOwn(h, p, b)
  BY <1>10, <1>13, <1>14 DEF HasOwn
<1>21. Held'
  BY <1>2, <1>5, <1>12, <1>14, <1>19, <1>20 DEF Held
<1>22. Truncated'
  BY <1>2 DEF Truncated
<1> QED
  BY <1>15, <1>16, <1>17, <1>18, <1>21, <1>22, InvParts

LEMMA ReadForUninstallInv == IInv /\ ReadForUninstall => IInv'
<1> SUFFICES ASSUME IInv, ReadForUninstall PROVE IInv'
  OBVIOUS
<1>1. LocalType /\ FilesType /\ Stages
  BY TypeParts DEF IInv
<1>2. /\ cmd = "uninstall" /\ pc = "read" /\ pc' = "cut"
      /\ UNCHANGED <<files, skill, cmd, todo, skillTodo, bin, history>>
      /\ files[Current].state = "text"
  BY DEF ReadForUninstall, Go
<1>3. todo # <<>> /\ todo \in Seq(Platforms)
  BY <1>1, <1>2 DEF Stages, LocalType
<1>4. PICK p \in Platforms : p = Current
  BY <1>3 DEF Current
<1>5. Current' = p
  BY <1>2, <1>4 DEF Current
<1>6. PICK file \in File : file = files[p]
  BY <1>1 DEF FilesType
<1>7. file.hooks \in Hooks
  BY DEF File, Hooks
<1>8. PICK hooks : hooks = RemoveHooks(file.hooks)
  OBVIOUS
<1>9. PICK has \in BOOLEAN : has = (hooks # NoHooks)
  OBVIOUS
<1>10. held' = [file EXCEPT !.hooks = hooks, !.hasHooks = has]
  BY <1>4, <1>6, <1>8, <1>9, Zenon DEF ReadForUninstall
<1>11. /\ hooks \in Hooks
       /\ \A e \in Events :
             Only(hooks[e], Foreign(p, e)) = Only(file.hooks[e], Foreign(p, e))
       /\ \A e \in Events : \A i \in DOMAIN hooks[e] : ~IsConstitution(hooks[e][i])
  BY <1>7, <1>8, RemoveResult
<1>12. PICK h \in File : h = held' /\ h.state = "text" /\ h.hooks = hooks /\ h.settings = file.settings
  <2>1. PICK h : h = [file EXCEPT !.hooks = hooks, !.hasHooks = has]
    OBVIOUS
  <2>2. h \in File
    BY <2>1, <1>9, <1>11, Zenon DEF File, Hooks
  <2>3. h.state = "text" /\ h.hooks = hooks /\ h.settings = file.settings
    BY <2>1, <1>2, <1>4, <1>6 DEF File
  <2> QED
    BY <1>10, <2>1, <2>2, <2>3
<1>13. LocalType' /\ Stages'
  BY <1>1, <1>2, <1>3, <1>12 DEF LocalType, Stages
<1>14. FilesType'
  BY <1>1, <1>2 DEF FilesType, history
<1>15. Blanks' /\ TheirsKept' /\ OwnHooksOnce'
  BY <1>2, FilesKept DEF history
<1>16. UninstallClean'
  BY <1>2, CleanKept DEF IInv, history
<1>17. p \notin {"codex"} \cup spoiled => Theirs(p, h) = theirs[p]
  <2> SUFFICES ASSUME p # "codex", p \notin spoiled PROVE Theirs(p, h) = theirs[p]
    OBVIOUS
  <2>1. Theirs(p, file) = theirs[p]
    BY <1>2, <1>6 DEF IInv, TheirsKept, Writing
  <2>2. Theirs(p, h) = Theirs(p, file)
    BY <1>11, <1>12, TheirsSame
  <2> QED
    BY <2>1, <2>2
<1>18. Clean(h)
  BY <1>11, <1>12 DEF Clean
<1>19. Held'
  BY <1>2, <1>5, <1>12, <1>17, <1>18 DEF Held, history
<1>20. Truncated'
  BY <1>2 DEF Truncated
<1> QED
  BY <1>13, <1>14, <1>15, <1>16, <1>19, <1>20, InvParts

-----------------------------------------------------------------------------
(* The writes. *)

(* What a step that writes the present platform's file may start from. *)
LEMMA WriteParts ==
    ASSUME IInv, pc \in {"cut", "fill"}
    PROVE  /\ LocalType /\ FilesType /\ Stages /\ Held /\ Truncated
           /\ todo # <<>> /\ cmd \in {"setup", "uninstall"}
           /\ Current \in Platforms
           /\ held \in File /\ held.state = "text"
<1>1. LocalType /\ FilesType /\ Stages /\ Held /\ Truncated
  BY TypeParts DEF IInv
<1>2. todo # <<>> /\ cmd \in {"setup", "uninstall"} /\ todo \in Seq(Platforms)
  BY <1>1 DEF Stages, LocalType
<1> QED
  BY <1>1, <1>2 DEF LocalType, Held, Current

(* After a write nothing is in memory, or what uninstall has written is,   *)
(* for it to look at when it has removed the skill.                        *)
LEMMA AfterWriteHeld ==
    ASSUME IInv, pc \in {"cut", "fill"}, AfterWrite
    PROVE  LocalType' /\ Stages' /\ Held' /\ Truncated' /\ pc' # "fill"
<1>1. /\ LocalType' /\ Stages'
      /\ Resting' \/ (cmd = "uninstall" /\ pc' = "skills" /\ held' = held)
  BY WriteParts, AfterWriteResult
<1>2. CASE Resting'
  <2>1. Held' /\ Truncated'
    BY <1>2, Rests
  <2>2. pc' # "fill"
    BY <1>2 DEF Resting
  <2> QED
    BY <1>1, <2>1, <2>2
<1>3. CASE cmd = "uninstall" /\ pc' = "skills" /\ held' = held
  <2>1. Clean(held)
    BY <1>3, WriteParts DEF Held
  <2>2. Clean(held')
    BY <1>3, <2>1
  <2>3. Held'
    BY <1>3, <2>2 DEF Held, Clean
  <2> QED
    BY <1>1, <1>3, <2>3 DEF Truncated
<1> QED
  BY <1>1, <1>2, <1>3

LEMMA CutInv == IInv /\ Cut => IInv'
<1> SUFFICES ASSUME IInv, Cut PROVE IInv'
  OBVIOUS
<1>1. /\ pc = "cut" /\ pc' = "fill"
      /\ UNCHANGED <<skill, cmd, todo, skillTodo, bin, held, theirs, spoiled>>
  BY DEF Cut, Go
<1>2. PICK p \in Platforms : p = Current
  BY <1>1, WriteParts
<1>3. /\ files' = [files EXCEPT ![p] = Blank("empty")]
      /\ installed' = [installed EXCEPT ![p] = NoBinary]
      /\ gone' = gone \ {p}
  BY <1>2 DEF Cut
<1>4. LocalType /\ FilesType /\ Stages /\ Held
  BY <1>1, WriteParts
<1>5. PICK empty \in File : empty = Blank("empty") /\ empty.state = "empty"
  <2>1. Blank("empty").state = "empty"
    BY DEF Blank
  <2> QED
    BY <2>1, BlankType
<1>6. Current' = p
  BY <1>1, <1>2 DEF Current
<1>7. LocalType' /\ Stages'
  BY <1>1, <1>4 DEF LocalType, Stages
<1>8. FilesType'
  BY <1>1, <1>3, <1>4, <1>5 DEF FilesType
<1>9. \A f \in Platforms : files'[f] = (IF f = p THEN empty ELSE files[f])
  BY <1>3, <1>4, <1>5 DEF FilesType
<1>10. \A f \in Platforms : installed'[f] = (IF f = p THEN NoBinary ELSE installed[f])
  BY <1>3, <1>4 DEF FilesType
<1>11. Blanks'
  BY <1>5, <1>9 DEF IInv, Blanks
<1>12. TheirsKept'
  <2> SUFFICES ASSUME NEW f \in Platforms \ {"codex"}, ~Writing(f)', f \notin spoiled'
               PROVE  Theirs(f, files'[f]) = theirs'[f]
    BY DEF TheirsKept
  <2>1. f # p
    BY <1>1, <1>6 DEF Writing
  <2>2. ~Writing(f) /\ f \notin spoiled
    BY <1>1 DEF Writing
  <2>3. Theirs(f, files[f]) = theirs[f]
    BY <2>2 DEF IInv, TheirsKept
  <2> QED
    BY <1>1, <1>9, <2>1, <2>3
<1>13. OwnHooksOnce'
  BY <1>9, <1>10 DEF IInv, OwnHooksOnce
<1>14. UninstallClean'
  <2> SUFFICES ASSUME NEW f \in gone' PROVE Clean(files'[f]) /\ f \notin skill'
    BY DEF UninstallClean
  <2>1. f # p /\ f \in gone /\ f \in Platforms
    BY <1>3, <1>4 DEF FilesType
  <2>2. Clean(files[f]) /\ f \notin skill
    BY <2>1 DEF IInv, UninstallClean
  <2> QED
    BY <1>1, <1>9, <2>1, <2>2
<1>15. Held'
  BY <1>1, <1>2, <1>4, <1>6 DEF Held, Clean, HasOwn, Theirs
<1>16. Truncated'
  BY <1>1, <1>3, <1>5, <1>6, <1>9, <1>10 DEF Truncated
<1> QED
  BY <1>7, <1>8, <1>11, <1>12, <1>13, <1>14, <1>15, <1>16, InvParts

LEMMA CutFailsInv == IInv /\ CutFails => IInv'
<1> SUFFICES ASSUME IInv, CutFails PROVE IInv'
  OBVIOUS
<1>1. pc = "cut" /\ AfterWrite /\ UNCHANGED <<files, skill, history>>
  BY DEF CutFails
<1>2. LocalType' /\ Stages' /\ Held' /\ Truncated'
  BY <1>1, AfterWriteHeld
<1>3. FilesType'
  BY <1>1, TypeParts DEF IInv, FilesType, history
<1>4. Blanks' /\ TheirsKept' /\ OwnHooksOnce'
  BY <1>1, FilesKept DEF history
<1>5. UninstallClean'
  BY <1>1, CleanKept DEF history, IInv
<1> QED
  BY <1>2, <1>3, <1>4, <1>5, InvParts

LEMMA FillInv == IInv /\ Fill => IInv'
<1> SUFFICES ASSUME IInv, Fill PROVE IInv'
  OBVIOUS
<1>1. pc = "fill" /\ AfterWrite /\ UNCHANGED <<skill, theirs, spoiled, gone>>
  BY DEF Fill
<1>2. PICK p \in Platforms : p = Current
  BY <1>1, WriteParts
<1>3. PICK file \in Overwritten(files[p], held) :
         /\ files' = [files EXCEPT ![p] = file]
         /\ installed' = [installed EXCEPT ![p] =
                             IF cmd = "setup" /\ file = held THEN bin ELSE NoBinary]
  BY <1>2 DEF Fill
<1>4. LocalType /\ FilesType /\ Held /\ Truncated /\ held \in File /\ held.state = "text"
  BY <1>1, WriteParts
<1>5. LocalType' /\ Stages' /\ Held' /\ Truncated' /\ pc' # "fill"
  BY <1>1, AfterWriteHeld
<1>6. Blank("broken") \in File /\ Blank("broken").state = "broken"
  <2>1. Blank("broken").state = "broken"
    BY DEF Blank
  <2> QED
    BY <2>1, BlankType
<1>7. file \in File /\ file \in {held, files[p], Blank("broken")}
  BY <1>3, <1>4, <1>6 DEF Overwritten, FilesType
<1>8. PICK b \in Binaries \cup {NoBinary} :
         b = IF cmd = "setup" /\ file = held THEN bin ELSE NoBinary
  BY <1>4 DEF LocalType
<1>9. FilesType'
  BY <1>1, <1>3, <1>4, <1>7, <1>8 DEF FilesType
<1>10. \A f \in Platforms : files'[f] = (IF f = p THEN file ELSE files[f])
  BY <1>3, <1>4 DEF FilesType
<1>11. \A f \in Platforms : installed'[f] = (IF f = p THEN b ELSE installed[f])
  BY <1>3, <1>4, <1>8 DEF FilesType
<1>12. Blanks'
  <2>1. file.state \in {"absent", "empty"} => file = Blank(file.state)
    BY <1>4, <1>6, <1>7 DEF IInv, Blanks
  <2> QED
    BY <1>10, <2>1 DEF IInv, Blanks
<1>13. TheirsKept'
  <2> SUFFICES ASSUME NEW f \in Platforms \ {"codex"}, f \notin spoiled'
               PROVE  Theirs(f, files'[f]) = theirs'[f]
    BY DEF TheirsKept
  <2>1. CASE f = p
    <3>1. files[p] = Blank("empty")
      BY <1>1, <1>2, <1>4, <2>1 DEF Truncated
    <3>2. file = held
      BY <1>3, <3>1 DEF Overwritten
    <3>3. Theirs(p, held) = theirs[p]
      BY <1>1, <1>2, <1>4, <2>1 DEF Held
    <3> QED
      BY <1>1, <1>10, <2>1, <3>2, <3>3
  <2>2. CASE f # p
    <3>1. ~Writing(f)
      BY <1>2, <2>2 DEF Writing
    <3>2. Theirs(f, files[f]) = theirs[f]
      BY <1>1, <3>1 DEF IInv, TheirsKept
    <3> QED
      BY <1>1, <1>10, <2>2, <3>2
  <2> QED
    BY <2>1, <2>2
<1>14. OwnHooksOnce'
  <2> SUFFICES ASSUME NEW f \in Platforms, installed'[f] # NoBinary,
                      Binaries \subseteq Constitutional, NEW e \in Events,
                      BuildPlatformHooks(f, installed'[f])[e] # <<>>
               PROVE  Only(files'[f].hooks[e], Own) = BuildPlatformHooks(f, installed'[f])[e]
    BY DEF OwnHooksOnce
  <2>1. CASE f = p
    <3>1. installed'[f] = b /\ files'[f] = file
      BY <1>10, <1>11, <2>1
    <3>2. cmd = "setup" /\ file = held /\ b = bin
      BY <1>8, <3>1
    <3>3. HasOwn(held, p, b) /\ b \in Binaries
      BY <1>1, <1>2, <1>4, <3>2 DEF Held
    <3>4. BuildPlatformHooks(p, b) [e] # <<>>
      BY <2>1, <3>1
    <3>5. Used(p, e)
      BY <3>3, <3>4, BuildResult
    <3> QED
      BY <2>1, <3>1, <3>2, <3>3, <3>5 DEF HasOwn
  <2>2. CASE f # p
    BY <1>10, <1>11, <2>2 DEF IInv, OwnHooksOnce
  <2> QED
    BY <2>1, <2>2
<1>15. UninstallClean'
  <2> SUFFICES ASSUME NEW f \in gone' PROVE Clean(files'[f]) /\ f \notin skill'
    BY DEF UninstallClean
  <2>1. f # p /\ f \in gone /\ f \in Platforms
    BY <1>1, <1>2, <1>4 DEF FilesType, Truncated
  <2>2. Clean(files[f]) /\ f \notin skill
    BY <2>1 DEF IInv, UninstallClean
  <2> QED
    BY <1>1, <1>10, <2>1, <2>2
<1> QED
  BY <1>5, <1>9, <1>12, <1>13, <1>14, <1>15, InvParts

LEMMA FillFailsInv == IInv /\ FillFails => IInv'
<1> SUFFICES ASSUME IInv, FillFails PROVE IInv'
  OBVIOUS
<1>1. pc = "fill" /\ AfterWrite /\ UNCHANGED <<skill, theirs, installed, gone>>
  BY DEF FillFails
<1>2. PICK p \in Platforms : p = Current
  BY <1>1, WriteParts
<1>3. PICK file \in {files[p], Blank("broken")} : files' = [files EXCEPT ![p] = file]
  BY <1>2 DEF FillFails
<1>4. spoiled' = spoiled \cup {p}
  BY <1>2 DEF FillFails
<1>5. LocalType /\ FilesType /\ Truncated
  BY <1>1, WriteParts
<1>6. LocalType' /\ Stages' /\ Held' /\ Truncated' /\ pc' # "fill"
  BY <1>1, AfterWriteHeld
<1>7. Blank("broken") \in File /\ Blank("broken").state = "broken"
  <2>1. Blank("broken").state = "broken"
    BY DEF Blank
  <2> QED
    BY <2>1, BlankType
<1>8. file \in File
  BY <1>3, <1>5, <1>7 DEF FilesType
<1>9. FilesType'
  BY <1>1, <1>3, <1>4, <1>5, <1>8 DEF FilesType
<1>10. \A f \in Platforms : files'[f] = (IF f = p THEN file ELSE files[f])
  BY <1>3, <1>5 DEF FilesType
<1>11. Blanks'
  BY <1>3, <1>7, <1>10 DEF IInv, Blanks
<1>12. TheirsKept'
  <2> SUFFICES ASSUME NEW f \in Platforms \ {"codex"}, f \notin spoiled'
               PROVE  Theirs(f, files'[f]) = theirs'[f]
    BY DEF TheirsKept
  <2>1. f # p /\ f \notin spoiled
    BY <1>4
  <2>2. ~Writing(f)
    BY <1>2, <2>1 DEF Writing
  <2>3. Theirs(f, files[f]) = theirs[f]
    BY <2>1, <2>2 DEF IInv, TheirsKept
  <2> QED
    BY <1>1, <1>10, <2>1, <2>3
<1>13. OwnHooksOnce'
  <2>1. installed[p] = NoBinary
    BY <1>1, <1>2, <1>5 DEF Truncated
  <2> QED
    BY <1>1, <1>10, <2>1 DEF IInv, OwnHooksOnce
<1>14. UninstallClean'
  <2> SUFFICES ASSUME NEW f \in gone' PROVE Clean(files'[f]) /\ f \notin skill'
    BY DEF UninstallClean
  <2>1. f # p /\ f \in gone /\ f \in Platforms
    BY <1>1, <1>2, <1>5 DEF FilesType, Truncated
  <2>2. Clean(files[f]) /\ f \notin skill
    BY <2>1 DEF IInv, UninstallClean
  <2> QED
    BY <1>1, <1>10, <2>1, <2>2
<1> QED
  BY <1>6, <1>9, <1>11, <1>12, <1>13, <1>14, InvParts

LEMMA RemoveSkillInv == IInv /\ RemoveSkill => IInv'
<1> SUFFICES ASSUME IInv, RemoveSkill PROVE IInv'
  OBVIOUS
<1>1. /\ pc = "skills" /\ cmd = "uninstall" /\ NextPlatform
      /\ UNCHANGED <<files, theirs, spoiled, installed>>
  BY DEF RemoveSkill
<1>2. LocalType /\ FilesType /\ Stages /\ Held
  BY TypeParts DEF IInv
<1>3. todo # <<>> /\ todo \in Seq(Platforms)
  BY <1>1, <1>2 DEF Stages, LocalType
<1>4. PICK p \in Platforms : p = Current
  BY <1>3 DEF Current
<1>5. skill' = skill \ {p} /\ gone' = IF files[p] = held THEN gone \cup {p} ELSE gone
  BY <1>4 DEF RemoveSkill
<1>6. LocalType' /\ Stages' /\ Resting'
  BY <1>1, <1>2, <1>3, NextPlatformResult
<1>7. FilesType'
  BY <1>1, <1>2, <1>5 DEF FilesType
<1>8. Blanks' /\ TheirsKept' /\ OwnHooksOnce'
  BY <1>1, FilesKept
<1>9. UninstallClean'
  <2> SUFFICES ASSUME NEW f \in gone' PROVE Clean(files'[f]) /\ f \notin skill'
    BY DEF UninstallClean
  <2>1. CASE f \in gone
    BY <1>1, <1>5, <2>1 DEF IInv, UninstallClean
  <2>2. CASE f \notin gone
    <3>1. f = p /\ files[p] = held
      BY <1>5, <2>2
    <3>2. Clean(held)
      BY <1>1, <1>2 DEF Held
    <3> QED
      BY <1>1, <1>5, <3>1, <3>2
  <2> QED
    BY <2>1, <2>2
<1> QED
  BY <1>6, <1>7, <1>8, <1>9, Rests, InvParts

-----------------------------------------------------------------------------
(* The edits of others. *)

LEMMA EditInv ==
    ASSUME IInv, NEW f \in Platforms, NEW file \in File, Edit(f, file),
           file.state \in {"absent", "empty"} => file = Blank(file.state)
    PROVE  IInv'
<1>1. LocalType /\ FilesType /\ Stages /\ Held /\ Truncated
  BY TypeParts DEF IInv
<1>2. /\ files' = [files EXCEPT ![f] = file]
      /\ theirs' = [theirs EXCEPT ![f] = Theirs(f, file)]
      /\ gone' = IF Clean(file) THEN gone ELSE gone \ {f}
      /\ UNCHANGED <<skill, pc, cmd, todo, skillTodo, bin, held>>
  BY DEF Edit, local
<1>3. PICK own \in BOOLEAN :
         own = \A e \in Events : Only(file.hooks[e], Own) = Only(files[f].hooks[e], Own)
  OBVIOUS
<1>4. installed' = [installed EXCEPT ![f] = IF own THEN @ ELSE NoBinary]
  BY <1>3 DEF Edit
<1>5. spoiled' = IF pc \in {"cut", "fill"} /\ Current = f THEN spoiled \cup {f} ELSE spoiled \ {f}
  BY DEF Edit
<1>6. Current' = Current
  BY <1>2 DEF Current
<1>7. \A g \in Platforms : files'[g] = (IF g = f THEN file ELSE files[g])
  BY <1>1, <1>2 DEF FilesType
<1>8. \A g \in Platforms : theirs'[g] = (IF g = f THEN Theirs(f, file) ELSE theirs[g])
  BY <1>1, <1>2 DEF FilesType
<1>9. \A g \in Platforms :
         installed'[g] = (IF g = f THEN IF own THEN installed[f] ELSE NoBinary ELSE installed[g])
  BY <1>1, <1>4 DEF FilesType
<1>10. LocalType' /\ Stages'
  BY <1>1, <1>2 DEF LocalType, Stages
<1>11. FilesType'
  <2>1. files' \in [Platforms -> File]
    BY <1>1, <1>2 DEF FilesType
  <2>2. theirs' \in [Platforms -> TheirsKind]
    BY <1>1, <1>2, TheirsType DEF FilesType
  <2>3. installed' \in [Platforms -> Binaries \cup {NoBinary}]
    BY <1>1, <1>4 DEF FilesType
  <2>4. skill' \subseteq Platforms /\ spoiled' \subseteq Platforms /\ gone' \subseteq Platforms
    BY <1>1, <1>2, <1>5 DEF FilesType
  <2> QED
    BY <2>1, <2>2, <2>3, <2>4 DEF FilesType
<1>12. Blanks'
  BY <1>7 DEF IInv, Blanks
<1>13. pc \in {"cut", "fill"} => Current \in Platforms
  BY <1>1 DEF Stages, LocalType, Current
<1>14. pc \in {"cut", "fill"} /\ Current \notin spoiled' => Current # f /\ Current \notin spoiled
  BY <1>5
<1>15. Held'
  <2>1. ASSUME pc \in {"cut", "fill"}, Current \notin {"codex"} \cup spoiled'
        PROVE  Theirs(Current, held) = theirs'[Current]
    BY <1>1, <1>8, <1>13, <1>14, <2>1 DEF Held
  <2>2. pc' \in {"cut", "fill"} => held'.state = "text"
    BY <1>1, <1>2 DEF Held
  <2>3. pc' \in {"cut", "fill"} /\ Current' \notin {"codex"} \cup spoiled'
           => Theirs(Current', held') = theirs'[Current']
    BY <1>2, <1>6, <2>1
  <2>4. pc' \in {"cut", "fill"} /\ cmd' = "setup" =>
           /\ bin' \in Binaries
           /\ Binaries \subseteq Constitutional => HasOwn(held', Current', bin')
    BY <1>1, <1>2, <1>6 DEF Held
  <2>5. pc' \in {"cut", "fill", "skills"} /\ cmd' = "uninstall" => Clean(held')
    BY <1>1, <1>2 DEF Held
  <2> QED
    BY <2>2, <2>3, <2>4, <2>5 DEF Held
<1>16. Truncated'
  <2> SUFFICES ASSUME pc = "fill"
               PROVE  /\ Current \notin gone'
                      /\ installed'[Current] = NoBinary
                      /\ Current \notin spoiled' => files'[Current] = Blank("empty")
    BY <1>2, <1>6 DEF Truncated
  <2>1. Current \notin gone'
    BY <1>1, <1>2 DEF Truncated
  <2>2. installed'[Current] = NoBinary
    BY <1>1, <1>9, <1>13 DEF Truncated
  <2>3. Current \notin spoiled' => files'[Current] = Blank("empty")
    BY <1>1, <1>7, <1>13, <1>14 DEF Truncated
  <2> QED
    BY <2>1, <2>2, <2>3
<1>17. TheirsKept'
  <2> SUFFICES ASSUME NEW g \in Platforms \ {"codex"}, ~Writing(g)', g \notin spoiled'
               PROVE  Theirs(g, files'[g]) = theirs'[g]
    BY DEF TheirsKept
  <2>1. CASE g = f
    BY <1>7, <1>8, <2>1
  <2>2. CASE g # f
    <3>1. ~Writing(g) /\ g \notin spoiled
      BY <1>2, <1>5, <1>6, <2>2 DEF Writing
    <3>2. Theirs(g, files[g]) = theirs[g]
      BY <3>1 DEF IInv, TheirsKept
    <3> QED
      BY <1>7, <1>8, <2>2, <3>2
  <2> QED
    BY <2>1, <2>2
<1>18. OwnHooksOnce'
  <2> SUFFICES ASSUME NEW g \in Platforms, installed'[g] # NoBinary,
                      Binaries \subseteq Constitutional, NEW e \in Events,
                      BuildPlatformHooks(g, installed'[g])[e] # <<>>
               PROVE  Only(files'[g].hooks[e], Own) = BuildPlatformHooks(g, installed'[g])[e]
    BY DEF OwnHooksOnce
  <2>1. installed'[g] = installed[g]
    BY <1>9
  <2>2. Only(files'[g].hooks[e], Own) = Only(files[g].hooks[e], Own)
    BY <1>3, <1>7, <1>9
  <2>3. Only(files[g].hooks[e], Own) = BuildPlatformHooks(g, installed[g])[e]
    BY <2>1 DEF IInv, OwnHooksOnce
  <2> QED
    BY <2>1, <2>2, <2>3
<1>19. UninstallClean'
  <2> SUFFICES ASSUME NEW g \in gone' PROVE Clean(files'[g]) /\ g \notin skill'
    BY DEF UninstallClean
  <2>1. g \in gone /\ g \in Platforms /\ (g = f => Clean(file))
    BY <1>1, <1>2 DEF FilesType
  <2>2. Clean(files[g]) /\ g \notin skill
    BY <2>1 DEF IInv, UninstallClean
  <2> QED
    BY <1>2, <1>7, <2>1, <2>2
<1> QED
  BY <1>10, <1>11, <1>12, <1>15, <1>16, <1>17, <1>18, <1>19, InvParts

(* A file whose groups at one event are others. *)
LEMMA GroupsEdited ==
    ASSUME NEW old \in File, NEW e \in Events, NEW groups \in Seq(Group), NEW file,
           file = [old EXCEPT !.state = "text", !.hasHooks = TRUE, !.hooks[e] = groups]
    PROVE  file \in File /\ file.state = "text"
<1>1. old.hooks \in Hooks
  BY DEF File, Hooks
<1>2. PICK hooks \in Hooks : hooks = [old.hooks EXCEPT ![e] = groups]
  BY <1>1 DEF Hooks
<1>3. file = [old EXCEPT !.state = "text", !.hasHooks = TRUE, !.hooks = hooks]
  BY <1>2 DEF File
<1>4. file \in File
  BY <1>2, <1>3, Zenon DEF File, Hooks
<1> QED
  BY <1>3, <1>4 DEF File

LEMMA AddGroupInv == \A f \in Platforms : IInv /\ AddGroup(f) => IInv'
<1> SUFFICES ASSUME NEW f \in Platforms, IInv, AddGroup(f) PROVE IInv'
  OBVIOUS
<1>1. PICK old \in File : old = files[f]
  BY TypeParts DEF IInv, FilesType
<1>2. PICK e \in TheirEvents[f], g \in TheirGroups :
         Edit(f, [files[f] EXCEPT !.state = "text", !.hasHooks = TRUE,
                                  !.hooks[e] = Append(@, g)])
  BY DEF AddGroup
<1>3. e \in Events /\ g \in Group
  BY TheirEventsAssumption, TheirGroupsAssumption
<1>4. PICK groups \in Seq(Group) : groups = Append(old.hooks[e], g)
  <2>1. PICK present \in Seq(Group) : present = old.hooks[e]
    BY <1>3 DEF File
  <2>2. Append(present, g) \in Seq(Group)
    BY <1>3
  <2> QED
    BY <2>1, <2>2
<1>5. PICK file : file = [old EXCEPT !.state = "text", !.hasHooks = TRUE, !.hooks[e] = groups]
  OBVIOUS
<1>6. file \in File /\ file.state = "text"
  BY <1>3, <1>5, GroupsEdited
<1>7. Edit(f, file)
  BY <1>1, <1>2, <1>4, <1>5
<1> QED
  BY <1>6, <1>7, EditInv

LEMMA RemoveAtType ==
    ASSUME NEW S, NEW s \in Seq(S), NEW i \in DOMAIN s
    PROVE  RemoveAt(s, i) \in Seq(S)
<1>1. i \in 1..Len(s) /\ Len(s) \in Nat
  OBVIOUS
<1>2. SubSeq(s, 1, i - 1) \in Seq(S) /\ SubSeq(s, i + 1, Len(s)) \in Seq(S)
  BY <1>1
<1> QED
  BY <1>2 DEF RemoveAt

LEMMA DropGroupInv == \A f \in Platforms : IInv /\ DropGroup(f) => IInv'
<1> SUFFICES ASSUME NEW f \in Platforms, IInv, DropGroup(f) PROVE IInv'
  OBVIOUS
<1>1. PICK old \in File : old = files[f] /\ old.state = "text"
  BY TypeParts DEF IInv, FilesType, DropGroup
<1>2. PICK e \in TheirEvents[f] : \E i \in DOMAIN files[f].hooks[e] :
         Edit(f, [files[f] EXCEPT !.hooks[e] = RemoveAt(@, i)])
  BY DEF DropGroup
<1>3. PICK i \in DOMAIN old.hooks[e] : Edit(f, [old EXCEPT !.hooks[e] = RemoveAt(@, i)])
  BY <1>1, <1>2
<1>4. e \in Events
  BY TheirEventsAssumption
<1>5. old.hooks \in Hooks /\ old.hooks[e] \in Seq(Group)
  BY <1>4 DEF File, Hooks
<1>6. PICK groups \in Seq(Group) : groups = RemoveAt(old.hooks[e], i)
  BY <1>5, RemoveAtType
<1>7. PICK hooks \in Hooks : hooks = [old.hooks EXCEPT ![e] = groups]
  BY <1>4, <1>5 DEF Hooks
<1>8. PICK file : file = [old EXCEPT !.hooks = hooks]
  OBVIOUS
<1>9. file \in File
  BY <1>7, <1>8, Zenon DEF File, Hooks
<1>10. file.state = "text"
  BY <1>1, <1>8 DEF File
<1>11. [old EXCEPT !.hooks[e] = RemoveAt(@, i)] = file
  BY <1>6, <1>7, <1>8 DEF File
<1>12. Edit(f, file)
  BY <1>3, <1>11
<1> QED
  BY <1>9, <1>10, <1>12, EditInv

LEMMA ReplaceInv == \A f \in Platforms : IInv /\ Replace(f) => IInv'
<1> SUFFICES ASSUME NEW f \in Platforms, IInv, Replace(f) PROVE IInv'
  OBVIOUS
<1>1. PICK file \in InitialFiles[f] : Edit(f, file)
  BY DEF Replace
<1>2. file \in File /\ (file.state \in {"absent", "empty"} => file = Blank(file.state))
  BY InitialFilesAssumption
<1> QED
  BY <1>1, <1>2, EditInv

-----------------------------------------------------------------------------
(* The theorems. *)

LEMMA StutterInv == IInv /\ UNCHANGED vars => IInv'
<1> SUFFICES ASSUME IInv, UNCHANGED vars PROVE IInv'
  OBVIOUS
<1> USE DEF vars, local, history
<1>1. LocalType' /\ FilesType' /\ Stages'
  BY TypeParts DEF IInv, LocalType, FilesType, Stages
<1>2. Current' = Current
  BY DEF Current
<1>3. Held'
  BY <1>2 DEF IInv, Held, Clean, HasOwn
<1>4. Truncated'
  BY <1>2 DEF IInv, Truncated
<1>5. Blanks' /\ UninstallClean' /\ OwnHooksOnce'
  BY DEF IInv, Blanks, UninstallClean, Clean, OwnHooksOnce
<1>6. TheirsKept'
  BY <1>2 DEF IInv, TheirsKept, Writing
<1> QED
  BY <1>1, <1>3, <1>4, <1>5, <1>6, InvParts

LEMMA NextInv == IInv /\ [Next]_vars => IInv'
<1> SUFFICES ASSUME IInv, [Next]_vars PROVE IInv'
  OBVIOUS
<1>1. CASE UNCHANGED vars
  BY <1>1, StutterInv
<1>2. CASE StartSetup \/ ReadForSetup \/ Panic
  BY <1>2, StartSetupInv, ReadForSetupInv, PanicInv
<1>3. CASE StartUninstall \/ Skip \/ ReadForUninstall
  BY <1>3, StartUninstallInv, SkipInv, ReadForUninstallInv
<1>4. CASE Cut \/ CutFails \/ Fill \/ FillFails
  BY <1>4, CutInv, CutFailsInv, FillInv, FillFailsInv
<1>5. CASE InstallSkill \/ RemoveSkill \/ Crash
  BY <1>5, InstallSkillInv, RemoveSkillInv, CrashInv
<1>6. CASE \E f \in Platforms : AddGroup(f) \/ DropGroup(f) \/ Replace(f)
  BY <1>6, AddGroupInv, DropGroupInv, ReplaceInv
<1> QED
  BY <1>1, <1>2, <1>3, <1>4, <1>5, <1>6 DEF Next

(* The invariant of setup and uninstall, with any edits and crashes. *)
THEOREM Invariance == Spec => []IInv
<1>1. Init => IInv
  BY InitInv
<1>2. IInv /\ [Next]_vars => IInv'
  BY NextInv
<1> QED
  BY <1>1, <1>2, PTL DEF Spec

(* The types of the files, of what the command holds and of the history.   *)
THEOREM TypeCorrect == Spec => []TypeOK
<1>1. IInv => TypeOK
  BY DEF IInv
<1> QED
  BY <1>1, Invariance, PTL

(* Claude Code's settings file keeps every setting of others and, in       *)
(* order, their groups of hooks without a command of constitution, except  *)
(* odd entries at events setup uses, through any setups and uninstalls, if *)
(* no write dies, no edit comes in between and the file is JSON.           *)
THEOREM OthersKept == Spec => []TheirsKept
<1>1. IInv => TheirsKept
  BY DEF IInv
<1> QED
  BY <1>1, Invariance, PTL

(* After setup has written a file, every event it uses runs the one binary *)
(* it found last, once per matcher.                                        *)
THEOREM NoHookTwice == Spec => []OwnHooksOnce
<1>1. IInv => OwnHooksOnce
  BY DEF IInv
<1> QED
  BY <1>1, Invariance, PTL

(* A platform uninstall is done with has no hook of constitution and no    *)
(* skill until the next setup.                                             *)
THEOREM NothingStays == Spec => []UninstallClean
<1>1. IInv => UninstallClean
  BY DEF IInv
<1> QED
  BY <1>1, Invariance, PTL
=============================================================================
