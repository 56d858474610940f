------------------------------- MODULE Folding -------------------------------
(***************************************************************************)
(* Induction over numbers and folds over sequences, stated for sets and    *)
(* functions rather than for operators, so that they can be cited.         *)
(***************************************************************************)
EXTENDS SequencesExt, SequenceTheorems, FiniteSetTheorems, TLAPS

LEMMA Least ==
    ASSUME NEW T \in SUBSET Nat, T # {}
    PROVE  \E n \in T : \A m \in T : n <= m
<1> DEFINE R == {p \in Nat \X Nat : p[1] < p[2]}
<1>1. IsWellFoundedOn(R, Nat)
  BY NatLessThanWellFounded DEF OpToRel
<1> HIDE DEF R
<1>2. PICK n \in T : \A m \in T : <<m, n>> \notin R
  BY <1>1, WFMin
<1>3. \A m \in T : ~(m < n)
  BY <1>2 DEF R
<1> QED
  BY <1>3

LEMMA Induction ==
    ASSUME NEW T, 0 \in T, \A n \in Nat : n \in T => n + 1 \in T
    PROVE  Nat \subseteq T
<1> SUFFICES ASSUME Nat \ T # {} PROVE FALSE
  OBVIOUS
<1>1. PICK n \in Nat \ T : \A m \in Nat \ T : n <= m
  BY Least
<1>2. n # 0 /\ n - 1 \in Nat /\ n - 1 \in T
  BY <1>1
<1> QED
  BY <1>1, <1>2

LEMMA MaxOf ==
    ASSUME NEW m \in Nat, NEW s \in SUBSET (0..m), s # {}
    PROVE  Max(s) \in s /\ \A y \in s : y <= Max(s)
<1> DEFINE T == {m - y : y \in s}
<1>1. T \in SUBSET Nat /\ T # {}
  <2>1. \A y \in s : m - y \in Nat
    OBVIOUS
  <2> QED
    BY <2>1
<1>2. PICK n \in T : \A k \in T : n <= k
  BY <1>1, Least
<1>3. PICK x \in s : n = m - x
  BY <1>2
<1>4. \A y \in s : x >= y
  <2> TAKE y \in s
  <2>1. m - x <= m - y
    BY <1>2, <1>3
  <2> QED
    BY <2>1
<1>5. \E z \in s : \A y \in s : z >= y
  BY <1>4
<1>6. Max(s) \in s /\ \A y \in s : Max(s) >= y
  BY <1>5 DEF Max
<1> QED
  BY <1>6

(* What holds of the empty sequence and is kept by appending holds of all. *)
LEMMA AppendInduction ==
    ASSUME NEW G, NEW T, <<>> \in T, \A s \in Seq(G), e \in G : s \in T => Append(s, e) \in T
    PROVE  Seq(G) \subseteq T
<1> SUFFICES ASSUME NEW s \in Seq(G) PROVE s \in T
  OBVIOUS
<1>1. PICK n \in Nat : n = Len(s)
  OBVIOUS
<1> DEFINE U == {k \in Nat : k <= n => SubSeq(s, 1, k) \in T}
<1>2. 0 \in U
  <2>1. SubSeq(s, 1, 0) = <<>>
    OBVIOUS
  <2> QED
    BY <2>1
<1>3. ASSUME NEW k \in Nat, k \in U PROVE k + 1 \in U
  <2> SUFFICES ASSUME k + 1 <= n PROVE SubSeq(s, 1, k + 1) \in T
    OBVIOUS
  <2>1. k + 1 \in 1..Len(s) /\ s[k + 1] \in G
    BY <1>1
  <2>2. SubSeq(s, 1, k) \in Seq(G) /\ SubSeq(s, 1, k) \in T
    BY <1>1, <1>3, SubSeqProperties
  <2>3. SubSeq(s, 1, k + 1) = Append(SubSeq(s, 1, k), s[k + 1])
    BY <1>1, <2>1
  <2> QED
    BY <2>1, <2>2, <2>3
<1> HIDE DEF U
<1>4. n \in U
  BY <1>2, <1>3, Induction
<1>5. SubSeq(s, 1, n) = s
  BY <1>1
<1>6. SubSeq(s, 1, n) \in T
  <2>1. n \in U /\ n <= n
    BY <1>1, <1>4
  <2> QED
    BY <2>1 DEF U
<1> QED
  BY <1>5, <1>6

(* The function that FoldLeft takes its value from, for the steps that an  *)
(* operator makes of the elements of a sequence.                           *)
FoldsTo(it, base, n, move) ==
    it = [s \in SUBSET (1..n) |->
             IF s = {} THEN base ELSE move[Max(s)][it[s \ {Max(s)}]]]

LEMMA Folds ==
    ASSUME NEW S, NEW base \in S, NEW n \in Nat, NEW move \in [1..n -> [S -> S]]
    PROVE  \E it \in [SUBSET (1..n) -> S] : FoldsTo(it, base, n, move)
<1> DEFINE Solves(it, m) ==
               \A s \in SUBSET (1..m) :
                   it[s] = IF s = {} THEN base ELSE move[Max(s)][it[s \ {Max(s)}]]
           Solved(m) == \E it \in [SUBSET (1..m) -> S] : Solves(it, m)
           T == {m \in Nat : m <= n => Solved(m)}
<1>1. Solved(0)
  <2> DEFINE it == [s \in SUBSET (1..0) |-> base]
  <2>1. 1..0 = {}
    OBVIOUS
  <2>2. it \in [SUBSET (1..0) -> S] /\ Solves(it, 0)
    BY <2>1
  <2> QED
    BY <2>2
<1>2. ASSUME NEW m \in Nat, m + 1 <= n, Solved(m) PROVE Solved(m + 1)
  <2>1. PICK old \in [SUBSET (1..m) -> S] : Solves(old, m)
    BY <1>2
  <2> DEFINE it == [s \in SUBSET (1..(m + 1)) |->
                       IF m + 1 \in s THEN move[m + 1][old[s \ {m + 1}]] ELSE old[s]]
  <2>2. \A s \in SUBSET (1..(m + 1)) :
           /\ s \ {m + 1} \in SUBSET (1..m)
           /\ m + 1 \notin s => s \in SUBSET (1..m)
    OBVIOUS
  <2>3. it \in [SUBSET (1..(m + 1)) -> S]
    <3>1. m + 1 \in 1..n
      BY <1>2
    <3>2. ASSUME NEW s \in SUBSET (1..(m + 1))
          PROVE  (IF m + 1 \in s THEN move[m + 1][old[s \ {m + 1}]] ELSE old[s]) \in S
      BY <2>2, <3>1
    <3> QED
      BY <3>2
  <2>4. \A s \in SUBSET (1..m) : s \in SUBSET (1..(m + 1)) /\ it[s] = old[s]
    OBVIOUS
  <2>5. ASSUME NEW s \in SUBSET (1..(m + 1)), s # {}
        PROVE  it[s] = move[Max(s)][it[s \ {Max(s)}]]
    <3>1. CASE m + 1 \in s
      <4>1. Max(s) = m + 1
        <5>1. PICK k \in Nat : k = m + 1
          OBVIOUS
        <5>2. Max(s) \in s /\ k <= Max(s)
          <6>1. k \in s /\ s \in SUBSET (0..k)
            BY <3>1, <5>1
          <6> QED
            BY <2>5, <6>1, MaxOf
        <5>3. Max(s) \in 1..k
          BY <5>1, <5>2
        <5> QED
          BY <5>1, <5>2, <5>3
      <4>2. it[s \ {m + 1}] = old[s \ {m + 1}]
        BY <2>2, <2>4
      <4> QED
        BY <3>1, <4>1, <4>2
    <3>2. CASE m + 1 \notin s
      <4>1. s \in SUBSET (1..m) /\ s \ {Max(s)} \in SUBSET (1..m)
        BY <2>2, <3>2
      <4>2. old[s] = move[Max(s)][old[s \ {Max(s)}]]
        BY <2>1, <2>5, <4>1
      <4> HIDE DEF it
      <4> QED
        BY <2>4, <4>1, <4>2
    <3> QED
      BY <3>1, <3>2
  <2>6. it[{}] = base
    BY <2>1, <2>4
  <2> HIDE DEF it
  <2>7. Solves(it, m + 1)
    BY <2>5, <2>6
  <2> QED
    BY <2>3, <2>7
<1>3. Solved(n)
  <2> HIDE DEF Solved
  <2>1. 0 \in T /\ \A m \in Nat : m \in T => m + 1 \in T
    BY <1>1, <1>2
  <2> HIDE DEF T
  <2>2. n \in T
    BY <2>1, Induction
  <2> QED
    BY <2>2 DEF T
<1>4. PICK it \in [SUBSET (1..n) -> S] : Solves(it, n)
  BY <1>3
<1> QED
  BY <1>4 DEF FoldsTo

(* The values such a function takes for the beginnings of the sequence.    *)
LEMMA FirstOnes ==
    ASSUME NEW n \in Nat, NEW k \in 1..n
    PROVE  /\ 1..k # {}
           /\ 1..k \in SUBSET (1..n)
           /\ Max(1..k) = k
           /\ (1..k) \ {k} = 1..(k - 1)
<1>1. k \in Nat /\ k \in 1..k /\ 1..k \in SUBSET (1..n) /\ 1..k \in SUBSET (0..k) /\ 1..k # {}
  OBVIOUS
<1>2. Max(1..k) \in 1..k /\ k <= Max(1..k)
  BY <1>1, MaxOf
<1> QED
  BY <1>1, <1>2

LEMMA UpTo ==
    ASSUME NEW n \in Nat, NEW T, 0 \in T, \A k \in 1..n : k - 1 \in T => k \in T
    PROVE  0..n \subseteq T
<1> DEFINE U == {k \in Nat : k <= n => k \in T}
<1>1. 0 \in U
  OBVIOUS
<1>2. ASSUME NEW k \in Nat, k \in U PROVE k + 1 \in U
  <2> SUFFICES ASSUME k + 1 <= n PROVE k + 1 \in T
    OBVIOUS
  <2>1. PICK i \in 1..n : i = k + 1
    OBVIOUS
  <2>2. i - 1 = k /\ k \in T
    BY <1>2, <2>1
  <2> QED
    BY <2>1, <2>2
<1> HIDE DEF U
<1>3. Nat \subseteq U
  BY <1>1, <1>2, Induction
<1> QED
  BY <1>3 DEF U

Moves(it, S, n, move) ==
    \A k \in 1..n : it[1..(k - 1)] \in S => it[1..k] = move[k][it[1..(k - 1)]]

(* g is the history of the fold: its value after each element.             *)
History(g, base, n, move, end) ==
    /\ g[0] = base
    /\ \A k \in 1..n : g[k] = move[k][g[k - 1]]
    /\ g[n] = end

LEMMA Beginnings ==
    ASSUME NEW S, NEW base \in S, NEW n \in Nat, NEW move \in [1..n -> [S -> S]], NEW it,
           it[{}] = base, Moves(it, S, n, move)
    PROVE  \E g \in [0..n -> S] : History(g, base, n, move, it[1..n])
<1> DEFINE T == {k \in 0..n : it[1..k] \in S}
           g == [k \in 0..n |-> it[1..k]]
<1>1. 1..0 = {} /\ 0 \in 0..n /\ n \in 0..n
  OBVIOUS
<1>2. \A k \in 1..n : k \in 0..n /\ k - 1 \in 0..n
  OBVIOUS
<1>3. 0..n \subseteq T
  <2>1. 0 \in T
    BY <1>1
  <2>2. \A k \in 1..n : k - 1 \in T => k \in T
    BY <1>2 DEF Moves
  <2> HIDE DEF T
  <2> QED
    BY <2>1, <2>2, UpTo
<1>4. \A k \in 0..n : it[1..k] \in S
  BY <1>3
<1>5. g \in [0..n -> S] /\ g[0] = base /\ g[n] = it[1..n]
  BY <1>1, <1>4
<1>6. \A k \in 1..n : g[k] = move[k][g[k - 1]]
  BY <1>2, <1>4 DEF Moves
<1> QED
  BY <1>5, <1>6 DEF History
=============================================================================
