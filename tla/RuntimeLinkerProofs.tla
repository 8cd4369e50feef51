------------------------- MODULE RuntimeLinkerProofs -------------------------
(***************************************************************************)
(* Proofs about the start of a process: whatever apps.php says, whichever  *)
(* modules are there, and however often the start is tried.  First what is *)
(* linked, by the invariant LinkerInv; then what is installed, by the      *)
(* invariant CatalogInv of the parser and the catalog.                     *)
(***************************************************************************)
EXTENDS WebasystProcess, FiniteSetTheorems, SequenceTheorems, WellFoundedInduction, TLAPS

-----------------------------------------------------------------------------
(* Induction and recursion over the first numbers.                         *)

LEMMA MaxOfFinite ==
    ASSUME NEW S \in SUBSET Int, IsFiniteSet(S), S # {}
    PROVE  Max(S) \in S /\ \A x \in S : x <= Max(S)
<1> DEFINE Above(x) == {y \in S : y > x}
           aboves == {Above(x) : x \in S}
           order == StrictSubsetOrdering(S)
<1>1. IsWellFoundedOn(order, FiniteSubsetsOf(S))
  BY FS_StrictSubsetOrderingWellFounded
<1>2. aboves \subseteq FiniteSubsetsOf(S) /\ aboves # {}
  <2>1. \A x \in S : Above(x) \in SUBSET S
    OBVIOUS
  <2> HIDE DEF Above
  <2>2. FiniteSubsetsOf(S) = SUBSET S
    BY FS_FiniteSubsetsOfFinite
  <2>3. PICK x \in S : TRUE
    OBVIOUS
  <2>4. Above(x) \in aboves
    OBVIOUS
  <2>5. QED
    BY <2>1, <2>2, <2>4
<1>3. \E U \in aboves : \A V \in aboves : <<V, U>> \notin order
  BY <1>1, <1>2, WFMin
<1>4. PICK x \in S : \A y \in S : <<Above(y), Above(x)>> \notin order
  BY <1>3
<1>5. \A y \in S : y <= x
  <2> SUFFICES ASSUME NEW y \in S, y > x
               PROVE  FALSE
    OBVIOUS
  <2>1. Above(y) \subseteq Above(x)
    <3>1. x \in Int /\ y \in Int /\ \A z \in S : z \in Int
      OBVIOUS
    <3>2. ASSUME NEW z \in S, z > y
          PROVE  z > x
      BY <3>1, <3>2
    <3>3. QED
      BY <3>2
  <2>2. y \in Above(x) /\ y \notin Above(y)
    OBVIOUS
  <2>3. Above(x) \in SUBSET S /\ Above(y) \in SUBSET S
    OBVIOUS
  <2> HIDE DEF Above
  <2>4. <<Above(y), Above(x)>> \in order
    BY <2>1, <2>2, <2>3 DEF StrictSubsetOrdering
  <2>5. QED
    BY <1>4, <2>4
<1>6. QED
  BY <1>5 DEF Max

LEMMA Upwards ==
    ASSUME NEW n \in Nat, NEW T, 0 \in T, \A i \in 1..n : i - 1 \in T => i \in T
    PROVE  0..n \subseteq T
<1> DEFINE S == {m \in 0..n : 0..m \subseteq T}
<1>1. S \in SUBSET Int /\ IsFiniteSet(S) /\ S # {}
  <2>1. IsFiniteSet(0..n)
    BY FS_Interval
  <2>2. S \in SUBSET (0..n) /\ 0 \in S
    OBVIOUS
  <2> HIDE DEF S
  <2>3. IsFiniteSet(S)
    BY <2>1, <2>2, FS_Subset
  <2>4. S \in SUBSET Int /\ S # {}
    BY <2>2
  <2>5. QED
    BY <2>3, <2>4
<1>2. PICK m \in S : \A k \in S : k <= m
  <2> HIDE DEF S
  <2>1. QED
    BY <1>1, MaxOfFinite
<1>3. CASE m = n
  BY <1>3
<1>4. CASE m # n
  <2>1. m + 1 \in 1..n /\ m \in T /\ ~(m + 1 <= m) /\ (m + 1) - 1 = m
    BY <1>4
  <2>2. m + 1 \in T
    BY <2>1
  <2>3. \A k \in 0..(m + 1) : k \in 0..m \/ k = m + 1
    OBVIOUS
  <2>4. m + 1 \in S
    BY <2>1, <2>2, <2>3
  <2>5. QED
    BY <1>2, <2>1, <2>4
<1>5. QED
  BY <1>3, <1>4

(* A function that is said step by step: t[i] takes the value at i - 1 to  *)
(* that at i.                                                              *)
Steps(X, n) == [1..n -> [X -> X]]
Runs(f, X, n, e, t) ==
    f \in [0..n -> X] /\ f[0] = e /\ \A i \in 1..n : f[i] = t[i][f[i - 1]]

LEMMA Recursion ==
    ASSUME NEW X, NEW n \in Nat, NEW e \in X, NEW t \in Steps(X, n)
    PROVE  \E f : Runs(f, X, n, e, t)
<1> USE DEF Steps, Runs
<1> DEFINE Grows(m, f) == /\ f \in [0..m -> X]
                          /\ f[0] = e /\ \A i \in 1..m : f[i] = t[i][f[i - 1]]
           T == {m \in 0..n : \E f : Grows(m, f)}
<1>1. 0 \in T
  <2>1. 0..0 = {0} /\ 1..0 = {}
    OBVIOUS
  <2>2. Grows(0, [i \in 0..0 |-> e])
    BY <2>1
  <2>3. 0 \in 0..n
    OBVIOUS
  <2>4. QED
    BY <2>2, <2>3
<1>2. ASSUME NEW m \in 1..n, m - 1 \in T
      PROVE  m \in T
  <2>1. PICK f : Grows(m - 1, f)
    BY <1>2
  <2> DEFINE g == [i \in 0..m |-> IF i = m THEN t[m][f[m - 1]] ELSE f[i]]
  <2>2. m - 1 \in Nat /\ m \in Nat /\ m - 1 \in 0..(m - 1)
    OBVIOUS
  <2>3. t[m][f[m - 1]] \in X
    BY <2>1, <2>2
  <2>4. g \in [0..m -> X]
    BY <2>1, <2>2, <2>3
  <2>5. g[0] = e
    BY <2>1, <2>2
  <2>6. ASSUME NEW i \in 1..m
        PROVE  g[i] = t[i][g[i - 1]]
    <3>1. CASE i = m
      BY <2>2, <3>1
    <3>2. CASE i # m
      <4>1. i \in 1..(m - 1) /\ i \in 0..m /\ i - 1 \in 0..m /\ i - 1 # m
        BY <2>2, <3>2
      <4>2. g[i] = f[i] /\ g[i - 1] = f[i - 1]
        BY <3>2, <4>1
      <4>3. QED
        BY <2>1, <4>1, <4>2
    <3>3. QED
      BY <3>1, <3>2
  <2>7. Grows(m, g)
    BY <2>4, <2>5, <2>6
  <2>8. m \in 0..n
    OBVIOUS
  <2> HIDE DEF Grows, g
  <2>9. QED
    BY <2>7, <2>8
<1>3. n \in T
  <2> HIDE DEF T
  <2>1. 0..n \subseteq T
    BY <1>1, <1>2, Upwards
  <2>2. QED
    BY <2>1
<1>4. QED
  BY <1>3

-----------------------------------------------------------------------------
(* Picked and FlattenSeq, which are defined by recursion.                  *)

Picks(f, S, s, places) ==
    /\ f \in [0..Len(s) -> Seq(S)]
    /\ f[0] = <<>>
    /\ \A i \in 1..Len(s) : f[i] = IF i \in places THEN Append(f[i - 1], s[i]) ELSE f[i - 1]
    /\ Picked(s, places) = f[Len(s)]

LEMMA PickedStepwise ==
    ASSUME NEW S, NEW s \in Seq(S), NEW places
    PROVE  \E f : Picks(f, S, s, places)
<1> DEFINE n == Len(s)
           t == [i \in 1..n |-> [r \in Seq(S) |-> IF i \in places THEN Append(r, s[i]) ELSE r]]
           Body(f, i) == IF i = 0 THEN <<>>
                         ELSE IF i \in places THEN Append(f[i - 1], s[i])
                         ELSE f[i - 1]
           picked == CHOOSE f : f = [i \in 0..n |-> Body(f, i)]
<1>1. n \in Nat /\ <<>> \in Seq(S) /\ \A i \in 1..n : s[i] \in S
  BY LenProperties
<1>2. t \in [1..n -> [Seq(S) -> Seq(S)]]
  <2>1. \A i \in 1..n : \A r \in Seq(S) : Append(r, s[i]) \in Seq(S)
    BY <1>1
  <2>2. QED
    BY <2>1
<1>3. PICK f \in [0..n -> Seq(S)] : f[0] = <<>> /\ \A i \in 1..n : f[i] = t[i][f[i - 1]]
  <2> DEFINE X == Seq(S)
             e == <<>>
  <2>1. n \in Nat /\ e \in X /\ t \in Steps(X, n)
    BY <1>1, <1>2 DEF Steps
  <2> HIDE DEF t, n, X, e
  <2>2. \E f : Runs(f, X, n, e, t)
    BY <2>1, Recursion
  <2>3. QED
    BY <2>2 DEF X, e, Runs
<1> HIDE DEF t, n, Body, picked
<1>4. \A i \in 1..n : f[i] = IF i \in places THEN Append(f[i - 1], s[i]) ELSE f[i - 1]
  <2> SUFFICES ASSUME NEW i \in 1..n
               PROVE  f[i] = IF i \in places THEN Append(f[i - 1], s[i]) ELSE f[i - 1]
    OBVIOUS
  <2>1. i - 1 \in 0..n
    BY <1>1
  <2>2. f[i - 1] \in Seq(S) /\ f[i] = t[i][f[i - 1]]
    BY <1>3, <2>1
  <2>3. t[i] = [r \in Seq(S) |-> IF i \in places THEN Append(r, s[i]) ELSE r]
    BY DEF t
  <2>4. QED
    BY <2>2, <2>3
<1>5. f = [i \in 0..n |-> Body(f, i)]
  <2>1. \A i \in 0..n : i = 0 \/ i \in 1..n
    BY <1>1
  <2>2. \A i \in 0..n : f[i] = Body(f, i)
    BY <1>1, <1>3, <1>4, <2>1 DEF Body
  <2>3. QED
    BY <1>3, <2>2
<1>6. picked = [i \in 0..n |-> Body(picked, i)]
  BY <1>5 DEF picked
<1>7. Picked(s, places) = picked[n]
  BY DEF Picked, picked, Body, n
<1>8. picked = f
  <2> DEFINE T == {i \in 0..n : picked[i] = f[i]}
  <2>1. 0 \in T
    BY <1>1, <1>3, <1>6 DEF Body
  <2>2. ASSUME NEW i \in 1..n, i - 1 \in T
        PROVE  i \in T
    <3>1. i \in 0..n /\ i # 0 /\ picked[i - 1] = f[i - 1]
      BY <1>1, <2>2
    <3>2. picked[i] = IF i \in places THEN Append(picked[i - 1], s[i]) ELSE picked[i - 1]
      BY <1>6, <3>1 DEF Body
    <3>3. QED
      BY <1>4, <3>1, <3>2
  <2>3. 0..n \subseteq T
    <3> HIDE DEF T
    <3>1. QED
      BY <1>1, <2>1, <2>2, Upwards
  <2>4. \A i \in 0..n : picked[i] = f[i]
    BY <2>3
  <2> HIDE DEF T
  <2>5. f = [i \in 0..n |-> f[i]]
    BY <1>3
  <2>6. picked = [i \in 0..n |-> picked[i]]
    BY <1>6
  <2>7. QED
    BY <2>4, <2>5, <2>6
<1>9. QED
  BY <1>3, <1>4, <1>7, <1>8 DEF n, Picks

LEMMA PickedIsSeq ==
    ASSUME NEW S, NEW s \in Seq(S), NEW places
    PROVE  Picked(s, places) \in Seq(S)
<1>1. Len(s) \in Nat /\ Len(s) \in 0..Len(s)
  BY LenProperties
<1>2. PICK f : Picks(f, S, s, places)
  BY PickedStepwise
<1>3. QED
  BY <1>1, <1>2 DEF Picks

(* If all the places are picked, nothing is left out. *)
LEMMA PickedAll ==
    ASSUME NEW S, NEW s \in Seq(S)
    PROVE  Picked(s, DOMAIN s) = s
<1> DEFINE n == Len(s)
<1>1. n \in Nat /\ DOMAIN s = 1..n /\ s = [i \in 1..n |-> s[i]] /\ \A i \in 1..n : s[i] \in S
  BY LenProperties
<1>2. PICK f \in [0..n -> Seq(S)] :
          /\ f[0] = <<>>
          /\ \A i \in 1..n : f[i] = IF i \in DOMAIN s THEN Append(f[i - 1], s[i]) ELSE f[i - 1]
          /\ Picked(s, DOMAIN s) = f[n]
  <2>1. PICK f : Picks(f, S, s, DOMAIN s)
    BY PickedStepwise
  <2>2. QED
    BY <2>1 DEF Picks
<1> DEFINE T == {m \in 0..n : Len(f[m]) = m /\ \A i \in 1..m : f[m][i] = s[i]}
<1>3. 0 \in T
  <2>1. Len(<<>>) = 0 /\ 0 \in 0..n /\ 1..0 = {}
    BY <1>1
  <2>2. Len(f[0]) = 0
    BY <1>2, <2>1
  <2> HIDE DEF n
  <2>3. QED
    BY <2>1, <2>2
<1>4. ASSUME NEW m \in 1..n, m - 1 \in T
      PROVE  m \in T
  <2>1. m - 1 \in 0..n /\ f[m - 1] \in Seq(S) /\ s[m] \in S
    BY <1>1
  <2>2. f[m] = Append(f[m - 1], s[m])
    BY <1>1, <1>2
  <2>3. Len(f[m - 1]) = m - 1 /\ \A i \in 1..(m - 1) : f[m - 1][i] = s[i]
    BY <1>4
  <2> HIDE DEF n
  <2>4. Len(f[m]) = m /\ \A i \in 1..m : f[m][i] = s[i]
    BY <2>1, <2>2, <2>3
  <2>5. QED
    BY <2>4
<1>5. 0..n \subseteq T
  <2> HIDE DEF T
  <2>1. QED
    BY <1>1, <1>3, <1>4, Upwards
<1>6. n \in T
  BY <1>1, <1>5
<1>7. f[n] \in Seq(S) /\ Len(f[n]) = n /\ \A i \in 1..n : f[n][i] = s[i]
  BY <1>1, <1>6
<1> HIDE DEF n, T
<1>8. f[n] = s
  BY <1>1, <1>7 DEF n
<1>9. QED
  BY <1>2, <1>8

LEMMA FlattenSeqIsSeq ==
    ASSUME NEW S, NEW ss \in Seq(Seq(S))
    PROVE  FlattenSeq(ss) \in Seq(S)
<1> DEFINE n == Len(ss)
           Body(f, i) == IF i = 1 THEN ss[i] ELSE f[i - 1] \o ss[i]
           flatten == CHOOSE f : f = [i \in 1..n |-> Body(f, i)]
           t == [i \in 1..n |-> [r \in Seq(S) |-> IF i = 1 THEN ss[i] ELSE r \o ss[i]]]
<1>1. n \in Nat /\ <<>> \in Seq(S) /\ \A i \in 1..n : ss[i] \in Seq(S)
  BY LenProperties
<1>2. CASE n = 0
  BY <1>1, <1>2 DEF FlattenSeq
<1>3. CASE n # 0
  <2>1. PICK f \in [0..n -> Seq(S)] : \A i \in 1..n : f[i] = t[i][f[i - 1]]
    <3> DEFINE X == Seq(S)
               e == <<>>
    <3>1. t \in Steps(X, n)
      <4>1. \A i \in 1..n : \A r \in Seq(S) : r \o ss[i] \in Seq(S)
        BY <1>1, ConcatProperties
      <4>2. QED
        BY <1>1, <4>1 DEF Steps
    <3>2. n \in Nat /\ e \in X
      BY <1>1
    <3> HIDE DEF t, n, X, e
    <3>3. \E f : Runs(f, X, n, e, t)
      BY <3>1, <3>2, Recursion
    <3>4. QED
      BY <3>3 DEF X, Runs
  <2> DEFINE g == [i \in 1..n |-> f[i]]
  <2> HIDE DEF n, Body, flatten, t
  <2>2. \A i \in 1..n : f[i] = IF i = 1 THEN ss[i] ELSE f[i - 1] \o ss[i]
    <3> SUFFICES ASSUME NEW i \in 1..n
                 PROVE  f[i] = IF i = 1 THEN ss[i] ELSE f[i - 1] \o ss[i]
      OBVIOUS
    <3>1. f[i - 1] \in Seq(S) /\ f[i] = t[i][f[i - 1]]
      <4>1. i - 1 \in 0..n
        BY <1>1
      <4>2. QED
        BY <2>1, <4>1
    <3>2. t[i] = [r \in Seq(S) |-> IF i = 1 THEN ss[i] ELSE r \o ss[i]]
      BY DEF t
    <3>3. QED
      BY <3>1, <3>2
  <2>3. g = [i \in 1..n |-> Body(g, i)]
    <3>1. \A i \in 1..n : i # 1 => i - 1 \in 1..n
      BY <1>1
    <3>2. \A i \in 1..n : g[i] = Body(g, i)
      BY <2>2, <3>1 DEF Body
    <3>3. QED
      BY <3>2
  <2> HIDE DEF g
  <2>4. flatten = [i \in 1..n |-> Body(flatten, i)]
    BY <2>3 DEF flatten
  <2>5. FlattenSeq(ss) = flatten[n]
    BY <1>3 DEF FlattenSeq, flatten, Body, n
  <2> DEFINE T == {0} \cup {i \in 1..n : flatten[i] \in Seq(S)}
  <2>6. ASSUME NEW i \in 1..n, i - 1 \in T
        PROVE  i \in T
    <3>1. flatten[i] = Body(flatten, i)
      BY <2>4
    <3>2. CASE i = 1
      BY <1>1, <3>1, <3>2 DEF Body
    <3>3. CASE i # 1
      <4>1. flatten[i - 1] \in Seq(S)
        BY <2>6, <3>3
      <4>2. flatten[i] = flatten[i - 1] \o ss[i]
        BY <3>1, <3>3 DEF Body
      <4>3. flatten[i] \in Seq(S)
        BY <1>1, <4>1, <4>2, ConcatProperties
      <4>4. QED
        BY <4>3
    <3>4. QED
      BY <3>2, <3>3
  <2>7. 0 \in T
    OBVIOUS
  <2>8. 0..n \subseteq T
    <3> HIDE DEF T
    <3>1. QED
      BY <1>1, <2>6, <2>7, Upwards
  <2>9. n \in 1..n /\ n \in T
    BY <1>1, <1>3, <2>8
  <2>10. QED
    BY <1>3, <2>5, <2>9
<1>4. QED
  BY <1>2, <1>3

(* A finite set has as many elements as it has names exactly if no two of  *)
(* them are of one element.                                                *)
LEMMA AsManyAsNames ==
    ASSUME NEW n \in Nat, NEW f, f = [i \in 1..n |-> f[i]]
    PROVE  Cardinality({f[i] : i \in 1..n}) = n <=> \A i, j \in 1..n : f[i] = f[j] => i = j
<1> DEFINE T == {f[i] : i \in 1..n}
<1>1. IsFiniteSet(1..n) /\ Cardinality(1..n) = n
  BY FS_Interval
<1>2. f \in Surjection(1..n, T)
  BY DEF Surjection
<1>3. /\ IsFiniteSet(T)
      /\ Cardinality(T) = Cardinality(1..n) <=> f \in Injection(1..n, T)
  <2> HIDE DEF T
  <2>1. QED
    BY <1>1, <1>2, FS_Surjection
<1>4. f \in Injection(1..n, T) <=> \A i, j \in 1..n : f[i] = f[j] => i = j
  BY <1>2 DEF Injection, IsInjective, Surjection
<1>5. QED
  BY <1>1, <1>3, <1>4

-----------------------------------------------------------------------------
(* What modules contribute, and when the linker finds nothing wrong.       *)

Sequential(s) == Len(s) \in Nat /\ s = [i \in 1..Len(s) |-> s[i]]
Elements(s) == {s[i] : i \in 1..Len(s)}
Contribution == [app : App, plugin : Plugin \cup {None}, def : Definition]
Modular(modules) == Sequential(modules) /\ \A i \in 1..Len(modules) : Constructible(modules[i])

LEMMA SequentialIsSeq ==
    ASSUME NEW s, Sequential(s)
    PROVE  s \in Seq(Elements(s)) /\ DOMAIN s = 1..Len(s)
<1> DEFINE n == Len(s)
<1>1. n \in Nat /\ s \in [1..n -> Elements(s)]
  BY DEF Sequential, Elements
<1>2. QED
  BY <1>1, IsASeq

LEMMA SeqIsSequential ==
    ASSUME NEW S, NEW s \in Seq(S)
    PROVE  Sequential(s) /\ DOMAIN s = 1..Len(s) /\ \A i \in 1..Len(s) : s[i] \in S
<1>1. Len(s) \in Nat /\ s \in [1..Len(s) -> S]
  BY LenProperties
<1>2. QED
  BY <1>1 DEF Sequential

LEMMA ContributionsAre ==
    ASSUME NEW module, Constructible(module), NEW C,
           \A i \in DOMAIN module.parts : \A k \in DOMAIN module.parts[i].defs :
               [app |-> module.app, plugin |-> module.parts[i].plugin,
                def |-> module.parts[i].defs[k]] \in C
    PROVE  Contributions(module) \in Seq(C)
<1> DEFINE parts == module.parts
           ss == [i \in DOMAIN parts |->
                    [k \in DOMAIN parts[i].defs |->
                        [app |-> module.app, plugin |-> parts[i].plugin, def |-> parts[i].defs[k]]]]
<1>1. Len(parts) \in Nat /\ DOMAIN parts = 1..Len(parts)
  BY SeqIsSequential DEF Constructible, Sequential
<1>2. ASSUME NEW i \in DOMAIN parts
      PROVE  ss[i] \in Seq(C)
  <2>1. parts[i].defs \in Seq(Definition)
    BY DEF Constructible, Part
  <2>2. Len(parts[i].defs) \in Nat /\ DOMAIN parts[i].defs = 1..Len(parts[i].defs)
    BY <2>1, SeqIsSequential DEF Sequential
  <2>3. ss[i] \in [1..Len(parts[i].defs) -> C]
    BY <2>2
  <2> HIDE DEF ss
  <2>4. QED
    BY <2>2, <2>3, IsASeq
<1>3. ss \in Seq(Seq(C))
  <2> HIDE DEF ss
  <2>1. ss \in [1..Len(parts) -> Seq(C)]
    BY <1>1, <1>2 DEF ss
  <2>2. QED
    BY <1>1, <2>1, IsASeq
<1>4. Contributions(module) = FlattenSeq(ss)
  BY DEF Contributions
<1> HIDE DEF ss
<1>5. QED
  BY <1>3, <1>4, FlattenSeqIsSeq

LEMMA TheirContributions ==
    ASSUME NEW module, Constructible(module)
    PROVE  Contributions(module) \in Seq(Contribution)
<1>1. ASSUME NEW i \in DOMAIN module.parts, NEW k \in DOMAIN module.parts[i].defs
      PROVE  [app |-> module.app, plugin |-> module.parts[i].plugin,
              def |-> module.parts[i].defs[k]] \in Contribution
  <2>1. /\ module.app \in App /\ module.parts[i].plugin \in Plugin \cup {None}
        /\ module.parts[i].defs \in Seq(Definition)
    BY DEF Constructible, Part
  <2>2. module.parts[i].defs[k] \in Definition
    BY <2>1, SeqIsSequential
  <2>3. QED
    BY <2>1, <2>2 DEF Contribution
<1>2. QED
  BY <1>1, ContributionsAre

LEMMA AllContributionsAre ==
    ASSUME NEW modules, Modular(modules), NEW C,
           \A i \in DOMAIN modules : Contributions(modules[i]) \in Seq(C)
    PROVE  AllContributions(modules) \in Seq(C)
<1> DEFINE ss == [i \in DOMAIN modules |-> Contributions(modules[i])]
<1>1. Len(modules) \in Nat /\ DOMAIN modules = 1..Len(modules)
  BY SequentialIsSeq DEF Modular, Sequential
<1>2. ss \in [1..Len(modules) -> Seq(C)]
  BY <1>1
<1>3. AllContributions(modules) = FlattenSeq(ss)
  BY DEF AllContributions
<1> HIDE DEF ss
<1>4. ss \in Seq(Seq(C))
  BY <1>1, <1>2, IsASeq
<1>5. QED
  BY <1>3, <1>4, FlattenSeqIsSeq

LEMMA AllTheirContributions ==
    ASSUME NEW modules, Modular(modules)
    PROVE  AllContributions(modules) \in Seq(Contribution)
<1>1. DOMAIN modules = 1..Len(modules)
  BY SequentialIsSeq DEF Modular
<1>2. \A i \in DOMAIN modules : Contributions(modules[i]) \in Seq(Contribution)
  BY <1>1, TheirContributions DEF Modular
<1>3. QED
  BY <1>2, AllContributionsAre

LEMMA AllExamined ==
    ASSUME NEW modules, Modular(modules), \A i \in DOMAIN modules : ~Duplicate(modules, i)
    PROVE  Examined(modules) = modules
<1>1. modules \in Seq(Elements(modules))
  BY SequentialIsSeq DEF Modular
<1>2. {i \in DOMAIN modules : ~Duplicate(modules, i)} = DOMAIN modules
  OBVIOUS
<1>3. QED
  BY <1>1, <1>2, PickedAll DEF Examined

(* The parts of WellFormed, without counting.                              *)
OwnModules(modules) == \A i, j \in DOMAIN modules : modules[i].app = modules[j].app => i = j
InstalledModules(modules) == \A i \in DOMAIN modules : modules[i].app \in Range(apps)
InstalledParts(modules) ==
    \A i \in DOMAIN modules : \A k \in DOMAIN modules[i].parts :
        modules[i].parts[k].plugin # None => <<modules[i].app, modules[i].parts[k].plugin>> \in plugins
OwnContributions(cs) == \A i \in DOMAIN cs : OwnedBy(cs[i])
OwnSlots(cs) == \A i, j \in DOMAIN cs : Slot(cs[i].def) = Slot(cs[j].def) => i = j

LEMMA WellFormedParts ==
    ASSUME NEW modules, Modular(modules)
    PROVE  WellFormed(modules) <=>
              /\ OwnModules(modules)
              /\ InstalledModules(modules)
              /\ InstalledParts(modules)
              /\ OwnContributions(AllContributions(modules))
              /\ OwnSlots(AllContributions(modules))
<1> DEFINE n == Len(modules)
           cs == AllContributions(modules)
           k == Len(cs)
           f == [i \in 1..n |-> modules[i].app]
           g == [i \in 1..k |-> Slot(cs[i].def)]
<1>1. n \in Nat /\ DOMAIN modules = 1..n
  BY SequentialIsSeq DEF Modular, Sequential
<1>2. k \in Nat /\ DOMAIN cs = 1..k /\ \A i \in 1..k : cs[i] \in Contribution
  BY AllTheirContributions, SeqIsSequential DEF Sequential
<1> HIDE DEF n, cs, k
<1>3. Cardinality({modules[i].app : i \in 1..n}) = n <=> OwnModules(modules)
  <2>1. {modules[i].app : i \in 1..n} = {f[i] : i \in 1..n}
    OBVIOUS
  <2>2. OwnModules(modules) <=> \A i, j \in 1..n : f[i] = f[j] => i = j
    BY <1>1 DEF OwnModules
  <2>3. f = [i \in 1..n |-> f[i]]
    OBVIOUS
  <2> HIDE DEF f
  <2>4. QED
    BY <1>1, <2>1, <2>2, <2>3, AsManyAsNames
<1>4. Cardinality({Slot(cs[i].def) : i \in 1..k}) = k <=> OwnSlots(cs)
  <2>1. {Slot(cs[i].def) : i \in 1..k} = {g[i] : i \in 1..k}
    OBVIOUS
  <2>2. OwnSlots(cs) <=> \A i, j \in 1..k : g[i] = g[j] => i = j
    BY <1>2 DEF OwnSlots
  <2>3. g = [i \in 1..k |-> g[i]]
    OBVIOUS
  <2> HIDE DEF g
  <2>4. QED
    BY <1>2, <2>1, <2>2, <2>3, AsManyAsNames
<1>5. /\ \A i \in DOMAIN cs :
            cs[i].def.kind # "api" => cs[i].def.app = cs[i].app /\ cs[i].def.plugin = cs[i].plugin
      /\ \A i \in DOMAIN cs : cs[i].def.kind = "plugin" => cs[i].plugin # None
      <=> OwnContributions(cs)
  BY DEF OwnContributions, OwnedBy
<1>6. QED
  BY <1>1, <1>2, <1>3, <1>4, <1>5 DEF WellFormed, InstalledModules, InstalledParts, n, cs, k

(* Who contributes is installed, if the modules are well formed.           *)
InstalledContribution ==
    {c \in Contribution : c.app \in Range(apps) /\ (c.plugin # None => <<c.app, c.plugin>> \in plugins)}

LEMMA InstalledContributions ==
    ASSUME NEW modules, Modular(modules), WellFormed(modules)
    PROVE  AllContributions(modules) \in Seq(InstalledContribution)
<1>1. InstalledModules(modules) /\ InstalledParts(modules)
  BY WellFormedParts
<1>2. DOMAIN modules = 1..Len(modules)
  BY SequentialIsSeq DEF Modular
<1>3. ASSUME NEW m \in DOMAIN modules
      PROVE  Contributions(modules[m]) \in Seq(InstalledContribution)
  <2>1. PICK module : module = modules[m]
    OBVIOUS
  <2>2. /\ Constructible(module) /\ module.app \in Range(apps)
        /\ \A k \in DOMAIN module.parts :
              module.parts[k].plugin # None => <<module.app, module.parts[k].plugin>> \in plugins
    BY <1>1, <1>2, <2>1 DEF Modular, InstalledModules, InstalledParts
  <2>3. ASSUME NEW i \in DOMAIN module.parts, NEW k \in DOMAIN module.parts[i].defs
        PROVE  [app |-> module.app, plugin |-> module.parts[i].plugin,
                def |-> module.parts[i].defs[k]] \in InstalledContribution
    <3>1. /\ module.app \in App /\ module.parts[i].plugin \in Plugin \cup {None}
          /\ module.parts[i].defs \in Seq(Definition)
      BY <2>2 DEF Constructible, Part
    <3>2. module.parts[i].defs[k] \in Definition
      BY <3>1, SeqIsSequential
    <3>3. QED
      BY <2>2, <3>1, <3>2 DEF Contribution, InstalledContribution
  <2>4. QED
    BY <2>1, <2>2, <2>3, ContributionsAre
<1>4. QED
  BY <1>3, AllContributionsAre

(* The linker finds nothing wrong with modules exactly if they are well    *)
(* formed, when nothing is registered yet.                                 *)
LEMMA Validated ==
    ASSUME NEW modules, Modular(modules), registered = <<>>
    PROVE  Issues(modules) = {} <=> WellFormed(modules)
<1> DEFINE some == Examined(modules)
           cs == AllContributions(some)
           duplicates == {<<"DUPLICATE_APP_MODULE", modules[i].app>> :
                             i \in {j \in DOMAIN modules : Duplicate(modules, j)}}
           missing == {<<"APP_NOT_INSTALLED", a>> : a \in {some[i].app : i \in DOMAIN some} \ Range(apps)}
           foreign == {<<ForeignReason(cs[i].def), Slot(cs[i].def)>> :
                          i \in {j \in DOMAIN cs : ~OwnedBy(cs[j])}}
           conflicts == {<<ConflictReason(cs[i].def), Slot(cs[i].def)>> :
                            i \in {j \in DOMAIN cs : Conflicts(cs, j)}}
<1>1. Len(modules) \in Nat /\ DOMAIN modules = 1..Len(modules)
  BY SequentialIsSeq DEF Modular, Sequential
<1>2. Issues(modules) = {} <=>
          duplicates = {} /\ missing = {} /\ PluginIssues(some) = {} /\ foreign = {} /\ conflicts = {}
  BY DEF Issues
<1>3. duplicates = {} <=> OwnModules(modules)
  <2>1. duplicates = {} <=> \A i \in DOMAIN modules : ~Duplicate(modules, i)
    OBVIOUS
  <2>2. (\A i \in DOMAIN modules : ~Duplicate(modules, i)) <=> OwnModules(modules)
    <3>1. ASSUME NEW i \in DOMAIN modules, Duplicate(modules, i)
          PROVE  ~OwnModules(modules)
      BY <1>1, <3>1 DEF Duplicate, OwnModules
    <3>2. ASSUME NEW i \in DOMAIN modules, NEW j \in DOMAIN modules,
                 modules[i].app = modules[j].app, i # j
          PROVE  Duplicate(modules, i) \/ Duplicate(modules, j)
      <4>1. i < j \/ j < i
        BY <1>1, <3>2
      <4>2. QED
        BY <1>1, <3>2, <4>1 DEF Duplicate
    <3>3. QED
      BY <3>1, <3>2 DEF OwnModules
  <2>3. QED
    BY <2>1, <2>2
<1>4. CASE ~OwnModules(modules)
  BY <1>2, <1>3, <1>4, WellFormedParts
<1>5. CASE OwnModules(modules)
  <2>1. some = modules
    <3>1. \A i \in DOMAIN modules : ~Duplicate(modules, i)
      BY <1>1, <1>5 DEF Duplicate, OwnModules
    <3>2. QED
      BY <3>1, AllExamined
  <2>2. missing = {} <=> InstalledModules(modules)
    BY <2>1 DEF InstalledModules
  <2>3. PluginIssues(some) = {} <=> InstalledParts(modules)
    <3> DEFINE keys == UNION {{<<m.app, p.plugin>> : p \in Range(m.parts)} : m \in Range(modules)}
    <3>1. PluginIssues(modules) = {} <=> \A key \in keys : key[2] # None => key \in plugins
      BY ZenonT(60) DEF PluginIssues
    <3>2. \A key : key \in keys <=> \E m \in Range(modules) : \E p \in Range(m.parts) : key = <<m.app, p.plugin>>
      OBVIOUS
    <3> HIDE DEF keys, some, cs, missing, foreign, conflicts, duplicates
    <3>3. ASSUME NEW i \in DOMAIN modules, NEW k \in DOMAIN modules[i].parts
          PROVE  <<modules[i].app, modules[i].parts[k].plugin>> \in keys
      <4>1. modules[i] \in Range(modules) /\ modules[i].parts[k] \in Range(modules[i].parts)
        BY DEF Range
      <4>2. QED
        BY <3>2, <4>1
    <3>4. ASSUME NEW key \in keys
          PROVE  \E i \in DOMAIN modules : \E k \in DOMAIN modules[i].parts :
                    key = <<modules[i].app, modules[i].parts[k].plugin>>
      <4>1. PICK m \in Range(modules) : \E p \in Range(m.parts) : key = <<m.app, p.plugin>>
        BY <3>2
      <4>2. PICK p \in Range(m.parts) : key = <<m.app, p.plugin>>
        BY <4>1
      <4>3. PICK i \in DOMAIN modules : m = modules[i]
        BY DEF Range
      <4>4. PICK k \in DOMAIN m.parts : p = m.parts[k]
        BY DEF Range
      <4>5. QED
        BY <4>2, <4>3, <4>4
    <3>5. ASSUME PluginIssues(modules) = {}
          PROVE  InstalledParts(modules)
      <4> SUFFICES ASSUME NEW i \in DOMAIN modules, NEW k \in DOMAIN modules[i].parts,
                          modules[i].parts[k].plugin # None
                   PROVE  <<modules[i].app, modules[i].parts[k].plugin>> \in plugins
        BY DEF InstalledParts
      <4>1. <<modules[i].app, modules[i].parts[k].plugin>>[2] # None
        OBVIOUS
      <4>2. QED
        BY <3>1, <3>3, <3>5, <4>1
    <3>6. ASSUME InstalledParts(modules)
          PROVE  PluginIssues(modules) = {}
      <4>1. ASSUME NEW key \in keys, key[2] # None
            PROVE  key \in plugins
        <5>1. PICK i \in DOMAIN modules : \E k \in DOMAIN modules[i].parts :
                    key = <<modules[i].app, modules[i].parts[k].plugin>>
          BY <3>4
        <5>2. PICK k \in DOMAIN modules[i].parts : key = <<modules[i].app, modules[i].parts[k].plugin>>
          BY <5>1
        <5>3. modules[i].parts[k].plugin # None
          BY <4>1, <5>2
        <5>4. QED
          BY <3>6, <5>2, <5>3 DEF InstalledParts
      <4>2. QED
        BY <3>1, <4>1
    <3>7. QED
      BY <2>1, <3>5, <3>6
  <2>4. foreign = {} <=> OwnContributions(cs)
    BY DEF OwnContributions
  <2>5. conflicts = {} <=> OwnSlots(cs)
    <3>1. conflicts = {} <=> \A i \in DOMAIN cs : ~Conflicts(cs, i)
      OBVIOUS
    <3>2. Len(cs) \in Nat /\ DOMAIN cs = 1..Len(cs)
      BY <2>1, AllTheirContributions, SeqIsSequential DEF Sequential
    <3> HIDE DEF cs, conflicts, some
    <3>3. \A s : ~Taken(s)
      BY DEF Taken
    <3>4. \A i \in DOMAIN cs : Conflicts(cs, i) <=> \E j \in 1..(i - 1) : Slot(cs[j].def) = Slot(cs[i].def)
      BY <3>3 DEF Conflicts, CheckedSlot
    <3>5. ASSUME NEW i \in DOMAIN cs, Conflicts(cs, i)
          PROVE  ~OwnSlots(cs)
      BY <3>2, <3>4, <3>5 DEF OwnSlots
    <3>6. ASSUME NEW i \in DOMAIN cs, NEW j \in DOMAIN cs,
                 Slot(cs[i].def) = Slot(cs[j].def), i # j
          PROVE  Conflicts(cs, i) \/ Conflicts(cs, j)
      <4>1. i < j \/ j < i
        BY <3>2, <3>6
      <4>2. QED
        BY <3>2, <3>4, <3>6, <4>1
    <3>7. QED
      BY <3>1, <3>5, <3>6 DEF OwnSlots
  <2> HIDE DEF some, cs, missing, foreign, conflicts, duplicates
  <2>6. cs = AllContributions(modules)
    BY <2>1 DEF cs
  <2>7. QED
    BY <1>2, <1>3, <1>5, <2>2, <2>3, <2>4, <2>5, <2>6, WellFormedParts
<1>6. QED
  BY <1>4, <1>5

-----------------------------------------------------------------------------
(* The installed applications are a sequence, whatever apps.php says: the  *)
(* parser returns arrays whose entries are one.                            *)

FrameShape(f) == DOMAIN f = {"closing", "entries", "first", "key"} /\ Sequential(f.entries)
ValueShape(v) == v.kind = "array" => Sequential(v.entries)
StackShape(p) ==
    /\ DOMAIN p = {"mode", "stack", "count", "value", "read"}
    /\ Sequential(p.stack)
    /\ \A i \in 1..Len(p.stack) : FrameShape(p.stack[i])
ParserShape(p) ==
    /\ StackShape(p)
    /\ p.mode \in {"begun", "first", "keyed", "second", "comma"} => p.stack # <<>>
    /\ p.mode \in {"value", "semicolon", "done"} => ValueShape(p.value)

LEMMA SequentialAppend ==
    ASSUME NEW s, NEW e, Sequential(s)
    PROVE  /\ Sequential(Append(s, e)) /\ Len(Append(s, e)) = Len(s) + 1
           /\ Append(s, e)[Len(s) + 1] = e
           /\ \A i \in 1..Len(s) : Append(s, e)[i] = s[i]
           /\ Append(s, e) # <<>>
<1> DEFINE S == Elements(s) \cup {e}
<1>1. s \in Seq(Elements(s)) /\ Len(s) \in Nat
  BY SequentialIsSeq DEF Sequential
<1>2. s \in Seq(S) /\ e \in S
  <2>1. Elements(s) \subseteq S
    OBVIOUS
  <2> HIDE DEF S
  <2>2. s \in Seq(S)
    BY <1>1, <2>1
  <2>3. QED
    BY <2>2 DEF S
<1> HIDE DEF S
<1>3. /\ Append(s, e) \in Seq(S) /\ Len(Append(s, e)) = Len(s) + 1
      /\ Append(s, e)[Len(s) + 1] = e
      /\ \A i \in 1..Len(s) : Append(s, e)[i] = s[i]
      /\ Append(s, e) # <<>>
  BY <1>2, AppendProperties
<1>4. QED
  BY <1>3, SeqIsSequential

LEMMA SequentialFront ==
    ASSUME NEW s, Sequential(s), s # <<>>
    PROVE  /\ Sequential(Front(s)) /\ Len(Front(s)) = Len(s) - 1
           /\ \A i \in 1..(Len(s) - 1) : Front(s)[i] = s[i]
           /\ Len(s) \in 1..Len(s) /\ Last(s) = s[Len(s)]
<1>1. s \in Seq(Elements(s)) /\ Len(s) \in Nat /\ Len(s) # 0
  BY SequentialIsSeq, EmptySeq DEF Sequential
<1>2. Front(s) = [i \in 1..(Len(s) - 1) |-> s[i]]
  BY <1>1 DEF Front
<1>3. Len(s) - 1 \in Nat
  BY <1>1
<1>4. Len(Front(s)) = Len(s) - 1
  BY <1>1, <1>2, <1>3
<1>5. QED
  BY <1>1, <1>2, <1>3, <1>4 DEF Last, Sequential

LEMMA InnermostShape ==
    ASSUME NEW p, StackShape(p), p.stack # <<>>
    PROVE  FrameShape(Innermost(p))
BY SequentialFront DEF StackShape, Innermost

LEMMA WithInnermostShape ==
    ASSUME NEW p, StackShape(p), p.stack # <<>>, NEW f, FrameShape(f)
    PROVE  /\ StackShape(WithInnermost(p, f)) /\ WithInnermost(p, f).stack # <<>>
           /\ WithInnermost(p, f).mode = p.mode
<1> DEFINE s == Append(Front(p.stack), f)
<1>1. Sequential(Front(p.stack)) /\ \A i \in 1..Len(Front(p.stack)) : FrameShape(Front(p.stack)[i])
  BY SequentialFront DEF StackShape
<1>2. Sequential(s) /\ s # <<>> /\ \A i \in 1..Len(s) : FrameShape(s[i])
  <2> DEFINE r == Front(p.stack)
  <2>1. Sequential(r) /\ Len(r) \in Nat /\ \A i \in 1..Len(r) : FrameShape(r[i])
    BY <1>1 DEF Sequential
  <2> HIDE DEF r
  <2>2. /\ Sequential(Append(r, f)) /\ Len(Append(r, f)) = Len(r) + 1 /\ Append(r, f) # <<>>
        /\ Append(r, f)[Len(r) + 1] = f
        /\ \A i \in 1..Len(r) : Append(r, f)[i] = r[i]
    BY <2>1, SequentialAppend
  <2>3. \A i \in 1..(Len(r) + 1) : i = Len(r) + 1 \/ i \in 1..Len(r)
    BY <2>1
  <2>4. \A i \in 1..Len(Append(r, f)) : FrameShape(Append(r, f)[i])
    BY <2>1, <2>2, <2>3
  <2>5. QED
    BY <2>2, <2>4 DEF r
<1>3. WithInnermost(p, f) = [p EXCEPT !.stack = s]
  BY DEF WithInnermost
<1> HIDE DEF s
<1>4. /\ DOMAIN WithInnermost(p, f) = DOMAIN p
      /\ WithInnermost(p, f).stack = s
      /\ WithInnermost(p, f).mode = p.mode
  BY <1>3 DEF StackShape
<1>5. QED
  BY <1>2, <1>4 DEF StackShape

LEMMA CompletedShape ==
    ASSUME NEW p, StackShape(p), NEW v, ValueShape(v)
    PROVE  ParserShape(Completed(p, v))
<1>1. CASE p.stack = <<>>
  <2>1. PICK q : q = [p EXCEPT !.mode = "value", !.value = v]
    OBVIOUS
  <2>2. DOMAIN q = DOMAIN p /\ q.stack = p.stack /\ q.mode = "value" /\ q.value = v
    BY <2>1 DEF StackShape
  <2>3. ParserShape(q)
    BY <2>2 DEF StackShape, ParserShape
  <2>4. QED
    BY <1>1, <2>1, <2>3 DEF Completed
<1>2. CASE p.stack # <<>>
  <2>1. PICK f : f = [Innermost(p) EXCEPT !.first = v]
    OBVIOUS
  <2>2. FrameShape(f)
    BY <1>2, <2>1, InnermostShape DEF FrameShape
  <2>3. PICK q : q = WithInnermost(p, f)
    OBVIOUS
  <2>4. StackShape(q) /\ q.stack # <<>>
    BY <1>2, <2>2, <2>3, WithInnermostShape
  <2>5. ASSUME NEW m, m \in {"first", "second"}
        PROVE  ParserShape([q EXCEPT !.mode = m])
    <3>1. PICK r : r = [q EXCEPT !.mode = m]
      OBVIOUS
    <3>2. DOMAIN r = DOMAIN q /\ r.stack = q.stack /\ r.mode = m
      BY <2>4, <3>1 DEF StackShape
    <3>3. ParserShape(r)
      BY <2>4, <2>5, <3>2 DEF StackShape, ParserShape
    <3>4. QED
      BY <3>1, <3>3
  <2>6. Completed(p, v) = [q EXCEPT !.mode = "first"] \/ Completed(p, v) = [q EXCEPT !.mode = "second"]
    BY <1>2, <2>1, <2>3 DEF Completed
  <2>7. QED
    BY <2>5, <2>6
<1>3. QED
  BY <1>1, <1>2

LEMMA RefusedShape ==
    ASSUME NEW p, StackShape(p)
    PROVE  ParserShape(Refused(p)) /\ Refused(p).mode = "refused"
<1>1. PICK q : q = Refused(p)
  OBVIOUS
<1>2. DOMAIN q = DOMAIN p /\ q.mode = "refused" /\ q.stack = <<>>
  BY <1>1 DEF Refused, StackShape
<1>3. Sequential(<<>>) /\ Len(<<>>) = 0
  BY DEF Sequential
<1>4. ParserShape(q)
  BY <1>2, <1>3 DEF ParserShape, StackShape
<1>5. QED
  BY <1>1, <1>2, <1>4

LEMMA ModeShape ==
    ASSUME NEW p, StackShape(p), NEW m, p.stack # <<>>,
           m \notin {"value", "semicolon", "done"}
    PROVE  ParserShape([p EXCEPT !.mode = m])
<1>1. PICK q : q = [p EXCEPT !.mode = m]
  OBVIOUS
<1>2. DOMAIN q = DOMAIN p /\ q.mode = m /\ q.stack = p.stack
  BY <1>1 DEF StackShape
<1>3. ParserShape(q)
  BY <1>2 DEF ParserShape, StackShape
<1>4. QED
  BY <1>1, <1>3

LEMMA BegunShape ==
    ASSUME NEW p, StackShape(p), NEW closing
    PROVE  ParserShape(Begun(p, closing))
<1>1. PICK s : s = Append(p.stack, Frame(closing))
  OBVIOUS
<1>2. FrameShape(Frame(closing))
  BY DEF FrameShape, Frame, Sequential
<1>3. Sequential(s) /\ s # <<>> /\ \A i \in 1..Len(s) : FrameShape(s[i])
  <2> DEFINE r == p.stack
  <2>1. Sequential(r) /\ Len(r) \in Nat /\ \A i \in 1..Len(r) : FrameShape(r[i])
    BY DEF Sequential, StackShape
  <2> HIDE DEF r
  <2> DEFINE f == Frame(closing)
  <2> HIDE DEF f
  <2>2. /\ Sequential(Append(r, f)) /\ Len(Append(r, f)) = Len(r) + 1 /\ Append(r, f) # <<>>
        /\ Append(r, f)[Len(r) + 1] = f
        /\ \A i \in 1..Len(r) : Append(r, f)[i] = r[i]
    BY <2>1, SequentialAppend, ZenonT(60)
  <2>3. \A i \in 1..(Len(r) + 1) : i = Len(r) + 1 \/ i \in 1..Len(r)
    BY <2>1
  <2>4. FrameShape(f)
    BY <1>2 DEF f
  <2>5. \A i \in 1..Len(Append(r, f)) : FrameShape(Append(r, f)[i])
    BY <2>1, <2>2, <2>3, <2>4
  <2>6. QED
    BY <1>1, <2>2, <2>5 DEF r, f
<1>4. PICK q : q = [p EXCEPT !.mode = "begun", !.stack = s]
  OBVIOUS
<1>5. DOMAIN q = DOMAIN p /\ q.mode = "begun" /\ q.stack = s
  BY <1>4 DEF StackShape
<1>6. ParserShape(q)
  BY <1>3, <1>5 DEF ParserShape, StackShape
<1>7. Begun(p, closing) = Refused(p) \/ Begun(p, closing) = q
  BY <1>1, <1>4 DEF Begun
<1>8. QED
  BY <1>6, <1>7, RefusedShape

LEMMA KeptShape ==
    ASSUME NEW p, StackShape(p), p.stack # <<>>
    PROVE  /\ StackShape(Kept(p))
           /\ Kept(p).mode = "refused" => ParserShape(Kept(p))
           /\ Kept(p).mode # "refused" => Kept(p).stack # <<>>
<1> DEFINE f == Innermost(p)
           es == Append(f.entries, Entry(f.key, f.first))
<1>1. FrameShape(f)
  BY InnermostShape
<1>2. Sequential(es)
  BY <1>1, SequentialAppend DEF FrameShape
<1> HIDE DEF es
<1>3. PICK g : g = [Frame(f.closing) EXCEPT !.entries = es]
  OBVIOUS
<1>4. FrameShape(g)
  BY <1>2, <1>3 DEF FrameShape, Frame
<1>5. PICK q : q = WithInnermost(p, g)
  OBVIOUS
<1>6. StackShape(q) /\ q.stack # <<>>
  BY <1>4, <1>5, WithInnermostShape
<1>7. PICK r : r = [q EXCEPT !.count = @ + 1, !.mode = "kept"]
  OBVIOUS
<1>8. DOMAIN r = DOMAIN q /\ r.stack = q.stack /\ r.mode = "kept"
  BY <1>6, <1>7 DEF StackShape
<1>9. StackShape(r) /\ r.stack # <<>>
  BY <1>6, <1>8 DEF StackShape
<1>10. Kept(p) = Refused(p) \/ Kept(p) = r
  BY <1>3, <1>5, <1>7 DEF Kept, es
<1>11. ParserShape(Refused(p)) /\ StackShape(Refused(p)) /\ Refused(p).mode = "refused"
  BY RefusedShape DEF ParserShape
<1>12. "kept" # "refused"
  OBVIOUS
<1>13. QED
  BY <1>8, <1>9, <1>10, <1>11, <1>12

LEMMA EndedShape ==
    ASSUME NEW p, StackShape(p),
           p.mode = "refused" => ParserShape(p),
           p.mode # "refused" => p.stack # <<>>
    PROVE  ParserShape(Ended(p))
<1>1. CASE p.mode = "refused"
  BY <1>1 DEF Ended
<1>2. CASE p.mode # "refused"
  <2>1. ValueShape(Array(Innermost(p).entries))
    BY <1>2, InnermostShape DEF FrameShape, ValueShape, Array
  <2>2. PICK s : s = Front(p.stack)
    OBVIOUS
  <2>3. Sequential(s) /\ \A i \in 1..Len(s) : FrameShape(s[i])
    BY <1>2, <2>2, SequentialFront DEF StackShape
  <2>4. PICK q : q = [p EXCEPT !.stack = s]
    OBVIOUS
  <2>5. DOMAIN q = DOMAIN p /\ q.stack = s
    BY <2>4 DEF StackShape
  <2>6. StackShape(q)
    BY <2>3, <2>5 DEF StackShape
  <2>7. Ended(p) = Completed(q, Array(Innermost(p).entries))
    BY <1>2, <2>2, <2>4 DEF Ended
  <2>8. QED
    BY <2>1, <2>6, <2>7, CompletedShape
<1>3. QED
  BY <1>1, <1>2

LEMMA KeyedShape ==
    ASSUME NEW p, StackShape(p), p.stack # <<>>
    PROVE  ParserShape(Keyed(p))
<1>1. PICK f : f = [Innermost(p) EXCEPT !.key = Innermost(p).first]
  OBVIOUS
<1>2. FrameShape(f)
  BY <1>1, InnermostShape DEF FrameShape
<1>3. PICK q : q = WithInnermost(p, f)
  OBVIOUS
<1>4. StackShape(q) /\ q.stack # <<>>
  BY <1>2, <1>3, WithInnermostShape
<1>5. PICK m : m = "keyed"
  OBVIOUS
<1>6. ParserShape([q EXCEPT !.mode = m])
  <2>1. m \notin {"value", "semicolon", "done"}
    BY <1>5
  <2>2. QED
    BY <1>4, <2>1, ModeShape
<1>7. Keyed(p) = Refused(p) \/ Keyed(p) = [q EXCEPT !.mode = m]
  BY <1>1, <1>3, <1>5 DEF Keyed
<1>8. QED
  BY <1>6, <1>7, RefusedShape

LEMMA AfterShape ==
    ASSUME NEW p, ParserShape(p), NEW t
    PROVE  ParserShape(After(p, t))
<1>0. PICK q : q = After(p, t)
  OBVIOUS
<1>1. StackShape(p)
  BY DEF ParserShape
<1>2. ParserShape(Refused(p))
  BY <1>1, RefusedShape
<1>3. ASSUME NEW m, m \in {"opened", "returned", "array"}
      PROVE  ParserShape(Expecting(p, m))
  <2>1. PICK r : r = Expecting(p, m)
    OBVIOUS
  <2>2. DOMAIN r = DOMAIN p /\ r.mode = m /\ r.stack = p.stack
    BY <1>1, <2>1 DEF StackShape, Expecting
  <2>3. ParserShape(r)
    BY <1>1, <1>3, <2>2 DEF ParserShape, StackShape
  <2>4. QED
    BY <2>1, <2>3
<1>4. ASSUME NEW m, m \in {"semicolon", "done"}, p.mode \in {"value", "semicolon"}
      PROVE  ParserShape(Expecting(p, m))
  <2>1. PICK r : r = Expecting(p, m)
    OBVIOUS
  <2>2. DOMAIN r = DOMAIN p /\ r.mode = m /\ r.stack = p.stack /\ r.value = p.value
    BY <1>1, <2>1 DEF StackShape, Expecting
  <2>3. ValueShape(p.value)
    BY <1>4 DEF ParserShape
  <2>4. ParserShape(r)
    BY <1>1, <1>4, <2>2, <2>3 DEF ParserShape, StackShape
  <2>5. QED
    BY <2>1, <2>4
<1>5. ASSUME t \in Scalars
      PROVE  ParserShape(Completed(p, t))
  <2>1. t.kind # "array"
    BY <1>5 DEF Scalars, Texts, Numbers, Floats, Mark
  <2>2. QED
    BY <1>1, <2>1, CompletedShape DEF ValueShape
<1>6. ParserShape(Begun(p, "]")) /\ ParserShape(Begun(p, ")"))
  BY <1>1, BegunShape
<1>7. ASSUME p.mode \in {"first", "second", "begun", "comma"}
      PROVE  p.stack # <<>>
  BY <1>7 DEF ParserShape
<1>8. ASSUME p.mode = "first"
      PROVE  ParserShape(Keyed(p))
  BY <1>1, <1>7, <1>8, KeyedShape
<1>9. ASSUME p.mode \in {"first", "second"}
      PROVE  /\ ParserShape(Ended(Kept(p)))
             /\ ParserShape(Separated(Kept(p)))
  <2>1. p.stack # <<>>
    BY <1>7, <1>9
  <2>2. PICK k : k = Kept(p)
    OBVIOUS
  <2>3. StackShape(k) /\ (k.mode = "refused" => ParserShape(k)) /\ (k.mode # "refused" => k.stack # <<>>)
    BY <1>1, <2>1, <2>2, KeptShape
  <2>4. ParserShape(Ended(k))
    BY <2>3, EndedShape
  <2>5. ParserShape(Separated(k))
    <3>1. CASE k.mode = "refused"
      BY <2>3, <3>1 DEF Separated
    <3>2. CASE k.mode # "refused"
      <4>1. PICK m : m = "comma"
        OBVIOUS
      <4>2. ParserShape([k EXCEPT !.mode = m])
        <5>1. m \notin {"value", "semicolon", "done"}
          BY <4>1
        <5>2. QED
          BY <2>3, <3>2, <5>1, ModeShape
      <4>3. QED
        BY <3>2, <4>1, <4>2 DEF Separated, Expecting
    <3>3. QED
      BY <3>1, <3>2
  <2>6. QED
    BY <2>2, <2>4, <2>5
<1>10. ASSUME p.mode \in {"begun", "comma"}
       PROVE  ParserShape(Ended(p))
  <2>1. p.stack # <<>> /\ p.mode # "refused"
    BY <1>7, <1>10
  <2>2. QED
    BY <1>1, <2>1, EndedShape
<1>11. \/ q = Refused(p)
       \/ q = Expecting(p, "opened") \/ q = Expecting(p, "returned") \/ q = Expecting(p, "array")
       \/ p.mode \in {"value", "semicolon"} /\ (q = Expecting(p, "semicolon") \/ q = Expecting(p, "done"))
       \/ t \in Scalars /\ q = Completed(p, t)
       \/ q = Begun(p, "]") \/ q = Begun(p, ")")
       \/ p.mode = "first" /\ q = Keyed(p)
       \/ p.mode \in {"first", "second"} /\ q = Ended(Kept(p))
       \/ p.mode \in {"first", "second"} /\ q = Separated(Kept(p))
       \/ p.mode \in {"begun", "comma"} /\ q = Ended(p)
  <2>1. CASE ExpectsValue(p)
    <3>1. q = AtValue(p, t)
      BY <1>0, <2>1 DEF After
    <3>2. QED
      BY <3>1 DEF AtValue
  <2>2. CASE ~ExpectsValue(p) /\ p.mode \in {"first", "second"}
    <3>1. q = InEntry(p, t)
      BY <1>0, <2>2 DEF After
    <3>2. \/ p.mode = "first" /\ q = Keyed(p)
          \/ q = Separated(Kept(p)) \/ q = Ended(Kept(p)) \/ q = Refused(p)
      BY <3>1 DEF InEntry
    <3>3. QED
      BY <2>2, <3>2
  <2>3. CASE ~ExpectsValue(p) /\ p.mode \notin {"first", "second"}
    <3>1. q = AroundValue(p, t) \/ q = Begun(p, ")")
      BY <1>0, <2>3 DEF After
    <3>2. CASE q = AroundValue(p, t)
      <4>1. \/ q = Expecting(p, "opened") \/ q = Expecting(p, "returned")
            \/ p.mode = "value" /\ q = Expecting(p, "semicolon")
            \/ p.mode = "semicolon" /\ q = Expecting(p, "done")
            \/ q = Refused(p)
        BY <3>2 DEF AroundValue
      <4>2. QED
        BY <4>1
    <3>3. QED
      BY <3>1, <3>2
  <2>4. QED
    BY <2>1, <2>2, <2>3
<1>12. QED
  BY <1>2, <1>3, <1>4, <1>5, <1>6, <1>8, <1>9, <1>10, <1>11, <1>0, Zenon

LEMMA ReadTokenShape ==
    ASSUME ParserShape(parser), NEW t, ReadToken(t)
    PROVE  ParserShape(parser')
<1> DEFINE read == Append(parser.read, t)
<1>1. PICK p : p = IF Len(read) > MaxTokens THEN Refused(parser) ELSE After(parser, t)
  OBVIOUS
<1>2. ParserShape(p)
  BY <1>1, AfterShape, RefusedShape DEF ParserShape
<1> HIDE DEF read
<1>3. parser' = [p EXCEPT !.read = read]
  BY <1>1 DEF ReadToken, read
<1>4. /\ DOMAIN parser' = DOMAIN p /\ parser'.mode = p.mode
      /\ parser'.stack = p.stack /\ parser'.value = p.value
  BY <1>2, <1>3 DEF ParserShape, StackShape
<1>5. QED
  BY <1>2, <1>4 DEF ParserShape, StackShape

LEMMA PickedSequential ==
    ASSUME NEW s, Sequential(s), NEW places
    PROVE  Sequential(Picked(s, places))
<1>1. Picked(s, places) \in Seq(Elements(s))
  BY SequentialIsSeq, PickedIsSeq
<1>2. QED
  BY <1>1, SeqIsSequential

LEMMA ConcatSequential ==
    ASSUME NEW s, NEW t, Sequential(s), Sequential(t)
    PROVE  Sequential(s \o t)
<1> DEFINE S == Elements(s) \cup Elements(t)
<1>1. s \in Seq(Elements(s)) /\ t \in Seq(Elements(t))
  BY SequentialIsSeq
<1>2. s \in Seq(S) /\ t \in Seq(S)
  <2>1. Elements(s) \subseteq S /\ Elements(t) \subseteq S
    OBVIOUS
  <2> HIDE DEF S
  <2>2. QED
    BY <1>1, <2>1
<1> HIDE DEF S
<1>3. s \o t \in Seq(S)
  BY <1>2, ConcatProperties
<1>4. QED
  BY <1>3, SeqIsSequential

LEMMA MappedSequential ==
    ASSUME NEW s, Sequential(s), NEW t, DOMAIN t = DOMAIN s, t = [i \in DOMAIN t |-> t[i]]
    PROVE  Sequential(t)
<1>1. Len(s) \in Nat /\ DOMAIN t = 1..Len(s)
  BY SequentialIsSeq DEF Sequential
<1>2. Len(t) = Len(s)
  BY <1>1
<1>3. QED
  BY <1>1, <1>2 DEF Sequential

LEMMA InstalledSequential ==
    ASSUME NEW file, Sequential(file.entries), NEW manifests, NEW forced
    PROVE  Sequential(InstalledApps(file, manifests, forced))
<1>1. Sequential(Keys(file))
  <2> DEFINE keys == [i \in DOMAIN file.entries |-> KeyAt(file, i)]
  <2>1. DOMAIN keys = DOMAIN file.entries /\ keys = [i \in DOMAIN keys |-> keys[i]]
    OBVIOUS
  <2> HIDE DEF keys
  <2>2. Sequential(keys)
    BY <2>1, MappedSequential
  <2>3. QED
    BY <2>2, PickedSequential DEF Keys, keys
<1>2. Sequential(Configured(file, forced))
  <2> DEFINE always == <<"webasyst">> \o IF forced THEN <<"installer">> ELSE <<>>
             others == Picked(always, {i \in DOMAIN always : ~Has(file, always[i])})
             keys == Keys(file) \o others
  <2>1. Sequential(always)
    <3>1. Sequential(<<"webasyst">>) /\ Sequential(<<"installer">>) /\ Sequential(<<>>)
      BY DEF Sequential
    <3>2. PICK s : s = IF forced THEN <<"installer">> ELSE <<>>
      OBVIOUS
    <3>3. Sequential(<<"webasyst">> \o s)
      BY <3>1, <3>2, ConcatSequential
    <3>4. QED
      BY <3>2, <3>3
  <2> HIDE DEF always
  <2>2. Sequential(others)
    BY <2>1, PickedSequential
  <2> HIDE DEF others
  <2>3. Sequential(keys)
    BY <1>1, <2>2, ConcatSequential
  <2>4. Configured(file, forced) =
            Picked(keys, {i \in DOMAIN keys : keys[i] \in Range(always) \/ Truthy(At(file, keys[i]))})
    BY DEF Configured, keys, others, always
  <2> HIDE DEF keys
  <2>5. QED
    BY <2>3, <2>4, PickedSequential
<1>3. Sequential(Present(Configured(file, forced), manifests))
  BY <1>2, PickedSequential DEF Present
<1> DEFINE ids == Present(Configured(file, forced), manifests)
           installed == InstalledApps(file, manifests, forced)
<1>4. installed = [i \in DOMAIN ids |-> Application(ids[i], manifests[ids[i]])]
  BY DEF InstalledApps
<1> HIDE DEF ids, installed
<1>5. DOMAIN installed = DOMAIN ids /\ installed = [i \in DOMAIN installed |-> installed[i]]
  BY <1>4
<1>6. QED
  BY <1>3, <1>5, MappedSequential DEF ids, installed

LEMMA BuildCatalogShape ==
    ASSUME ParserShape(parser), Sequential(catalog.apps), NEW disk, BuildCatalog(disk)
    PROVE  Sequential(catalog.apps)'
<1> DEFINE file == IF ~disk.configured THEN Absent
                   ELSE IF parser.mode = "done" THEN parser.value ELSE Broken
           installed == InstalledApps(file, disk.manifests, disk.installer)
<1>1. CASE AcceptableApps(file, disk.manifests, disk.installer)
  <2>1. file \notin {Absent, Broken} /\ file.kind = "array"
    BY <1>1 DEF AcceptableApps, IsMapping
  <2>2. parser.mode = "done" /\ file = parser.value
    BY <2>1
  <2>3. Sequential(file.entries)
    BY <2>1, <2>2 DEF ParserShape, ValueShape
  <2> HIDE DEF file, installed
  <2>4. Sequential(installed)
    BY <2>3, InstalledSequential DEF installed
  <2>5. catalog' = [status |-> "built", disk |-> disk, apps |-> installed]
    BY <1>1 DEF BuildCatalog, file, installed
  <2>6. QED
    BY <2>4, <2>5
<1>2. CASE ~AcceptableApps(file, disk.manifests, disk.installer)
  <2> HIDE DEF file, installed
  <2>1. PICK d : catalog' = [NoCatalog EXCEPT !.status = "failed", !.disk = d]
    BY <1>2 DEF BuildCatalog, file
  <2>2. catalog'.apps = <<>>
    BY <2>1 DEF NoCatalog
  <2>3. QED
    BY <2>2 DEF Sequential
<1>3. QED
  BY <1>1, <1>2

-----------------------------------------------------------------------------
(* The inductive invariant: what an attempt to start has come to at each   *)
(* of its steps.                                                           *)

FilesRead ==
    /\ ParserShape(parser)
    /\ Sequential(catalog.apps)
    /\ Sequential(apps)

AttemptShape ==
    /\ DOMAIN boot = {"pc", "modules", "todo", "issues", "answer"}
    /\ boot.pc \in {"idle", "plugins", "build", "link", "apply"}
    /\ Modular(boot.modules)
    /\ state \in {"pending", "ready"}
    /\ source = None \/ source \in Source
    /\ source = None => state = "pending" /\ boot.pc = "idle" /\ boot.answer = "none"

(* The modules an attempt registers are well formed, and so far the first  *)
(* of their contributions are registered, once and in their order, while   *)
(* the others are still to come.                                           *)
Registering(k) ==
    LET cs == AllContributions(boot.modules)
    IN  /\ k \in 0..Len(cs)
        /\ registered = [i \in 1..k |-> cs[i].def]
        /\ boot.todo = [i \in 1..(Len(cs) - k) |-> cs[k + i]]

AttemptInv ==
    /\ boot.pc # "idle" => state = "pending"
    /\ state = "pending" /\ boot.pc # "apply" => registered = <<>>
    /\ boot.pc = "apply" => WellFormed(boot.modules) /\ \E k \in Nat : Registering(k)
    /\ state = "ready" => /\ WellFormed(boot.modules)
                          /\ registered = [i \in DOMAIN AllContributions(boot.modules) |->
                                              AllContributions(boot.modules)[i].def]
    /\ boot.pc = "idle" => /\ boot.answer # "assertion"
                           /\ boot.answer \in {"ready", "rejected"} =>
                                 ((boot.answer = "ready") <=> WellFormed(boot.modules))

LinkerInv == FilesRead /\ AttemptShape /\ AttemptInv

(* What an attempt says of its modules depends on them, on the installed   *)
(* applications and on the installed plugins.                              *)
LEMMA SameModules ==
    ASSUME apps' = apps, plugins' = plugins, boot'.modules = boot.modules
    PROVE  /\ WellFormed(boot.modules)' <=> WellFormed(boot.modules)
           /\ AllContributions(boot.modules)' = AllContributions(boot.modules)
           /\ Modular(boot.modules)' <=> Modular(boot.modules)
BY DEF WellFormed

LEMMA UntouchedLinker ==
    ASSUME AttemptShape, AttemptInv, UNCHANGED linkerVars
    PROVE  (AttemptShape /\ AttemptInv)'
<1>1. /\ apps' = apps /\ plugins' = plugins /\ source' = source
      /\ registered' = registered /\ state' = state /\ boot' = boot
  BY DEF linkerVars
<1>2. AttemptShape'
  BY <1>1, SameModules DEF AttemptShape
<1>3. \A k \in Nat : Registering(k)' <=> Registering(k)
  BY <1>1, SameModules DEF Registering
<1>4. AttemptInv'
  BY <1>1, <1>3, SameModules DEF AttemptInv
<1>5. QED
  BY <1>2, <1>4

LEMMA EmptyModules == Modular(<<>>) /\ Sequential(<<>>)
BY DEF Modular, Sequential

LEMMA LinkerInvInit == Init => LinkerInv
<1> SUFFICES ASSUME Init
             PROVE  LinkerInv
  OBVIOUS
<1>1. FilesRead
  <2>1. parser = [mode |-> "start", stack |-> <<>>, count |-> 0, value |-> Nil, read |-> <<>>]
    BY DEF Init, ParserInit, NewParser
  <2>2. ParserShape(parser)
    BY <2>1, EmptyModules DEF ParserShape, StackShape
  <2>3. catalog.apps = <<>> /\ apps = <<>>
    BY DEF Init, CatalogInit, NoCatalog, LinkerInit
  <2>4. QED
    BY <2>2, <2>3, EmptyModules DEF FilesRead
<1>2. AttemptShape /\ AttemptInv
  <2>1. /\ boot = [pc |-> "idle", modules |-> <<>>, todo |-> <<>>, issues |-> {}, answer |-> "none"]
        /\ source = None /\ registered = <<>> /\ state = "pending"
    BY DEF Init, LinkerInit, Boot
  <2>2. AttemptShape
    BY <2>1, EmptyModules DEF AttemptShape
  <2>3. AttemptInv
    BY <2>1 DEF AttemptInv
  <2>4. QED
    BY <2>2, <2>3
<1>3. QED
  BY <1>1, <1>2 DEF LinkerInv

LEMMA CreateContainerKeeps ==
    ASSUME AttemptShape, AttemptInv, NEW installed, NEW from \in Source,
           CreateContainer(installed, from)
    PROVE  (AttemptShape /\ AttemptInv)'
<1>1. /\ source = None /\ source' = from /\ plugins' = plugins
      /\ registered' = registered /\ state' = state /\ boot' = boot
  BY DEF CreateContainer
<1>2. state = "pending" /\ boot.pc = "idle" /\ boot.answer = "none" /\ registered = <<>>
  BY <1>1 DEF AttemptShape, AttemptInv
<1>3. AttemptShape'
  BY <1>1, <1>2 DEF AttemptShape
<1>4. AttemptInv'
  BY <1>1, <1>2 DEF AttemptInv
<1>5. QED
  BY <1>3, <1>4

LEMMA InitializeKeeps ==
    ASSUME AttemptShape, AttemptInv, Initialize
    PROVE  (AttemptShape /\ AttemptInv)'
<1>1. /\ source # None /\ boot.pc = "idle"
      /\ apps' = apps /\ plugins' = plugins /\ source' = source
      /\ registered' = registered /\ state' = state
  BY DEF Initialize
<1>2. CASE state = "ready"
  <2>1. boot' = [boot EXCEPT !.pc = "idle", !.todo = <<>>, !.answer = "ready"]
    BY <1>2 DEF Initialize, Answered
  <2>2. /\ DOMAIN boot' = DOMAIN boot /\ boot'.pc = "idle" /\ boot'.answer = "ready"
        /\ boot'.modules = boot.modules
    BY <2>1 DEF AttemptShape
  <2>3. AttemptShape'
    BY <1>1, <2>2, SameModules DEF AttemptShape
  <2>4. AttemptInv'
    BY <1>1, <1>2, <2>2, SameModules DEF AttemptInv
  <2>5. QED
    BY <2>3, <2>4
<1>3. CASE state # "ready"
  <2>1. boot' = [pc |-> "plugins", modules |-> <<>>, todo |-> <<>>, issues |-> {}, answer |-> "none"]
    BY <1>3 DEF Initialize, Boot
  <2>2. state = "pending" /\ registered = <<>>
    BY <1>1, <1>3 DEF AttemptShape, AttemptInv
  <2>3. AttemptShape'
    BY <1>1, <2>1, EmptyModules DEF AttemptShape
  <2>4. AttemptInv'
    BY <1>1, <2>1, <2>2 DEF AttemptInv
  <2>5. QED
    BY <2>3, <2>4
<1>4. QED
  BY <1>2, <1>3

LEMMA ReadPluginsKeeps ==
    ASSUME AttemptShape, AttemptInv, NEW found, NEW readable, ReadPlugins(found, readable)
    PROVE  (AttemptShape /\ AttemptInv)'
<1>1. /\ boot.pc = "plugins" /\ apps' = apps /\ source' = source
      /\ registered' = registered /\ state' = state
  BY DEF ReadPlugins
<1>2. state = "pending" /\ registered = <<>>
  BY <1>1 DEF AttemptInv
<1>3. /\ DOMAIN boot' = DOMAIN boot /\ boot'.modules = boot.modules
      /\ boot'.pc = "build" \/ (boot'.pc = "idle" /\ boot'.answer = "unreadable")
  BY DEF ReadPlugins, Answered, AttemptShape
<1>4. AttemptShape'
  <2>1. source # None
    BY <1>1 DEF AttemptShape
  <2>2. Modular(boot.modules)'
    BY <1>3 DEF AttemptShape, Modular
  <2>3. QED
    BY <1>1, <1>3, <2>1, <2>2 DEF AttemptShape
<1>5. AttemptInv'
  BY <1>1, <1>2, <1>3 DEF AttemptInv
<1>6. QED
  BY <1>4, <1>5

LEMMA ChosenModules ==
    ASSUME Sequential(apps), source \in Source
    PROVE  Sequential(Chosen) /\ \A i \in 1..Len(Chosen) : Constructible(Chosen[i].module)
<1> DEFINE S == Elements(source.modules)
<1>1. Sequential(source.modules) /\ DOMAIN source.modules = 1..Len(source.modules)
  BY SourceAssumption, SeqIsSequential
<1>2. source.modules \in Seq(S) /\ \A e \in S : Constructible(e.module)
  <2>1. source.modules \in Seq(S)
    BY <1>1, SequentialIsSeq
  <2>2. \A i \in 1..Len(source.modules) : Constructible(source.modules[i].module)
    BY <1>1, SourceAssumption
  <2>3. QED
    BY <2>1, <2>2 DEF Elements
<1> HIDE DEF S
<1>3. Chosen \in Seq(S)
  <2>1. CASE source.kind = "provided"
    BY <1>2, <2>1 DEF Chosen
  <2>2. CASE source.kind # "provided"
    <3> DEFINE ss == [i \in DOMAIN apps |-> Picked(source.modules,
                          {k \in DOMAIN source.modules : source.modules[k].app = apps[i]})]
    <3>1. Len(apps) \in Nat /\ DOMAIN apps = 1..Len(apps)
      BY SequentialIsSeq DEF Sequential
    <3>2. \A i \in DOMAIN apps : ss[i] \in Seq(S)
      BY <1>2, PickedIsSeq
    <3>3. ss \in [1..Len(apps) -> Seq(S)]
      BY <3>1, <3>2
    <3>4. Chosen = FlattenSeq(ss)
      BY <2>2 DEF Chosen
    <3> HIDE DEF ss
    <3>5. ss \in Seq(Seq(S))
      BY <3>1, <3>3, IsASeq
    <3>6. QED
      BY <3>4, <3>5, FlattenSeqIsSeq
  <2>3. QED
    BY <2>1, <2>2
<1>4. QED
  BY <1>2, <1>3, SeqIsSequential

LEMMA BuildModulesKeeps ==
    ASSUME Sequential(apps), AttemptShape, AttemptInv, BuildModules
    PROVE  (AttemptShape /\ AttemptInv)'
<1>1. /\ boot.pc = "build" /\ apps' = apps /\ plugins' = plugins /\ source' = source
      /\ registered' = registered /\ state' = state
  BY DEF BuildModules
<1>2. state = "pending" /\ registered = <<>> /\ source # None /\ source \in Source
  BY <1>1 DEF AttemptInv, AttemptShape
<1>3. PICK modules : modules = [i \in DOMAIN Chosen |-> Chosen[i].module]
  OBVIOUS
<1>4. Modular(modules)
  <2>1. Sequential(Chosen) /\ \A i \in 1..Len(Chosen) : Constructible(Chosen[i].module)
    BY <1>2, ChosenModules
  <2>2. Len(Chosen) \in Nat /\ DOMAIN Chosen = 1..Len(Chosen)
    BY <2>1, SequentialIsSeq DEF Sequential
  <2>3. DOMAIN modules = DOMAIN Chosen /\ modules = [i \in DOMAIN modules |-> modules[i]]
    BY <1>3
  <2>4. Sequential(modules)
    BY <2>1, <2>3, MappedSequential
  <2>5. Len(modules) = Len(Chosen)
    BY <2>2, <2>3
  <2>6. \A i \in 1..Len(modules) : Constructible(modules[i])
    BY <1>3, <2>1, <2>2, <2>5
  <2>7. QED
    BY <2>4, <2>6 DEF Modular
<1>5. /\ DOMAIN boot' = DOMAIN boot
      /\ \/ boot'.pc = "link" /\ boot'.modules = modules
         \/ boot'.pc = "idle" /\ boot'.answer = "mismatch" /\ boot'.modules = boot.modules
  BY <1>3 DEF BuildModules, Answered, AttemptShape
<1>6. Modular(boot.modules)'
  BY <1>4, <1>5 DEF AttemptShape, Modular
<1>7. AttemptShape'
  BY <1>1, <1>2, <1>5, <1>6 DEF AttemptShape
<1>8. AttemptInv'
  BY <1>1, <1>2, <1>5 DEF AttemptInv
<1>9. QED
  BY <1>7, <1>8

LEMMA LinkKeeps ==
    ASSUME AttemptShape, AttemptInv, Link
    PROVE  (AttemptShape /\ AttemptInv)'
<1>1. /\ boot.pc = "link" /\ apps' = apps /\ plugins' = plugins /\ source' = source
      /\ registered' = registered /\ state' = state
  BY DEF Link
<1>2. state = "pending" /\ registered = <<>> /\ source # None
  BY <1>1 DEF AttemptInv, AttemptShape
<1>3. Modular(boot.modules)
  BY DEF AttemptShape
<1>4. Issues(boot.modules) = {} <=> WellFormed(boot.modules)
  BY <1>2, <1>3, Validated
<1> DEFINE cs == AllContributions(boot.modules)
<1>5. cs \in Seq(Contribution)
  BY <1>3, AllTheirContributions
<1>6. CASE Issues(boot.modules) # {}
  <2>1. PICK b : b = [boot EXCEPT !.pc = "idle", !.todo = <<>>, !.answer = "rejected"]
    OBVIOUS
  <2>2. DOMAIN b = DOMAIN boot /\ b.pc = "idle" /\ b.answer = "rejected" /\ b.modules = boot.modules
    BY <2>1 DEF AttemptShape
  <2>3. boot' = [b EXCEPT !.issues = Issues(boot.modules)]
    BY <1>6, <2>1 DEF Link, Answered
  <2>4. DOMAIN boot' = DOMAIN boot /\ boot'.pc = "idle" /\ boot'.answer = "rejected" /\ boot'.modules = boot.modules
    BY <2>2, <2>3 DEF AttemptShape
  <2>5. AttemptShape'
    BY <1>1, <1>2, <2>4, SameModules DEF AttemptShape
  <2>6. ~WellFormed(boot.modules)'
    BY <1>1, <1>4, <1>6, <2>4, SameModules
  <2>7. AttemptInv'
    BY <1>1, <1>2, <2>4, <2>6 DEF AttemptInv
  <2>8. QED
    BY <2>5, <2>7
<1>7. CASE Issues(boot.modules) = {}
  <2>1. boot' = [boot EXCEPT !.pc = "apply", !.todo = cs]
    BY <1>7 DEF Link
  <2> HIDE DEF cs
  <2>2. DOMAIN boot' = DOMAIN boot /\ boot'.pc = "apply" /\ boot'.todo = cs /\ boot'.modules = boot.modules
    BY <2>1 DEF AttemptShape
  <2>3. AttemptShape'
    BY <1>1, <1>2, <2>2, SameModules DEF AttemptShape
  <2>4. WellFormed(boot.modules)'
    BY <1>1, <1>4, <1>7, <2>2, SameModules
  <2>5. AllContributions(boot.modules)' = cs
    BY <1>1, <2>2, SameModules DEF cs
  <2>6. Len(cs) \in Nat /\ cs = [i \in 1..Len(cs) |-> cs[i]]
    BY <1>5, SeqIsSequential DEF Sequential
  <2>7. /\ 0 \in 0..Len(cs)
        /\ <<>> = [i \in 1..0 |-> cs[i].def]
        /\ cs = [i \in 1..(Len(cs) - 0) |-> cs[0 + i]]
    BY <2>6
  <2>8. Registering(0)'
    BY <1>1, <1>2, <2>2, <2>5, <2>7 DEF Registering
  <2>9. AttemptInv'
    BY <1>1, <1>2, <2>2, <2>4, <2>8 DEF AttemptInv
  <2>10. QED
    BY <2>3, <2>9
<1>8. QED
  BY <1>6, <1>7

(* Among well formed modules, no place is taken by a contribution before.  *)
LEMMA PlaceIsFree ==
    ASSUME Modular(boot.modules), WellFormed(boot.modules), NEW k \in Nat, Registering(k), boot.todo # <<>>
    PROVE  /\ ~Taken(Slot(Head(boot.todo).def))
           /\ k + 1 \in 0..Len(AllContributions(boot.modules))
           /\ Append(registered, Head(boot.todo).def) =
                [i \in 1..(k + 1) |-> AllContributions(boot.modules)[i].def]
           /\ Tail(boot.todo) =
                [i \in 1..(Len(AllContributions(boot.modules)) - (k + 1)) |->
                    AllContributions(boot.modules)[k + 1 + i]]
<1> DEFINE cs == AllContributions(boot.modules)
           n == Len(cs)
<1>1. cs \in Seq(Contribution) /\ OwnSlots(cs)
  BY AllTheirContributions, WellFormedParts
<1>2. n \in Nat /\ DOMAIN cs = 1..n /\ \A i \in 1..n : cs[i] \in Contribution
  BY <1>1, SeqIsSequential DEF Sequential
<1>3. /\ k \in 0..n
      /\ registered = [i \in 1..k |-> cs[i].def]
      /\ boot.todo = [i \in 1..(n - k) |-> cs[k + i]]
  BY DEF Registering
<1> HIDE DEF cs, n
<1>4. k # n
  <2>1. k = n => boot.todo = <<>>
    BY <1>2, <1>3
  <2>2. QED
    BY <2>1
<1>5. k + 1 \in 0..n /\ n - k \in Nat /\ 1 \in 1..(n - k) /\ k + 1 \in 1..n
  BY <1>2, <1>3, <1>4
<1>6. Len(boot.todo) = n - k /\ Head(boot.todo) = cs[k + 1] /\ boot.todo \in Seq(Contribution)
  <2>1. \A i \in 1..(n - k) : cs[k + i] \in Contribution
    BY <1>2, <1>3
  <2>2. boot.todo \in [1..(n - k) -> Contribution]
    BY <1>3, <2>1
  <2>3. boot.todo \in Seq(Contribution) /\ Len(boot.todo) = n - k
    BY <1>5, <2>2, IsASeq, LenProperties
  <2>4. Head(boot.todo) = boot.todo[1]
    BY <2>3
  <2>5. QED
    BY <1>3, <1>5, <2>3, <2>4
<1>7. ~Taken(Slot(cs[k + 1].def))
  <2> SUFFICES ASSUME NEW i \in DOMAIN registered, Slot(registered[i]) = Slot(cs[k + 1].def)
               PROVE  FALSE
    BY DEF Taken
  <2>1. i \in 1..n /\ i # k + 1 /\ registered[i] = cs[i].def
    BY <1>2, <1>3, <1>5
  <2>2. QED
    BY <1>1, <1>2, <1>5, <2>1 DEF OwnSlots
<1>8. Append(registered, cs[k + 1].def) = [i \in 1..(k + 1) |-> cs[i].def]
  <2>1. Len(registered) = k
    BY <1>3
  <2> DEFINE r == [i \in 1..(k + 1) |-> cs[i].def]
  <2>2. registered = [i \in 1..k |-> r[i]] /\ r[k + 1] = cs[k + 1].def
    BY <1>3, <1>5
  <2>3. QED
    BY <1>3, <1>5, <2>1
<1>9. Tail(boot.todo) = [i \in 1..(n - (k + 1)) |-> cs[k + 1 + i]]
  <2>1. Tail(boot.todo) = [i \in 1..(Len(boot.todo) - 1) |-> boot.todo[i + 1]]
    BY <1>5, <1>6
  <2>2. Len(boot.todo) - 1 = n - (k + 1)
    BY <1>2, <1>3, <1>6
  <2>3. \A i \in 1..(n - (k + 1)) : i + 1 \in 1..(n - k) /\ boot.todo[i + 1] = cs[k + 1 + i]
    BY <1>2, <1>3, <1>5
  <2>4. QED
    BY <2>1, <2>2, <2>3
<1>10. QED
  BY <1>5, <1>6, <1>7, <1>8, <1>9 DEF cs, n

LEMMA RegisterKeeps ==
    ASSUME AttemptShape, AttemptInv, Register
    PROVE  (AttemptShape /\ AttemptInv)'
<1>1. /\ boot.pc = "apply" /\ boot.todo # <<>>
      /\ apps' = apps /\ plugins' = plugins /\ source' = source /\ state' = state
  BY DEF Register
<1>2. state = "pending" /\ source # None /\ WellFormed(boot.modules) /\ Modular(boot.modules)
  BY <1>1 DEF AttemptInv, AttemptShape
<1>3. PICK k \in Nat : Registering(k)
  BY <1>1 DEF AttemptInv
<1> DEFINE cs == AllContributions(boot.modules)
<1>4. /\ ~Taken(Slot(Head(boot.todo).def))
      /\ k + 1 \in 0..Len(cs)
      /\ Append(registered, Head(boot.todo).def) = [i \in 1..(k + 1) |-> cs[i].def]
      /\ Tail(boot.todo) = [i \in 1..(Len(cs) - (k + 1)) |-> cs[k + 1 + i]]
  BY <1>1, <1>2, <1>3, PlaceIsFree
<1>5. boot' = [boot EXCEPT !.todo = Tail(boot.todo)] /\ registered' = Append(registered, Head(boot.todo).def)
  BY <1>4 DEF Register
<1> HIDE DEF cs
<1>6. DOMAIN boot' = DOMAIN boot /\ boot'.pc = "apply" /\ boot'.todo = Tail(boot.todo) /\ boot'.modules = boot.modules
  BY <1>1, <1>5 DEF AttemptShape
<1>7. AttemptShape'
  BY <1>1, <1>2, <1>6, SameModules DEF AttemptShape
<1>8. AllContributions(boot.modules)' = cs /\ WellFormed(boot.modules)'
  BY <1>1, <1>2, <1>6, SameModules DEF cs
<1>9. Registering(k + 1)'
  BY <1>4, <1>5, <1>6, <1>8, ZenonT(60) DEF Registering
<1>10. k + 1 \in Nat
  OBVIOUS
<1>11. AttemptInv'
  BY <1>1, <1>2, <1>6, <1>8, <1>9, <1>10 DEF AttemptInv
<1>12. QED
  BY <1>7, <1>11

LEMMA FinishKeeps ==
    ASSUME AttemptShape, AttemptInv, Finish
    PROVE  (AttemptShape /\ AttemptInv)'
<1>1. /\ boot.pc = "apply" /\ boot.todo = <<>>
      /\ apps' = apps /\ plugins' = plugins /\ source' = source
      /\ registered' = registered /\ state' = "ready"
  BY DEF Finish
<1>2. source # None /\ WellFormed(boot.modules) /\ Modular(boot.modules)
  BY <1>1 DEF AttemptInv, AttemptShape
<1>3. PICK k \in Nat : Registering(k)
  BY <1>1 DEF AttemptInv
<1> DEFINE cs == AllContributions(boot.modules)
<1>4. PICK n \in Nat : n = Len(cs) /\ DOMAIN cs = 1..n
  BY <1>2, AllTheirContributions, SeqIsSequential DEF Sequential
<1>5. /\ k \in 0..n
      /\ registered = [i \in 1..k |-> cs[i].def]
      /\ <<>> = [i \in 1..(n - k) |-> cs[k + i]]
  BY <1>1, <1>3, <1>4 DEF Registering
<1>6. boot' = [boot EXCEPT !.pc = "idle", !.todo = <<>>, !.answer = "ready"]
  BY DEF Finish, Answered
<1> HIDE DEF cs
<1>7. DOMAIN boot' = DOMAIN boot /\ boot'.pc = "idle" /\ boot'.answer = "ready" /\ boot'.modules = boot.modules
  BY <1>6 DEF AttemptShape
<1>8. AttemptShape'
  BY <1>1, <1>2, <1>7, SameModules DEF AttemptShape
<1>9. AllContributions(boot.modules)' = cs /\ WellFormed(boot.modules)'
  BY <1>1, <1>2, <1>7, SameModules DEF cs
<1>10. registered = [i \in DOMAIN cs |-> cs[i].def]
  <2>1. PICK m \in Nat : m = n - k
    BY <1>5
  <2>2. Len([i \in 1..m |-> cs[k + i]]) = m
    OBVIOUS
  <2>3. m = 0
    BY <1>5, <2>1, <2>2
  <2>4. k = n
    BY <1>5, <2>1, <2>3
  <2>5. QED
    BY <1>4, <1>5, <2>4
<1>11. AttemptInv'
  BY <1>1, <1>7, <1>9, <1>10 DEF AttemptInv
<1>12. QED
  BY <1>8, <1>11

LEMMA ApiStepReads ==
    ASSUME ApiStep
    PROVE  UNCHANGED linkerVars
BY DEF ApiStep, ResolveCallToken, TouchCallToken, ReadActivity, TouchContact, FlushContact, Authorize,
       ExecuteOwn, ReadUsers, SelectUsers, ReadGroups, SelectGroups, EndCall, Reads

LEMMA FilesReadNext == FilesRead /\ [Next]_vars => FilesRead'
<1> SUFFICES ASSUME FilesRead, [Next]_vars
             PROVE  FilesRead'
  OBVIOUS
<1>1. Sequential(<<>>)
  BY EmptyModules
<1>2. ParserShape(NewParser)
  BY EmptyModules DEF ParserShape, StackShape, NewParser
<1>3. CASE UNCHANGED <<parser, catalog, apps>>
  BY <1>3 DEF FilesRead
<1>4. ASSUME NEW t \in Token, ReadFile(t)
      PROVE  FilesRead'
  <2>1. ReadToken(t) /\ catalog' = catalog /\ apps' = apps
    BY <1>4 DEF ReadFile, linkerVars
  <2>2. ParserShape(parser')
    BY <2>1, ReadTokenShape DEF FilesRead
  <2>3. QED
    BY <2>1, <2>2 DEF FilesRead
<1>5. ASSUME NEW disk \in Disk, Build(disk)
      PROVE  FilesRead'
  <2>1. BuildCatalog(disk) /\ parser' = parser /\ apps' = apps
    BY <1>5 DEF Build, BuildCatalog, linkerVars
  <2>2. Sequential(catalog.apps)'
    BY <2>1, BuildCatalogShape DEF FilesRead
  <2>3. QED
    BY <2>1, <2>2 DEF FilesRead
<1>6. ASSUME NEW from \in Source, Create(from)
      PROVE  FilesRead'
  <2> DEFINE installed == [i \in DOMAIN catalog.apps |-> catalog.apps[i].app]
  <2>1. DOMAIN installed = DOMAIN catalog.apps /\ installed = [i \in DOMAIN installed |-> installed[i]]
    OBVIOUS
  <2>2. parser' = NewParser /\ catalog' = NoCatalog /\ apps' = installed
    BY <1>6 DEF Create, CreateContainer
  <2> HIDE DEF installed
  <2>3. Sequential(installed)
    BY <2>1, MappedSequential DEF FilesRead
  <2>4. catalog'.apps = <<>>
    BY <2>2 DEF NoCatalog
  <2>5. QED
    BY <1>1, <1>2, <2>2, <2>3, <2>4 DEF FilesRead
<1>7. CASE Restart
  <2>1. parser' = NewParser /\ catalog' = NoCatalog /\ apps' = <<>>
    BY <1>7 DEF Restart
  <2>2. catalog'.apps = <<>>
    BY <2>1 DEF NoCatalog
  <2>3. QED
    BY <1>1, <1>2, <2>1, <2>2 DEF FilesRead
<1>8. CASE Enter \/ Boots
  <2>1. UNCHANGED <<parser, catalog, apps>>
    BY <1>8 DEF Enter, Initialize, Boots, ReadPlugins, BuildModules, Link, Register, Finish, fileVars
  <2>2. QED
    BY <1>3, <2>1
<1>9. CASE Events \/ Route \/ AnswerRouted
  <2>1. UNCHANGED <<parser, catalog, apps>>
    BY <1>9 DEF Events, Publish, EventStep, CallHandler, Handle, HandleUnsupported, RelayEvent,
                EndDispatch, EndsWith, TakeReport,
                CancelDispatch, Route, RouteRequest, AnswerRouted, AnswerRequest, fileVars, linkerVars
  <2>2. QED
    BY <1>3, <2>1
<1>10. CASE Receive \/ Call \/ Disturb
  <2>1. UNCHANGED fileVars /\ UNCHANGED linkerVars
    BY <1>10, ApiStepReads DEF Receive, ReceiveCall, Call, Disturb, Interfere
  <2>2. QED
    BY <1>3, <2>1 DEF fileVars, linkerVars
<1>11. CASE UNCHANGED vars
  BY <1>3, <1>11 DEF vars, fileVars, linkerVars
<1>12. QED
  BY <1>4, <1>5, <1>6, <1>7, <1>8, <1>9, <1>10, <1>11 DEF Next

(* The steps of a process, by what they do to the linker. *)
LEMMA LinkerSteps ==
    ASSUME [Next]_vars
    PROVE  \/ UNCHANGED linkerVars
           \/ \E installed : \E from \in Source : CreateContainer(installed, from)
           \/ Initialize
           \/ \E found, readable : ReadPlugins(found, readable)
           \/ BuildModules \/ Link \/ Register \/ Finish
           \/ Restart
<1>1. CASE \E t \in Token : ReadFile(t)
  BY <1>1 DEF ReadFile
<1>2. CASE \E disk \in Disk : Build(disk)
  BY <1>2 DEF Build
<1>3. CASE \E from \in Source : Create(from)
  BY <1>3 DEF Create
<1>4. CASE Enter
  BY <1>4 DEF Enter
<1>5. CASE Boots
  BY <1>5 DEF Boots
<1>6. CASE Events
  BY <1>6 DEF Events, Publish, EventStep, CallHandler, Handle, HandleUnsupported, RelayEvent,
                EndDispatch, EndsWith, TakeReport,
              CancelDispatch
<1>7. CASE Route \/ AnswerRouted
  BY <1>7 DEF Route, AnswerRouted, RouteRequest, AnswerRequest
<1>8. CASE Receive \/ Call \/ Disturb
  BY <1>8, ApiStepReads DEF Receive, ReceiveCall, Call, Disturb, Interfere
<1>9. CASE UNCHANGED vars
  BY <1>9 DEF vars
<1>10. QED
  BY <1>1, <1>2, <1>3, <1>4, <1>5, <1>6, <1>7, <1>8, <1>9 DEF Next

LEMMA RestartKeeps ==
    ASSUME Restart
    PROVE  (AttemptShape /\ AttemptInv)'
<1>1. /\ boot' = [pc |-> "idle", modules |-> <<>>, todo |-> <<>>, issues |-> {}, answer |-> "none"]
      /\ source' = None /\ registered' = <<>> /\ state' = "pending"
  BY DEF Restart, Boot
<1>2. AttemptShape'
  BY <1>1, EmptyModules DEF AttemptShape
<1>3. AttemptInv'
  BY <1>1 DEF AttemptInv
<1>4. QED
  BY <1>2, <1>3

LEMMA LinkerInvNext == LinkerInv /\ [Next]_vars => LinkerInv'
<1> SUFFICES ASSUME LinkerInv, [Next]_vars
             PROVE  LinkerInv'
  OBVIOUS
<1>1. FilesRead'
  BY FilesReadNext DEF LinkerInv
<1>2. (AttemptShape /\ AttemptInv)'
  <2> USE DEF LinkerInv
  <2>1. CASE UNCHANGED linkerVars
    BY <2>1, UntouchedLinker
  <2>2. CASE \E installed : \E from \in Source : CreateContainer(installed, from)
    BY <2>2, CreateContainerKeeps
  <2>3. CASE Initialize
    BY <2>3, InitializeKeeps
  <2>4. CASE \E found, readable : ReadPlugins(found, readable)
    BY <2>4, ReadPluginsKeeps
  <2>5. CASE BuildModules
    BY <2>5, BuildModulesKeeps DEF FilesRead
  <2>6. CASE Link
    BY <2>6, LinkKeeps
  <2>7. CASE Register
    BY <2>7, RegisterKeeps
  <2>8. CASE Finish
    BY <2>8, FinishKeeps
  <2>9. CASE Restart
    BY <2>9, RestartKeeps
  <2>10. QED
    BY <2>1, <2>2, <2>3, <2>4, <2>5, <2>6, <2>7, <2>8, <2>9, LinkerSteps
<1>3. QED
  BY <1>1, <1>2 DEF LinkerInv

(* The invariant of the start holds in every state of a process. *)
THEOREM LinkerInvariant == Spec => []LinkerInv
<1>1. Init => LinkerInv
  BY LinkerInvInit
<1>2. LinkerInv /\ [Next]_vars => LinkerInv'
  BY LinkerInvNext
<1>3. QED
  BY <1>1, <1>2, PTL DEF Spec

(* A start links everything or nothing: LinkedAllOrNothing, whatever the   *)
(* files say, whatever the modules contribute, and after any sequence of   *)
(* attempts, of crashes and of restarts.                                   *)
THEOREM StartsAllOrNothing == Spec => []LinkedAllOrNothing
<1>1. LinkerInv => LinkedAllOrNothing
  <2> SUFFICES ASSUME LinkerInv, boot.pc = "idle"
               PROVE  LinkedAllOrNothing
    BY DEF LinkedAllOrNothing
  <2>1. boot.answer # "assertion"
        /\ (boot.answer \in {"ready", "rejected"} => ((boot.answer = "ready") <=> WellFormed(boot.modules)))
    BY DEF LinkerInv, AttemptInv
  <2>2. CASE state = "pending"
    BY <2>1, <2>2 DEF LinkerInv, AttemptInv, LinkedAllOrNothing
  <2>3. CASE state # "pending"
    <3>1. state = "ready"
      BY <2>3 DEF LinkerInv, AttemptShape
    <3>2. QED
      BY <2>1, <2>3, <3>1 DEF LinkerInv, AttemptInv, LinkedAllOrNothing
  <2>4. QED
    BY <2>2, <2>3
<1>2. QED
  BY <1>1, LinkerInvariant, PTL

-----------------------------------------------------------------------------
(* What is written in apps.php is what the parser keeps: the definitions   *)
(* below read the tokens r alone, Writes says how the parser p stands to   *)
(* them after each one.                                                    *)

Opening == {"[", "("}
Closing == {"]", ")"}
KeyTokens == Texts \cup Numbers \cup {AutoKey}
TextOf(a) == [kind |-> "text", value |-> a]
NumberOf(r, kinds, k) == Cardinality({i \in 1..k : r[i].kind \in kinds})
DepthAt(r, k) == NumberOf(r, Opening, k) - NumberOf(r, Closing, k)

(* Where the outermost array has an entry for a, and the last such place.  *)
KeyPlaces(r, a) ==
    {k \in 1..(Len(r) - 1) : r[k] = TextOf(a) /\ r[k + 1] = Mark("=>") /\ DepthAt(r, k) = 1}
LastPlace(r, a, k) == k \in KeyPlaces(r, a) /\ \A l \in KeyPlaces(r, a) : l <= k

(* What is written after the arrow: enough of it to know if it is true to  *)
(* PHP, and that it is.                                                    *)
Uttered(r, k) ==
    /\ k + 2 <= Len(r)
    /\ r[k + 2].kind = "[" => k + 3 <= Len(r)
    /\ r[k + 2].kind = "array" => k + 4 <= Len(r)
Yes(r, k) ==
    \/ r[k + 2].kind = "true"
    \/ r[k + 2].kind = "text" /\ r[k + 2].value \notin {"", "0"}
    \/ r[k + 2].kind \in {"int", "float"} /\ r[k + 2].value # "0"
    \/ r[k + 2].kind = "[" /\ r[k + 3].kind # "]"
    \/ r[k + 2].kind = "array" /\ r[k + 4].kind # ")"
Means(v, r, k) == Uttered(r, k) /\ (Truthy(v) <=> Yes(r, k))

(* The last entry for a is as the last place says, or there is neither.    *)
LastEntry(es, a, i) ==
    /\ i \in 1..Len(es) /\ es[i].key = TextOf(a)
    /\ \A j \in 1..Len(es) : j > i => es[j].key # TextOf(a)
Told(es, r, a) ==
    \/ KeyPlaces(r, a) = {} /\ \A i \in 1..Len(es) : es[i].key # TextOf(a)
    \/ \E i \in 1..Len(es), k \in KeyPlaces(r, a) :
          LastEntry(es, a, i) /\ LastPlace(r, a, k) /\ Means(es[i].value, r, k)

(* While the value of the last place is read: the entry is still to come.  *)
Opens(r, k, o, closing) ==
    \/ o = k + 2 /\ r[o] = Mark("[") /\ closing = "]"
    \/ o = k + 3 /\ r[k + 2] = Mark("array") /\ closing = ")"
Fresh(p) == p.mode = "begun" /\ Len(p.stack) = 2
Coming(p, r, k) ==
    LET s == p.stack
    IN  IF Len(s) = 1
        THEN \/ p.mode = "keyed" /\ Len(r) = k + 1
             \/ p.mode = "array" /\ Len(r) = k + 2 /\ r[k + 2] = Mark("array")
             \/ p.mode = "second" /\ Means(s[1].first, r, k)
        ELSE \E o \in {k + 2, k + 3} :
                /\ Opens(r, k, o, s[2].closing)
                /\ IF Fresh(p) THEN Len(r) = o ELSE Len(r) > o /\ r[o + 1].kind # s[2].closing

(* What the frames of the stack are, in each mode of the parser.           *)
GoodKeys(es) == \A i \in 1..Len(es) : es[i].key \in KeyTokens
GoodFrame(f) == f.closing \in Closing /\ f.key \in KeyTokens /\ GoodKeys(f.entries)
InMode(p, r) ==
    /\ p.mode \in {"start", "opened", "returned", "value", "semicolon", "done"} => p.stack = <<>>
    /\ p.mode \in {"begun", "first", "keyed", "second", "comma"} => p.stack # <<>>
    /\ p.mode \in {"begun", "first", "comma"} => Innermost(p).key = AutoKey
    /\ p.mode = "begun" => Innermost(p).entries = <<>>
    /\ p.mode = "comma" => Innermost(p).entries # <<>>
    /\ p.mode = "first" =>
          /\ r # <<>>
          /\ LET f == Innermost(p).first
             IN  f = Last(r) \/ (f.kind = "array" /\ Last(r).kind \in Closing)
(* What the parser keeps of the outermost array says what is written.      *)
WrittenOut(p, r) ==
    IF p.stack # <<>>
    THEN \A a \in Text : IF p.stack[1].key = TextOf(a)
                         THEN \E k : k \in 1..Len(r) /\ LastPlace(r, a, k) /\ Coming(p, r, k)
                         ELSE Told(p.stack[1].entries, r, a)
    ELSE IF p.mode \in {"value", "semicolon", "done"}
    THEN \/ p.value \in Scalars
         \/ /\ p.value = Array(p.value.entries)
            /\ GoodKeys(p.value.entries)
            /\ \A a \in Text : Told(p.value.entries, r, a)
    ELSE \A a \in Text : Told(<<>>, r, a)
Writes(p, r) ==
    p.mode # "refused" =>
        /\ DepthAt(r, Len(r)) = Len(p.stack)
        /\ \A i \in 1..Len(p.stack) : GoodFrame(p.stack[i])
        /\ InMode(p, r)
        /\ WrittenOut(p, r)

LEMMA NumberOfNothing ==
    ASSUME NEW r, NEW kinds
    PROVE  NumberOf(r, kinds, 0) = 0
<1>1. {i \in 1..0 : r[i].kind \in kinds} = {}
  OBVIOUS
<1>2. QED
  BY <1>1, FS_EmptySet DEF NumberOf

LEMMA NumberOfNext ==
    ASSUME NEW r, Sequential(r), NEW t, NEW kinds, NEW k \in 1..(Len(r) + 1)
    PROVE  LET s == Append(r, t)
               n == NumberOf(s, kinds, k)
           IN  /\ n \in Nat
               /\ k <= Len(r) => n = NumberOf(r, kinds, k)
               /\ k = Len(r) + 1 => n = IF t.kind \in kinds THEN NumberOf(r, kinds, Len(r)) + 1
                                        ELSE NumberOf(r, kinds, Len(r))
<1>1. PICK s : s = Append(r, t)
  OBVIOUS
<1>2. /\ Len(r) \in Nat /\ s[Len(r) + 1] = t
      /\ \A i \in 1..Len(r) : s[i] = r[i]
  BY <1>1, SequentialAppend DEF Sequential
<1> DEFINE S(j) == {i \in 1..j : s[i].kind \in kinds}
           R(j) == {i \in 1..j : r[i].kind \in kinds}
<1>3. ASSUME NEW j \in 0..(Len(r) + 1)
      PROVE  IsFiniteSet(S(j)) /\ Cardinality(S(j)) \in Nat
  <2>1. S(j) \in SUBSET (1..j) /\ IsFiniteSet(1..j)
    BY FS_Interval
  <2> HIDE DEF S
  <2>2. QED
    BY <2>1, FS_Subset, FS_CardinalityType
<1>4. ASSUME NEW j \in 0..Len(r)
      PROVE  S(j) = R(j)
  <2>1. \A i \in 1..j : i \in 1..Len(r)
    BY <1>2
  <2>2. \A i \in 1..j : s[i] = r[i]
    BY <1>2, <2>1
  <2>3. QED
    BY <2>2
<1>5. S(Len(r) + 1) = IF t.kind \in kinds THEN S(Len(r)) \cup {Len(r) + 1} ELSE S(Len(r))
  <2>1. \A i : i \in 1..(Len(r) + 1) <=> (i \in 1..Len(r) \/ i = Len(r) + 1)
    BY <1>2
  <2>2. \A i : i \in S(Len(r) + 1) <=> (i \in S(Len(r)) \/ (i = Len(r) + 1 /\ t.kind \in kinds))
    BY <1>2, <2>1
  <2> HIDE DEF S
  <2>3. QED
    BY <2>2
<1>6. Len(r) + 1 \notin S(Len(r))
  BY <1>2
<1> HIDE DEF S, R
<1>7. Cardinality(S(Len(r) + 1)) = IF t.kind \in kinds THEN Cardinality(S(Len(r))) + 1 ELSE Cardinality(S(Len(r)))
  <2>1. IsFiniteSet(S(Len(r)))
    BY <1>2, <1>3
  <2>2. Cardinality(S(Len(r)) \cup {Len(r) + 1}) = Cardinality(S(Len(r))) + 1
    BY <1>6, <2>1, FS_AddElement
  <2>3. QED
    BY <1>5, <2>2
<1>8. \A j : NumberOf(s, kinds, j) = Cardinality(S(j)) /\ NumberOf(r, kinds, j) = Cardinality(R(j))
  BY DEF NumberOf, S, R
<1>9. k \in 0..(Len(r) + 1) /\ (k <= Len(r) => k \in 0..Len(r)) /\ Len(r) \in 0..Len(r)
  BY <1>2
<1>10. NumberOf(s, kinds, k) \in Nat
  BY <1>3, <1>8, <1>9
<1>11. k <= Len(r) => NumberOf(s, kinds, k) = NumberOf(r, kinds, k)
  BY <1>4, <1>8, <1>9
<1>12. NumberOf(s, kinds, Len(r)) = NumberOf(r, kinds, Len(r))
  BY <1>4, <1>8, <1>9
<1>13. k = Len(r) + 1 => NumberOf(s, kinds, k) = IF t.kind \in kinds THEN NumberOf(r, kinds, Len(r)) + 1
                                                ELSE NumberOf(r, kinds, Len(r))
  BY <1>7, <1>8, <1>12
<1>14. QED
  BY <1>1, <1>10, <1>11, <1>13

LEMMA DepthNext ==
    ASSUME NEW r, Sequential(r), NEW t, NEW k \in 1..(Len(r) + 1)
    PROVE  LET s == Append(r, t)
           IN  /\ k <= Len(r) => DepthAt(s, k) = DepthAt(r, k)
               /\ k = Len(r) + 1 /\ t.kind \in Opening => DepthAt(s, k) = DepthAt(r, Len(r)) + 1
               /\ k = Len(r) + 1 /\ t.kind \in Closing => DepthAt(s, k) = DepthAt(r, Len(r)) - 1
               /\ k = Len(r) + 1 /\ t.kind \notin Opening \cup Closing => DepthAt(s, k) = DepthAt(r, Len(r))
<1>1. PICK s : s = Append(r, t)
  OBVIOUS
<1>2. Opening \cap Closing = {}
  BY DEF Opening, Closing
<1>3. ASSUME NEW kinds
      PROVE  /\ NumberOf(r, kinds, Len(r)) \in Nat
             /\ k <= Len(r) => NumberOf(s, kinds, k) = NumberOf(r, kinds, k)
             /\ k = Len(r) + 1 => NumberOf(s, kinds, k) = IF t.kind \in kinds THEN NumberOf(r, kinds, Len(r)) + 1
                                                          ELSE NumberOf(r, kinds, Len(r))
  <2>1. NumberOf(r, kinds, Len(r)) \in Nat
    <3>1. CASE Len(r) = 0
      BY <3>1, NumberOfNothing
    <3>2. CASE Len(r) # 0
      <4>1. Len(r) \in 1..(Len(r) + 1) /\ Len(r) <= Len(r)
        BY <3>2 DEF Sequential
      <4>2. NumberOf(s, kinds, Len(r)) \in Nat /\ NumberOf(s, kinds, Len(r)) = NumberOf(r, kinds, Len(r))
        BY <1>1, <4>1, NumberOfNext
      <4>3. QED
        BY <4>2
    <3>3. QED
      BY <3>1, <3>2
  <2>2. QED
    BY <1>1, <2>1, NumberOfNext
<1>4. /\ k <= Len(r) => DepthAt(s, k) = DepthAt(r, k)
      /\ k = Len(r) + 1 /\ t.kind \in Opening => DepthAt(s, k) = DepthAt(r, Len(r)) + 1
      /\ k = Len(r) + 1 /\ t.kind \in Closing => DepthAt(s, k) = DepthAt(r, Len(r)) - 1
      /\ k = Len(r) + 1 /\ t.kind \notin Opening \cup Closing => DepthAt(s, k) = DepthAt(r, Len(r))
  <2> HIDE DEF Opening, Closing
  <2>1. PICK o, c, o2, c2, o3, c3 :
            /\ o = NumberOf(r, Opening, Len(r)) /\ c = NumberOf(r, Closing, Len(r))
            /\ o2 = NumberOf(s, Opening, k) /\ c2 = NumberOf(s, Closing, k)
            /\ o3 = NumberOf(r, Opening, k) /\ c3 = NumberOf(r, Closing, k)
    OBVIOUS
  <2>2. /\ o \in Nat /\ c \in Nat /\ (k <= Len(r) => o2 = o3 /\ c2 = c3)
        /\ k = Len(r) + 1 => /\ o2 = IF t.kind \in Opening THEN o + 1 ELSE o
                             /\ c2 = IF t.kind \in Closing THEN c + 1 ELSE c
    BY <1>3, <2>1
  <2>3. DepthAt(s, k) = o2 - c2 /\ DepthAt(r, k) = o3 - c3 /\ DepthAt(r, Len(r)) = o - c
    BY <2>1 DEF DepthAt
  <2>4. t.kind \in Opening => t.kind \notin Closing
    BY <1>2
  <2>5. QED
    BY <2>2, <2>3, <2>4
<1>5. QED
  BY <1>1, <1>4

LEMMA PlacesNext ==
    ASSUME NEW r, Sequential(r), NEW t, NEW a
    PROVE  KeyPlaces(Append(r, t), a) =
               KeyPlaces(r, a) \cup (IF /\ Len(r) > 0 /\ r[Len(r)] = TextOf(a) /\ t = Mark("=>")
                                        /\ DepthAt(r, Len(r)) = 1
                                     THEN {Len(r)} ELSE {})
<1>1. PICK s : s = Append(r, t)
  OBVIOUS
<1>2. /\ Len(r) \in Nat /\ Len(s) = Len(r) + 1 /\ s[Len(r) + 1] = t
      /\ \A i \in 1..Len(r) : s[i] = r[i]
  BY <1>1, SequentialAppend DEF Sequential
<1>3. \A k \in 1..Len(r) : DepthAt(s, k) = DepthAt(r, k)
  <2> SUFFICES ASSUME NEW k \in 1..Len(r)
               PROVE  DepthAt(s, k) = DepthAt(r, k)
    OBVIOUS
  <2>1. k \in 1..(Len(r) + 1) /\ k <= Len(r)
    BY <1>2
  <2>2. QED
    BY <1>1, <2>1, DepthNext
<1>4. ASSUME NEW k
      PROVE  k \in KeyPlaces(s, a) <=>
                 \/ k \in KeyPlaces(r, a)
                 \/ /\ k = Len(r) /\ Len(r) > 0 /\ r[Len(r)] = TextOf(a) /\ t = Mark("=>")
                    /\ DepthAt(r, Len(r)) = 1
  <2>1. k \in 1..(Len(s) - 1) <=> k \in 1..(Len(r) - 1) \/ (k = Len(r) /\ Len(r) > 0)
    BY <1>2
  <2>2. CASE k \in 1..(Len(r) - 1)
    <3>1. k \in 1..Len(r) /\ k + 1 \in 1..Len(r) /\ k # Len(r)
      BY <1>2, <2>2
    <3>2. s[k] = r[k] /\ s[k + 1] = r[k + 1] /\ DepthAt(s, k) = DepthAt(r, k)
      BY <1>2, <1>3, <3>1
    <3>3. QED
      BY <2>1, <2>2, <3>1, <3>2 DEF KeyPlaces
  <2>3. CASE k = Len(r) /\ Len(r) > 0
    <3>1. k \in 1..Len(r) /\ k \notin 1..(Len(r) - 1) /\ s[k + 1] = t
      BY <1>2, <2>3
    <3>2. s[k] = r[k] /\ DepthAt(s, k) = DepthAt(r, k)
      BY <1>2, <1>3, <3>1
    <3>3. QED
      BY <2>1, <2>3, <3>1, <3>2 DEF KeyPlaces
  <2>4. CASE k \notin 1..(Len(r) - 1) /\ ~(k = Len(r) /\ Len(r) > 0)
    BY <2>1, <2>4 DEF KeyPlaces
  <2>5. QED
    BY <2>2, <2>3, <2>4
<1>5. QED
  BY <1>1, <1>4

(* A key is read at a place of the outermost array, and there only. *)
LEMMA SamePlaces ==
    ASSUME NEW r, Sequential(r), NEW t, NEW a,
           \/ t # Mark("=>") \/ DepthAt(r, Len(r)) # 1 \/ r[Len(r)] # TextOf(a)
    PROVE  /\ KeyPlaces(Append(r, t), a) = KeyPlaces(r, a)
           /\ \A k : LastPlace(Append(r, t), a, k) <=> LastPlace(r, a, k)
<1>1. ~(Len(r) > 0 /\ r[Len(r)] = TextOf(a) /\ t = Mark("=>") /\ DepthAt(r, Len(r)) = 1)
  OBVIOUS
<1>2. KeyPlaces(Append(r, t), a) = KeyPlaces(r, a) \cup {}
  BY <1>1, PlacesNext, Zenon
<1>3. QED
  BY <1>2 DEF LastPlace

LEMMA MeansOn ==
    ASSUME NEW r, Sequential(r), NEW t, NEW v, NEW k \in Nat, Means(v, r, k)
    PROVE  Means(v, Append(r, t), k)
<1>1. PICK s : s = Append(r, t)
  OBVIOUS
<1>2. /\ Len(r) \in Nat /\ Len(s) = Len(r) + 1
      /\ \A i \in 1..Len(r) : s[i] = r[i]
  BY <1>1, SequentialAppend DEF Sequential
<1>3. Uttered(r, k) /\ k + 2 \in 1..Len(r) /\ s[k + 2] = r[k + 2]
  BY <1>2 DEF Means, Uttered
<1>4. Uttered(s, k)
  BY <1>2, <1>3 DEF Uttered
<1>5. Yes(s, k) <=> Yes(r, k)
  <2>1. CASE r[k + 2].kind = "["
    <3>1. k + 3 \in 1..Len(r)
      BY <1>2, <1>3, <2>1 DEF Uttered
    <3>2. s[k + 3] = r[k + 3]
      BY <1>2, <3>1
    <3>3. QED
      BY <1>3, <2>1, <3>2 DEF Yes
  <2>2. CASE r[k + 2].kind = "array"
    <3>1. k + 4 \in 1..Len(r)
      BY <1>2, <1>3, <2>2 DEF Uttered
    <3>2. s[k + 4] = r[k + 4]
      BY <1>2, <3>1
    <3>3. QED
      BY <1>3, <2>2, <3>2 DEF Yes
  <2>3. CASE r[k + 2].kind \notin {"[", "array"}
    BY <1>3, <2>3 DEF Yes
  <2>4. QED
    BY <2>1, <2>2, <2>3
<1>6. QED
  BY <1>1, <1>4, <1>5 DEF Means

LEMMA ToldOn ==
    ASSUME NEW r, Sequential(r), NEW t, NEW a, NEW es, Told(es, r, a),
           \/ t # Mark("=>") \/ DepthAt(r, Len(r)) # 1 \/ r[Len(r)] # TextOf(a)
    PROVE  Told(es, Append(r, t), a)
<1>1. PICK s : s = Append(r, t)
  OBVIOUS
<1>2. KeyPlaces(s, a) = KeyPlaces(r, a) /\ \A k : LastPlace(s, a, k) <=> LastPlace(r, a, k)
  BY <1>1, SamePlaces
<1>3. CASE KeyPlaces(r, a) = {} /\ \A i \in 1..Len(es) : es[i].key # TextOf(a)
  BY <1>1, <1>2, <1>3 DEF Told
<1>4. CASE \E i \in 1..Len(es), k \in KeyPlaces(r, a) :
              LastEntry(es, a, i) /\ LastPlace(r, a, k) /\ Means(es[i].value, r, k)
  <2>1. PICK i \in 1..Len(es), k \in KeyPlaces(r, a) :
              LastEntry(es, a, i) /\ LastPlace(r, a, k) /\ Means(es[i].value, r, k)
    BY <1>4
  <2>2. k \in Nat
    BY DEF KeyPlaces
  <2>3. Means(es[i].value, s, k)
    BY <1>1, <2>1, <2>2, MeansOn
  <2>4. QED
    BY <1>1, <1>2, <2>1, <2>3 DEF Told
<1>5. QED
  BY <1>3, <1>4 DEF Told

-----------------------------------------------------------------------------
(* The value of a key, while it is read. *)

LEMMA OpensOn ==
    ASSUME NEW r, Sequential(r), NEW t, NEW k \in Nat, NEW o, NEW closing,
           Opens(r, k, o, closing), o <= Len(r)
    PROVE  /\ Opens(Append(r, t), k, o, closing)
           /\ o \in Nat /\ o <= Len(Append(r, t))
           /\ Append(r, t)[k + 2] = r[k + 2]
           /\ Len(r) = o => Append(r, t)[o + 1] = t /\ Len(Append(r, t)) = o + 1
           /\ Len(r) > o => Append(r, t)[o + 1] = r[o + 1] /\ Len(Append(r, t)) > o + 1
<1>1. PICK s : s = Append(r, t)
  OBVIOUS
<1>2. /\ Len(r) \in Nat /\ Len(s) = Len(r) + 1 /\ s[Len(r) + 1] = t
      /\ \A i \in 1..Len(r) : s[i] = r[i]
  BY <1>1, SequentialAppend DEF Sequential
<1>3. o \in 1..Len(r) /\ k + 2 \in 1..Len(r)
  BY <1>2 DEF Opens
<1>4. s[o] = r[o] /\ s[k + 2] = r[k + 2]
  BY <1>2, <1>3
<1>5. Opens(s, k, o, closing)
  BY <1>4 DEF Opens
<1>6. Len(r) > o => s[o + 1] = r[o + 1]
  <2>1. Len(r) > o => o + 1 \in 1..Len(r)
    BY <1>2, <1>3
  <2>2. QED
    BY <1>2, <2>1
<1>7. QED
  BY <1>1, <1>2, <1>3, <1>4, <1>5, <1>6

LEMMA ComingOn ==
    ASSUME NEW r, Sequential(r), NEW t, NEW k \in Nat, NEW p, NEW q,
           Len(p.stack) \in Nat \ {0, 1}, Len(q.stack) \in Nat \ {0, 1},
           q.stack[2].closing = p.stack[2].closing, p.stack[2].closing \in Closing,
           Fresh(p) => t.kind \notin Closing, ~Fresh(q),
           Coming(p, r, k)
    PROVE  Coming(q, Append(r, t), k)
<1>1. PICK c : c = p.stack[2].closing
  OBVIOUS
<1>2. PICK o \in {k + 2, k + 3} :
          /\ Opens(r, k, o, c)
          /\ IF Fresh(p) THEN Len(r) = o ELSE Len(r) > o /\ r[o + 1].kind # c
  BY <1>1 DEF Coming
<1>3. o <= Len(r) /\ Len(r) \in Nat
  BY <1>2 DEF Sequential
<1>4. PICK s : s = Append(r, t)
  OBVIOUS
<1>5. /\ Opens(s, k, o, c)
      /\ o \in Nat /\ Len(r) = o => s[o + 1] = t /\ Len(s) = o + 1
      /\ Len(r) > o => s[o + 1] = r[o + 1] /\ Len(s) > o + 1
  BY <1>2, <1>3, <1>4, OpensOn
<1>6. o \in Nat
  BY <1>2
<1>7. Len(s) > o /\ s[o + 1].kind # c
  <2>1. CASE Fresh(p)
    BY <1>1, <1>2, <1>5, <1>6, <2>1
  <2>2. CASE ~Fresh(p)
    <3>1. Len(r) > o /\ r[o + 1].kind # c
      BY <1>2, <2>2
    <3>2. Len(s) = Len(r) + 1
      BY <1>4, SequentialAppend
    <3>3. QED
      BY <1>3, <1>5, <1>6, <3>1, <3>2
  <2>3. QED
    BY <2>1, <2>2
<1>8. Coming(q, s, k)
  <2>1. Len(q.stack) # 1
    OBVIOUS
  <2>2. Opens(s, k, o, q.stack[2].closing) /\ s[o + 1].kind # q.stack[2].closing
    BY <1>1, <1>5, <1>7
  <2>3. QED
    BY <1>7, <2>1, <2>2 DEF Coming
<1>9. QED
  BY <1>4, <1>8

LEMMA ComingEnds ==
    ASSUME NEW r, Sequential(r), NEW t, NEW k \in Nat, NEW p, NEW v,
           Len(p.stack) = 2, t = Mark(p.stack[2].closing),
           v.kind = "array", v.entries = <<>> <=> Fresh(p),
           Coming(p, r, k)
    PROVE  Means(v, Append(r, t), k)
<1>1. PICK c : c = p.stack[2].closing
  OBVIOUS
<1>2. PICK o \in {k + 2, k + 3} :
          /\ Opens(r, k, o, c)
          /\ IF Fresh(p) THEN Len(r) = o ELSE Len(r) > o /\ r[o + 1].kind # c
  BY <1>1 DEF Coming
<1>3. o <= Len(r) /\ Len(r) \in Nat /\ o \in Nat
  BY <1>2 DEF Sequential
<1>4. PICK s : s = Append(r, t)
  OBVIOUS
<1>5. /\ Opens(s, k, o, c) /\ s[k + 2] = r[k + 2]
      /\ Len(r) = o => s[o + 1] = t /\ Len(s) = o + 1
      /\ Len(r) > o => s[o + 1] = r[o + 1] /\ Len(s) > o + 1
  BY <1>2, <1>3, <1>4, OpensOn
<1>6. Len(s) >= o + 1 /\ (s[o + 1].kind = c <=> Fresh(p))
  <2>1. t.kind = c
    BY <1>1 DEF Mark
  <2>2. QED
    BY <1>2, <1>3, <1>5, <2>1
<1>7. Truthy(v) <=> v.entries # <<>>
  BY DEF Truthy
<1>8. Uttered(s, k) /\ (Yes(s, k) <=> s[o + 1].kind # c)
  <2>1. CASE o = k + 2 /\ s[o] = Mark("[") /\ c = "]"
    <3>1. s[k + 2].kind = "[" /\ o + 1 = k + 3 /\ Len(s) \in Nat
      BY <1>3, <1>4, <2>1, SequentialAppend DEF Mark
    <3>2. Uttered(s, k)
      BY <1>3, <1>6, <2>1, <3>1 DEF Uttered
    <3>3. QED
      BY <2>1, <3>1, <3>2 DEF Yes
  <2>2. CASE o = k + 3 /\ s[k + 2] = Mark("array") /\ c = ")"
    <3>1. s[k + 2].kind = "array" /\ o + 1 = k + 4 /\ Len(s) \in Nat
      BY <1>3, <1>4, <2>2, SequentialAppend DEF Mark
    <3>2. Uttered(s, k)
      BY <1>3, <1>6, <2>2, <3>1 DEF Uttered
    <3>3. QED
      BY <2>2, <3>1, <3>2 DEF Yes
  <2>3. QED
    BY <1>5, <2>1, <2>2 DEF Opens
<1>9. QED
  BY <1>4, <1>6, <1>7, <1>8 DEF Means

(* A scalar means what it spells. *)
LEMMA ScalarMeans ==
    ASSUME NEW r, Sequential(r), NEW t \in Scalars, NEW k \in Nat, Len(r) = k + 1
    PROVE  Means(t, Append(r, t), k)
<1>1. PICK s : s = Append(r, t)
  OBVIOUS
<1>2. Len(s) = k + 2 /\ s[k + 2] = t
  BY <1>1, SequentialAppend
<1>3. t.kind \in {"text", "int", "float", "true", "false", "null"}
  BY DEF Scalars, Texts, Numbers, Floats, Mark
<1>4. Uttered(s, k)
  BY <1>2, <1>3 DEF Uttered
<1>5. Truthy(t) <=> Yes(s, k)
  <2>1. CASE t.kind \in {"null", "false"}
    BY <1>2, <2>1 DEF Truthy, Yes
  <2>2. CASE t.kind = "true"
    BY <1>2, <2>2 DEF Truthy, Yes
  <2>3. CASE t.kind = "text"
    BY <1>2, <2>3 DEF Truthy, Yes
  <2>4. CASE t.kind \in {"int", "float"}
    BY <1>2, <2>4 DEF Truthy, Yes
  <2>5. QED
    BY <1>3, <2>1, <2>2, <2>3, <2>4
<1>6. QED
  BY <1>1, <1>4, <1>5 DEF Means

-----------------------------------------------------------------------------
(* Stacks. *)

LEMMA TopReplaced ==
    ASSUME NEW s, Sequential(s), s # <<>>, NEW f
    PROVE  LET u == Append(Front(s), f)
           IN  /\ Sequential(u) /\ u # <<>>
               /\ Len(u) = Len(s) /\ u[Len(s)] = f /\ Last(u) = f
               /\ \A i \in 1..Len(s) : i < Len(s) => u[i] = s[i]
<1>1. PICK b : b = Front(s)
  OBVIOUS
<1>2. PICK u : u = Append(b, f)
  OBVIOUS
<1>3. /\ Sequential(b) /\ Len(b) = Len(s) - 1 /\ Len(s) \in Nat
      /\ \A i \in 1..(Len(s) - 1) : b[i] = s[i]
  BY <1>1, SequentialFront DEF Sequential
<1>4. /\ Sequential(u) /\ Len(u) = Len(b) + 1 /\ u[Len(b) + 1] = f /\ u # <<>>
      /\ \A i \in 1..Len(b) : u[i] = b[i]
  BY <1>2, <1>3, SequentialAppend
<1>5. Len(u) = Len(s) /\ u[Len(s)] = f
  BY <1>3, <1>4
<1>6. Last(u) = f
  BY <1>4, <1>5, SequentialFront
<1>7. \A i \in 1..Len(s) : i < Len(s) => u[i] = s[i]
  BY <1>3, <1>4
<1>8. QED
  BY <1>1, <1>2, <1>4, <1>5, <1>6, <1>7

LEMMA StackHeight ==
    ASSUME NEW s, Sequential(s)
    PROVE  /\ Len(s) \in Nat
           /\ s = <<>> <=> Len(s) = 0
           /\ s # <<>> => Len(s) \in 1..Len(s) /\ 1 \in 1..Len(s) /\ Last(s) = s[Len(s)]
<1>1. s \in Seq(Elements(s))
  BY SequentialIsSeq
<1>2. Len(s) \in Nat /\ (s = <<>> <=> Len(s) = 0)
  BY <1>1, EmptySeq
<1>3. QED
  BY <1>2, SequentialFront

LEMMA Replaces ==
    ASSUME NEW p, StackShape(p), p.stack # <<>>, NEW f
    PROVE  LET q == WithInnermost(p, f)
           IN  /\ DOMAIN q = DOMAIN p /\ Sequential(q.stack) /\ q.stack # <<>>
               /\ q.mode = p.mode /\ q.value = p.value /\ q.count = p.count
               /\ Len(q.stack) = Len(p.stack) /\ q.stack[Len(p.stack)] = f /\ Innermost(q) = f
               /\ \A i \in 1..Len(p.stack) : i < Len(p.stack) => q.stack[i] = p.stack[i]
<1>1. PICK u : u = Append(Front(p.stack), f)
  OBVIOUS
<1>2. /\ Sequential(u) /\ u # <<>>
      /\ Len(u) = Len(p.stack) /\ u[Len(p.stack)] = f /\ Last(u) = f
      /\ \A i \in 1..Len(p.stack) : i < Len(p.stack) => u[i] = p.stack[i]
  BY <1>1, TopReplaced DEF StackShape
<1>3. PICK q : q = WithInnermost(p, f)
  OBVIOUS
<1>4. /\ DOMAIN q = DOMAIN p /\ q.stack = u
      /\ q.mode = p.mode /\ q.value = p.value /\ q.count = p.count
  BY <1>1, <1>3 DEF WithInnermost, StackShape
<1>5. QED
  BY <1>2, <1>3, <1>4 DEF Innermost

(* What Completed, Begun, Kept and Keyed come to. *)
Becomes(q, p, mode, f) ==
    /\ q.mode = mode
    /\ Sequential(q.stack) /\ q.stack # <<>>
    /\ Len(q.stack) = Len(p.stack) /\ q.stack[Len(p.stack)] = f /\ Innermost(q) = f
    /\ \A i \in 1..Len(p.stack) : i < Len(p.stack) => q.stack[i] = p.stack[i]

LEMMA CompletedIs ==
    ASSUME NEW p, StackShape(p), NEW v
    PROVE  LET q == Completed(p, v)
               f == [Innermost(p) EXCEPT !.first = v]
           IN  /\ p.stack = <<>> => q.mode = "value" /\ q.value = v /\ q.stack = <<>>
               /\ p.stack # <<>> =>
                     /\ Innermost(p).key = AutoKey => Becomes(q, p, "first", f)
                     /\ Innermost(p).key # AutoKey => Becomes(q, p, "second", f)
<1>1. PICK f : f = [Innermost(p) EXCEPT !.first = v]
  OBVIOUS
<1>2. PICK q : q = Completed(p, v)
  OBVIOUS
<1>3. CASE p.stack = <<>>
  <2>1. q = [p EXCEPT !.mode = "value", !.value = v]
    BY <1>2, <1>3 DEF Completed
  <2>2. q.mode = "value" /\ q.value = v /\ q.stack = <<>>
    BY <1>3, <2>1 DEF StackShape
  <2>3. QED
    BY <1>2, <1>3, <2>2
<1>4. CASE p.stack # <<>>
  <2>1. PICK w : w = WithInnermost(p, f)
    OBVIOUS
  <2>2. Becomes(w, p, p.mode, f) /\ DOMAIN w = DOMAIN p
    BY <1>4, <2>1, Replaces DEF Becomes
  <2>3. ASSUME NEW m, q = [w EXCEPT !.mode = m]
        PROVE  Becomes(q, p, m, f)
    <3>1. q.mode = m /\ q.stack = w.stack
      BY <2>2, <2>3 DEF StackShape
    <3>2. QED
      BY <2>2, <3>1 DEF Becomes, Innermost
  <2>4. Innermost(p).key = AutoKey => Becomes(q, p, "first", f)
    <3>1. Innermost(p).key = AutoKey => q = [w EXCEPT !.mode = "first"]
      BY <1>1, <1>2, <1>4, <2>1 DEF Completed
    <3>2. QED
      BY <2>3, <3>1
  <2>5. Innermost(p).key # AutoKey => Becomes(q, p, "second", f)
    <3>1. Innermost(p).key # AutoKey => q = [w EXCEPT !.mode = "second"]
      BY <1>1, <1>2, <1>4, <2>1 DEF Completed
    <3>2. QED
      BY <2>3, <3>1
  <2>6. QED
    BY <1>1, <1>2, <1>4, <2>4, <2>5
<1>5. QED
  BY <1>3, <1>4

LEMMA KeptIs ==
    ASSUME NEW p, StackShape(p), p.stack # <<>>
    PROVE  LET f == Innermost(p)
               g == [Frame(f.closing) EXCEPT !.entries = Append(f.entries, Entry(f.key, f.first))]
           IN  Kept(p) = Refused(p) \/ (Becomes(Kept(p), p, "kept", g) /\ DOMAIN Kept(p) = DOMAIN p)
<1>1. PICK f : f = Innermost(p)
  OBVIOUS
<1>2. PICK g : g = [Frame(f.closing) EXCEPT !.entries = Append(f.entries, Entry(f.key, f.first))]
  OBVIOUS
<1>3. PICK w : w = WithInnermost(p, g)
  OBVIOUS
<1>4. PICK q : q = [w EXCEPT !.count = @ + 1, !.mode = "kept"]
  OBVIOUS
<1>5. Becomes(w, p, p.mode, g) /\ DOMAIN w = DOMAIN p
  BY <1>3, Replaces DEF Becomes
<1>6. DOMAIN q = DOMAIN p /\ q.mode = "kept" /\ q.stack = w.stack
  BY <1>4, <1>5 DEF StackShape
<1>7. Becomes(q, p, "kept", g)
  BY <1>5, <1>6 DEF Becomes, Innermost
<1>8. Kept(p) = Refused(p) \/ Kept(p) = q
  BY <1>1, <1>2, <1>3, <1>4 DEF Kept
<1>9. QED
  BY <1>1, <1>2, <1>6, <1>7, <1>8

LEMMA KeyedIs ==
    ASSUME NEW p, StackShape(p), p.stack # <<>>
    PROVE  LET f == Innermost(p)
           IN  \/ Keyed(p) = Refused(p)
               \/ /\ f.first.kind \in {"text", "int"}
                  /\ Becomes(Keyed(p), p, "keyed", [f EXCEPT !.key = f.first])
<1>1. PICK f : f = Innermost(p)
  OBVIOUS
<1>2. PICK g : g = [f EXCEPT !.key = f.first]
  OBVIOUS
<1>3. PICK w : w = WithInnermost(p, g)
  OBVIOUS
<1>4. PICK q : q = [w EXCEPT !.mode = "keyed"]
  OBVIOUS
<1>5. Becomes(w, p, p.mode, g) /\ DOMAIN w = DOMAIN p
  BY <1>3, Replaces DEF Becomes
<1>6. q.mode = "keyed" /\ q.stack = w.stack
  BY <1>4, <1>5 DEF StackShape
<1>7. Becomes(q, p, "keyed", g)
  BY <1>5, <1>6 DEF Becomes, Innermost
<1>8. Keyed(p) = Refused(p) \/ (f.first.kind \in {"text", "int"} /\ Keyed(p) = q)
  BY <1>1, <1>2, <1>3, <1>4 DEF Keyed
<1>9. QED
  BY <1>1, <1>2, <1>7, <1>8

LEMMA BegunIs ==
    ASSUME NEW p, StackShape(p), NEW closing
    PROVE  LET q == Begun(p, closing)
           IN  \/ q = Refused(p)
               \/ /\ q.mode = "begun" /\ Sequential(q.stack) /\ q.stack # <<>>
                  /\ Len(q.stack) = Len(p.stack) + 1
                  /\ q.stack[Len(q.stack)] = Frame(closing) /\ Innermost(q) = Frame(closing)
                  /\ \A i \in 1..Len(p.stack) : q.stack[i] = p.stack[i]
<1>1. PICK u : u = Append(p.stack, Frame(closing))
  OBVIOUS
<1>2. PICK g : g = Frame(closing)
  OBVIOUS
<1>3. /\ Sequential(u) /\ u # <<>> /\ Len(u) = Len(p.stack) + 1 /\ u[Len(u)] = g
      /\ \A i \in 1..Len(p.stack) : u[i] = p.stack[i]
  BY <1>1, <1>2, SequentialAppend DEF StackShape
<1>4. Last(u) = g
  BY <1>3, SequentialFront
<1>5. PICK q : q = [p EXCEPT !.mode = "begun", !.stack = u]
  OBVIOUS
<1>6. q.mode = "begun" /\ q.stack = u
  BY <1>5 DEF StackShape
<1>7. Begun(p, closing) = Refused(p) \/ Begun(p, closing) = q
  BY <1>1, <1>5 DEF Begun
<1>8. QED
  BY <1>2, <1>3, <1>4, <1>6, <1>7 DEF Innermost

-----------------------------------------------------------------------------
(* A token at a time. *)

Follows(p, r) ==
    /\ ParserShape(p) /\ p.mode # "refused"
    /\ Sequential(r)
    /\ \A i \in 1..Len(r) : r[i] \in AllTokens
    /\ Writes(p, r)

(* What is read within an array in the outermost one leaves that alone.    *)
LEMMA DeepStays ==
    ASSUME NEW p, NEW r, Follows(p, r), NEW t, NEW q,
           Len(p.stack) > 1, Sequential(q.stack), Len(q.stack) > 1,
           q.stack[1] = p.stack[1], q.stack[2].closing = p.stack[2].closing,
           ~Fresh(q), Fresh(p) => t.kind \notin Closing
    PROVE  WrittenOut(q, Append(r, t))
<1>1. /\ Sequential(r) /\ DepthAt(r, Len(r)) = Len(p.stack) /\ WrittenOut(p, r)
      /\ Sequential(p.stack) /\ \A i \in 1..Len(p.stack) : GoodFrame(p.stack[i])
  BY DEF Follows, Writes, ParserShape, StackShape
<1>2. /\ Len(p.stack) \in Nat \ {0, 1} /\ Len(q.stack) \in Nat \ {0, 1}
      /\ p.stack # <<>> /\ q.stack # <<>>
  <2>1. Len(p.stack) \in Nat /\ Len(q.stack) \in Nat
    BY <1>1, StackHeight
  <2>2. QED
    BY <1>1, <2>1, StackHeight
<1>3. p.stack[2].closing \in Closing
  <2>1. 2 \in 1..Len(p.stack)
    BY <1>2
  <2>2. QED
    BY <1>1, <2>1 DEF GoodFrame
<1>4. DepthAt(r, Len(r)) # 1
  BY <1>1, <1>2
<1>5. PICK s : s = Append(r, t)
  OBVIOUS
<1>6. ASSUME NEW a \in Text
      PROVE  IF q.stack[1].key = TextOf(a)
             THEN \E k : k \in 1..Len(s) /\ LastPlace(s, a, k) /\ Coming(q, s, k)
             ELSE Told(q.stack[1].entries, s, a)
  <2>1. CASE q.stack[1].key = TextOf(a)
    <3>1. PICK k : k \in 1..Len(r) /\ LastPlace(r, a, k) /\ Coming(p, r, k)
      BY <1>1, <1>2, <2>1 DEF WrittenOut
    <3>2. LastPlace(s, a, k)
      BY <1>1, <1>4, <1>5, <3>1, SamePlaces
    <3>3. Coming(q, s, k)
      <4>1. k \in Nat
        BY <3>1
      <4>2. Coming(q, Append(r, t), k)
        BY <1>1, <1>2, <1>3, <3>1, <4>1, ComingOn
      <4>3. QED
        BY <1>5, <4>2
    <3>4. k \in 1..Len(s)
      BY <1>1, <1>5, <3>1, SequentialAppend DEF Sequential
    <3>5. QED
      BY <2>1, <3>2, <3>3, <3>4
  <2>2. CASE q.stack[1].key # TextOf(a)
    <3>1. Told(p.stack[1].entries, r, a)
      BY <1>1, <1>2, <2>2 DEF WrittenOut
    <3>2. Told(p.stack[1].entries, s, a)
      BY <1>1, <1>4, <1>5, <3>1, ToldOn
    <3>3. QED
      BY <2>2, <3>2
  <2>3. QED
    BY <2>1, <2>2
<1>7. QED
  BY <1>2, <1>5, <1>6 DEF WrittenOut

(* The depth follows the brackets. *)
LEMMA DepthFollows ==
    ASSUME NEW p, NEW r, Follows(p, r), NEW t
    PROVE  LET s == Append(r, t)
           IN  /\ Sequential(s) /\ Len(s) = Len(r) + 1 /\ Last(s) = t /\ s # <<>>
               /\ t \in AllTokens => \A i \in 1..Len(s) : s[i] \in AllTokens
               /\ t.kind \in Opening => DepthAt(s, Len(s)) = Len(p.stack) + 1
               /\ t.kind \in Closing => DepthAt(s, Len(s)) = Len(p.stack) - 1
               /\ t.kind \notin Opening \cup Closing => DepthAt(s, Len(s)) = Len(p.stack)
<1>1. PICK s : s = Append(r, t)
  OBVIOUS
<1>2. /\ Sequential(r) /\ Len(r) \in Nat /\ DepthAt(r, Len(r)) = Len(p.stack)
      /\ \A i \in 1..Len(r) : r[i] \in AllTokens
  BY DEF Follows, Writes, Sequential
<1>3. /\ Sequential(s) /\ Len(s) = Len(r) + 1 /\ s[Len(r) + 1] = t /\ s # <<>>
      /\ \A i \in 1..Len(r) : s[i] = r[i]
  BY <1>1, <1>2, SequentialAppend
<1>4. Last(s) = t
  BY <1>3, SequentialFront
<1>5. t \in AllTokens => \A i \in 1..Len(s) : s[i] \in AllTokens
  <2>1. \A i \in 1..Len(s) : i \in 1..Len(r) \/ i = Len(r) + 1
    BY <1>2, <1>3
  <2>2. QED
    BY <1>2, <1>3, <2>1
<1>6. Len(s) \in 1..(Len(r) + 1)
  BY <1>2, <1>3
<1>7. /\ t.kind \in Opening => DepthAt(s, Len(s)) = Len(p.stack) + 1
      /\ t.kind \in Closing => DepthAt(s, Len(s)) = Len(p.stack) - 1
      /\ t.kind \notin Opening \cup Closing => DepthAt(s, Len(s)) = Len(p.stack)
  BY <1>1, <1>2, <1>3, <1>6, DepthNext
<1>8. QED
  BY <1>1, <1>3, <1>4, <1>5, <1>7

(* While nothing of the array is read yet, and when all of it is. *)
LEMMA OutsideStays ==
    ASSUME NEW p, NEW r, Follows(p, r), p.stack = <<>>, NEW t, t # Mark("=>"),
           NEW q, q.stack = <<>>
    PROVE  /\ p.mode \notin {"value", "semicolon", "done"} /\ q.mode \notin {"value", "semicolon", "done"} =>
                 WrittenOut(q, Append(r, t))
           /\ p.mode \in {"value", "semicolon", "done"} /\ q.mode \in {"value", "semicolon", "done"}
              /\ q.value = p.value => WrittenOut(q, Append(r, t))
           /\ p.mode \notin {"value", "semicolon", "done"} => \A a \in Text : Told(<<>>, Append(r, t), a)
<1>1. Sequential(r) /\ WrittenOut(p, r)
  BY DEF Follows, Writes
<1>2. ASSUME p.mode \notin {"value", "semicolon", "done"}
      PROVE  \A a \in Text : Told(<<>>, Append(r, t), a)
  BY <1>1, <1>2, ToldOn DEF WrittenOut
<1>3. ASSUME p.mode \in {"value", "semicolon", "done"}, q.mode \in {"value", "semicolon", "done"}, q.value = p.value
      PROVE  WrittenOut(q, Append(r, t))
  <2>1. CASE p.value \in Scalars
    BY <1>3, <2>1 DEF WrittenOut
  <2>2. CASE p.value \notin Scalars
    <3>1. /\ p.value = Array(p.value.entries) /\ GoodKeys(p.value.entries)
          /\ \A a \in Text : Told(p.value.entries, r, a)
      BY <1>1, <1>3, <2>2 DEF WrittenOut
    <3>2. \A a \in Text : Told(p.value.entries, Append(r, t), a)
      BY <1>1, <3>1, ToldOn
    <3>3. QED
      BY <1>3, <3>1, <3>2 DEF WrittenOut
  <2>3. QED
    BY <2>1, <2>2
<1>4. QED
  BY <1>2, <1>3 DEF WrittenOut

LEMMA FramesStayGood ==
    ASSUME NEW p, NEW r, Follows(p, r), NEW q, NEW mode, NEW f, GoodFrame(f), Becomes(q, p, mode, f)
    PROVE  \A i \in 1..Len(q.stack) : GoodFrame(q.stack[i])
<1>1. Len(p.stack) \in Nat /\ \A i \in 1..Len(p.stack) : GoodFrame(p.stack[i])
  BY StackHeight DEF Follows, Writes, ParserShape, StackShape
<1>2. /\ Len(q.stack) = Len(p.stack) /\ q.stack[Len(p.stack)] = f
      /\ \A i \in 1..Len(p.stack) : i < Len(p.stack) => q.stack[i] = p.stack[i]
  BY DEF Becomes
<1>3. \A i \in 1..Len(p.stack) : i < Len(p.stack) \/ i = Len(p.stack)
  BY <1>1
<1>4. QED
  BY <1>1, <1>2, <1>3

LEMMA OuterStays ==
    ASSUME NEW p, NEW q, NEW mode, NEW f, Becomes(q, p, mode, f),
           Len(p.stack) \in Nat, Len(p.stack) > 1, f.closing = p.stack[Len(p.stack)].closing
    PROVE  q.stack[1] = p.stack[1] /\ q.stack[2].closing = p.stack[2].closing
<1> DEFINE n == Len(p.stack)
<1>1. /\ q.stack[n] = f
      /\ \A i \in 1..n : i < n => q.stack[i] = p.stack[i]
  BY DEF Becomes
<1>2. n \in Nat /\ n > 1 /\ f.closing = p.stack[n].closing
  OBVIOUS
<1> HIDE DEF n
<1>3. 1 \in 1..n /\ 1 < n /\ 2 \in 1..n /\ (2 < n \/ n = 2)
  BY <1>2
<1>4. QED
  BY <1>1, <1>2, <1>3

(* The innermost array of a parser. *)
LEMMA InnermostIs ==
    ASSUME NEW p, NEW r, Follows(p, r), p.stack # <<>>
    PROVE  /\ Innermost(p) = p.stack[Len(p.stack)] /\ Len(p.stack) \in Nat \ {0}
           /\ GoodFrame(Innermost(p)) /\ FrameShape(Innermost(p))
<1>1. /\ Sequential(p.stack)
      /\ \A i \in 1..Len(p.stack) : FrameShape(p.stack[i]) /\ GoodFrame(p.stack[i])
  BY DEF Follows, Writes, ParserShape, StackShape
<1>2. Last(p.stack) = p.stack[Len(p.stack)] /\ Len(p.stack) \in 1..Len(p.stack) /\ Len(p.stack) \in Nat
  BY <1>1, StackHeight
<1>3. QED
  BY <1>1, <1>2 DEF Innermost

LEMMA DeepStaysInside ==
    ASSUME NEW p, NEW r, Follows(p, r), NEW t, p.stack # <<>>, Len(p.stack) # 1,
           NEW q, NEW mode, NEW f, Becomes(q, p, mode, f), mode # "begun",
           f.closing = Innermost(p).closing, Fresh(p) => t.kind \notin Closing
    PROVE  WrittenOut(q, Append(r, t))
<1>1. PICK n : n = Len(p.stack)
  OBVIOUS
<1>2. Innermost(p) = p.stack[n] /\ n \in Nat /\ n # 0 /\ n # 1
  BY <1>1, InnermostIs
<1>3. n \in Nat /\ n > 1
  BY <1>2
<1>4. q.stack[1] = p.stack[1] /\ q.stack[2].closing = p.stack[2].closing
  BY <1>1, <1>2, <1>3, OuterStays
<1>5. q.mode # "begun" /\ Sequential(q.stack) /\ Len(q.stack) = Len(p.stack)
  BY DEF Becomes
<1>6. ~Fresh(q)
  BY <1>5 DEF Fresh
<1>7. Len(p.stack) > 1 /\ Len(q.stack) > 1
  BY <1>1, <1>3, <1>5
<1>8. QED
  BY <1>4, <1>5, <1>6, <1>7, DeepStays

LEMMA ScalarWrites ==
    ASSUME NEW p, NEW r, Follows(p, r), NEW t \in Scalars, ExpectsValue(p)
    PROVE  Writes(Completed(p, t), Append(r, t))
<1>1. PICK q : q = Completed(p, t)
  OBVIOUS
<1>2. PICK s : s = Append(r, t)
  OBVIOUS
<1>3. /\ StackShape(p) /\ Sequential(r) /\ InMode(p, r) /\ WrittenOut(p, r)
      /\ \A i \in 1..Len(p.stack) : GoodFrame(p.stack[i])
  BY DEF Follows, Writes, ParserShape
<1>4. /\ t.kind \in {"text", "int", "float", "true", "false", "null"}
      /\ t.kind \notin Opening \cup Closing /\ t # Mark("=>")
  BY DEF Scalars, Texts, Numbers, Floats, Mark, Opening, Closing
<1>5. DepthAt(s, Len(s)) = Len(p.stack) /\ Last(s) = t /\ s # <<>>
  BY <1>2, <1>4, DepthFollows
<1>6. CASE p.stack = <<>>
  <2>1. q.mode = "value" /\ q.value = t /\ q.stack = <<>>
    BY <1>1, <1>3, <1>6, CompletedIs
  <2>2. WrittenOut(q, s)
    BY <2>1 DEF WrittenOut
  <2>3. InMode(q, s)
    BY <2>1 DEF InMode
  <2>4. Len(<<>>) = 0 /\ Len(p.stack) = 0
    BY <1>6
  <2>5. QED
    BY <1>1, <1>2, <1>5, <2>1, <2>2, <2>3, <2>4 DEF Writes
<1>7. CASE p.stack # <<>>
  <2>1. PICK f : f = [Innermost(p) EXCEPT !.first = t]
    OBVIOUS
  <2>2. /\ Innermost(p) = p.stack[Len(p.stack)] /\ Len(p.stack) \in Nat \ {0}
        /\ GoodFrame(Innermost(p)) /\ FrameShape(Innermost(p))
    BY <1>7, InnermostIs
  <2>3. /\ f.key = Innermost(p).key /\ f.closing = Innermost(p).closing
        /\ f.entries = Innermost(p).entries /\ f.first = t
    BY <2>1, <2>2 DEF FrameShape
  <2>4. GoodFrame(f)
    BY <2>2, <2>3 DEF GoodFrame
  <2>5. \/ f.key = AutoKey /\ Becomes(q, p, "first", f)
        \/ f.key # AutoKey /\ Becomes(q, p, "second", f)
    BY <1>1, <1>3, <1>7, <2>1, <2>3, CompletedIs
  <2>6. \A i \in 1..Len(q.stack) : GoodFrame(q.stack[i])
    BY <2>4, <2>5, FramesStayGood
  <2>7. InMode(q, s)
    BY <1>5, <2>3, <2>5 DEF InMode, Becomes
  <2>8. WrittenOut(q, s)
    <3>1. CASE Len(p.stack) = 1
      <4>1. q.stack # <<>> /\ Len(q.stack) = 1 /\ q.stack[1] = f /\ p.stack[1] = Innermost(p)
        BY <2>2, <2>5, <3>1 DEF Becomes
      <4>2. ASSUME NEW a \in Text
            PROVE  IF f.key = TextOf(a)
                   THEN \E k : k \in 1..Len(s) /\ LastPlace(s, a, k) /\ Coming(q, s, k)
                   ELSE Told(f.entries, s, a)
        <5>1. CASE f.key = TextOf(a)
          <6>1. f.key # AutoKey
            BY <5>1 DEF TextOf, AutoKey, Mark
          <6>2. PICK k : k \in 1..Len(r) /\ LastPlace(r, a, k) /\ Coming(p, r, k)
            BY <1>3, <1>7, <2>3, <4>1, <5>1 DEF WrittenOut
          <6>3. p.mode \notin {"begun", "comma"} /\ p.mode # "returned"
            BY <1>3, <1>7, <2>3, <6>1 DEF InMode
          <6>4. p.mode = "keyed"
            BY <6>3 DEF ExpectsValue
          <6>5. Len(r) = k + 1 /\ k \in Nat
            BY <3>1, <6>2, <6>4 DEF Coming
          <6>6. Means(t, s, k)
            BY <1>2, <1>3, <6>5, ScalarMeans
          <6>7. q.mode = "second"
            BY <2>5, <6>1 DEF Becomes
          <6>8. Coming(q, s, k)
            BY <2>3, <4>1, <6>6, <6>7 DEF Coming
          <6>9. LastPlace(s, a, k)
            BY <1>2, <1>3, <1>4, <6>2, SamePlaces
          <6>10. k \in 1..Len(s)
            BY <1>2, <1>3, <6>2, SequentialAppend DEF Sequential
          <6>11. QED
            BY <5>1, <6>8, <6>9, <6>10
        <5>2. CASE f.key # TextOf(a)
          <6>1. Told(f.entries, r, a)
            BY <1>3, <1>7, <2>3, <4>1, <5>2 DEF WrittenOut
          <6>2. Told(f.entries, s, a)
            BY <1>2, <1>3, <1>4, <6>1, ToldOn
          <6>3. QED
            BY <5>2, <6>2
        <5>3. QED
          BY <5>1, <5>2
      <4>3. QED
        BY <4>1, <4>2 DEF WrittenOut
    <3>2. CASE Len(p.stack) # 1
      <4>1. f.closing = Innermost(p).closing /\ t.kind \notin Closing
        BY <1>4, <2>3
      <4>2. "first" # "begun" /\ "second" # "begun"
        OBVIOUS
      <4>3. QED
        BY <1>2, <1>7, <2>5, <3>2, <4>1, <4>2, DeepStaysInside
    <3>3. QED
      BY <3>1, <3>2
  <2>9. Len(q.stack) = Len(p.stack)
    BY <2>5 DEF Becomes
  <2>10. QED
    BY <1>1, <1>2, <1>5, <2>6, <2>7, <2>8, <2>9 DEF Writes
<1>8. QED
  BY <1>6, <1>7

(* What stands around the value of the file. *)
LEMMA OutsideWrites ==
    ASSUME NEW p, NEW r, Follows(p, r), NEW t, t # Mark("=>"), t.kind \notin Opening \cup Closing,
           p.stack = <<>>, NEW m,
           \/ m \in {"opened", "returned"} /\ p.mode \in {"start", "opened"}
           \/ m \in {"semicolon", "done"} /\ p.mode \in {"value", "semicolon"}
    PROVE  Writes(Expecting(p, m), Append(r, t))
<1>1. PICK q : q = Expecting(p, m)
  OBVIOUS
<1>2. StackShape(p)
  BY DEF Follows, ParserShape
<1>3. q.mode = m /\ q.stack = <<>> /\ q.value = p.value
  BY <1>1, <1>2 DEF StackShape, Expecting
<1>4. PICK s : s = Append(r, t)
  OBVIOUS
<1>5. WrittenOut(q, s)
  <2>1. CASE m \in {"opened", "returned"} /\ p.mode \in {"start", "opened"}
    <3>1. p.mode \notin {"value", "semicolon", "done"} /\ q.mode \notin {"value", "semicolon", "done"}
      BY <1>3, <2>1
    <3>2. QED
      BY <1>3, <1>4, <3>1, OutsideStays
  <2>2. CASE m \in {"semicolon", "done"} /\ p.mode \in {"value", "semicolon"}
    <3>1. p.mode \in {"value", "semicolon", "done"} /\ q.mode \in {"value", "semicolon", "done"}
      BY <1>3, <2>2
    <3>2. QED
      BY <1>3, <1>4, <3>1, OutsideStays
  <2>3. QED
    BY <2>1, <2>2
<1>6. DepthAt(s, Len(s)) = Len(p.stack)
  BY <1>4, DepthFollows
<1>7. InMode(q, s)
  BY <1>3 DEF InMode
<1>8. Len(q.stack) = 0 /\ Len(p.stack) = 0
  BY <1>3
<1>9. QED
  BY <1>1, <1>4, <1>5, <1>6, <1>7, <1>8 DEF Writes

(* The word before the parenthesis of an array. *)
LEMMA ArrayWordWrites ==
    ASSUME NEW p, NEW r, Follows(p, r), NEW t, t = Mark("array"), ExpectsValue(p)
    PROVE  Writes(Expecting(p, "array"), Append(r, t))
<1>1. PICK q : q = Expecting(p, "array")
  OBVIOUS
<1>2. PICK s : s = Append(r, t)
  OBVIOUS
<1>3. /\ StackShape(p) /\ Sequential(r) /\ InMode(p, r) /\ WrittenOut(p, r)
      /\ \A i \in 1..Len(p.stack) : GoodFrame(p.stack[i])
  BY DEF Follows, Writes, ParserShape
<1>4. q.mode = "array" /\ q.stack = p.stack /\ q.value = p.value
  BY <1>1, <1>3 DEF StackShape, Expecting
<1>5. t.kind = "array" /\ t # Mark("=>") /\ t.kind \notin Opening \cup Closing
  BY DEF Mark, Opening, Closing
<1>6. DepthAt(s, Len(s)) = Len(p.stack)
  BY <1>2, <1>5, DepthFollows
<1>7. InMode(q, s)
  BY <1>4 DEF InMode
<1>8. WrittenOut(q, s)
  <2>1. CASE p.stack = <<>>
    <3>1. p.mode \notin {"value", "semicolon", "done"} /\ q.mode \notin {"value", "semicolon", "done"}
      BY <1>4 DEF ExpectsValue
    <3>2. QED
      BY <1>2, <1>4, <1>5, <2>1, <3>1, OutsideStays
  <2>2. CASE p.stack # <<>> /\ Len(p.stack) = 1
    <3>1. /\ Innermost(p) = p.stack[1]
      BY <2>2, InnermostIs
    <3>2. ASSUME NEW a \in Text
          PROVE  IF q.stack[1].key = TextOf(a)
                 THEN \E k : k \in 1..Len(s) /\ LastPlace(s, a, k) /\ Coming(q, s, k)
                 ELSE Told(q.stack[1].entries, s, a)
      <4>1. CASE p.stack[1].key = TextOf(a)
        <5>1. p.stack[1].key # AutoKey
          BY <4>1 DEF TextOf, AutoKey, Mark
        <5>2. PICK k : k \in 1..Len(r) /\ LastPlace(r, a, k) /\ Coming(p, r, k)
          BY <1>3, <2>2, <4>1 DEF WrittenOut
        <5>3. p.mode \notin {"begun", "comma"} /\ p.mode # "returned"
          BY <1>3, <2>2, <3>1, <5>1 DEF InMode
        <5>4. p.mode = "keyed"
          BY <5>3 DEF ExpectsValue
        <5>5. Len(r) = k + 1 /\ k \in Nat
          BY <2>2, <5>2, <5>4 DEF Coming
        <5>6. Len(s) = k + 2 /\ s[k + 2] = t
          BY <1>2, <1>3, <5>5, SequentialAppend
        <5>7. Coming(q, s, k)
          BY <1>4, <2>2, <5>6 DEF Coming
        <5>8. LastPlace(s, a, k)
          BY <1>2, <1>3, <1>5, <5>2, SamePlaces
        <5>9. k \in 1..Len(s)
          BY <5>2, <5>5, <5>6
        <5>10. QED
          BY <1>4, <4>1, <5>7, <5>8, <5>9
      <4>2. CASE p.stack[1].key # TextOf(a)
        <5>1. Told(p.stack[1].entries, r, a)
          BY <1>3, <2>2, <4>2 DEF WrittenOut
        <5>2. Told(p.stack[1].entries, s, a)
          BY <1>2, <1>3, <1>5, <5>1, ToldOn
        <5>3. QED
          BY <1>4, <4>2, <5>2
      <4>3. QED
        BY <4>1, <4>2
    <3>3. QED
      BY <1>4, <2>2, <3>2 DEF WrittenOut
  <2>3. CASE p.stack # <<>> /\ Len(p.stack) # 1
    <3>1. PICK n : n = Len(p.stack)
      OBVIOUS
    <3>2. n \in Nat /\ n # 0 /\ n # 1
      BY <2>3, <3>1, InnermostIs
    <3>3. n > 1
      BY <3>2
    <3>4. ~Fresh(q)
      BY <1>4 DEF Fresh
    <3>5. t.kind \notin Closing
      BY <1>5
    <3>6. Len(p.stack) > 1 /\ Sequential(q.stack) /\ Len(q.stack) > 1
      BY <1>3, <1>4, <3>1, <3>3 DEF StackShape
    <3>7. q.stack[1] = p.stack[1] /\ q.stack[2].closing = p.stack[2].closing
      BY <1>4
    <3>8. QED
      BY <1>2, <3>4, <3>5, <3>6, <3>7, DeepStays
  <2>4. QED
    BY <2>1, <2>2, <2>3
<1>9. QED
  BY <1>1, <1>2, <1>3, <1>4, <1>6, <1>7, <1>8 DEF Writes

(* An array begins, as an entry of another or on its own.                  *)
LEMMA BegunWrites ==
    ASSUME NEW p, NEW r, Follows(p, r), NEW t, NEW c,
           \/ ExpectsValue(p) /\ t = Mark("[") /\ c = "]"
           \/ p.mode = "array" /\ t = Mark("(") /\ c = ")"
    PROVE  Writes(Begun(p, c), Append(r, t))
<1>1. PICK q : q = Begun(p, c)
  OBVIOUS
<1>2. PICK s : s = Append(r, t)
  OBVIOUS
<1>3. /\ StackShape(p) /\ Sequential(r) /\ InMode(p, r) /\ WrittenOut(p, r)
      /\ \A i \in 1..Len(p.stack) : GoodFrame(p.stack[i])
  BY DEF Follows, Writes, ParserShape
<1>4. CASE q = Refused(p)
  <2>1. q.mode = "refused"
    BY <1>3, <1>4 DEF Refused, StackShape
  <2>2. QED
    BY <1>1, <2>1 DEF Writes
<1>5. CASE q # Refused(p)
  <2>1. /\ q.mode = "begun" /\ Sequential(q.stack) /\ q.stack # <<>>
        /\ Len(q.stack) = Len(p.stack) + 1
        /\ q.stack[Len(q.stack)] = Frame(c) /\ Innermost(q) = Frame(c)
        /\ \A i \in 1..Len(p.stack) : q.stack[i] = p.stack[i]
    BY <1>1, <1>3, <1>5, BegunIs
  <2>2. t.kind \in Opening /\ t.kind \notin Closing /\ t # Mark("=>") /\ c \in Closing
    BY DEF Mark, Opening, Closing
  <2>3. DepthAt(s, Len(s)) = Len(q.stack)
    BY <1>2, <2>1, <2>2, DepthFollows
  <2>4. Frame(c).closing = c /\ Frame(c).key = AutoKey /\ Frame(c).entries = <<>>
    BY DEF Frame
  <2>5. GoodFrame(Frame(c))
    <3>1. Len(<<>>) = 0
      OBVIOUS
    <3>2. 1..0 = {}
      OBVIOUS
    <3>3. QED
      BY <2>2, <2>4, <3>1, <3>2 DEF GoodFrame, GoodKeys, KeyTokens
  <2>6. Len(p.stack) \in Nat /\ (p.stack = <<>> <=> Len(p.stack) = 0)
    BY <1>3, StackHeight DEF StackShape
  <2>7. \A i \in 1..Len(q.stack) : GoodFrame(q.stack[i])
    <3>1. \A i \in 1..Len(q.stack) : i \in 1..Len(p.stack) \/ i = Len(q.stack)
      BY <2>1, <2>6
    <3>2. QED
      BY <1>3, <2>1, <2>5, <3>1
  <2>8. InMode(q, s)
    BY <2>1, <2>4 DEF InMode
  <2>9. CASE p.stack = <<>>
    <3>1. p.mode \notin {"value", "semicolon", "done"}
      BY DEF ExpectsValue
    <3>2. q.stack[1] = Frame(c)
      BY <2>1, <2>6, <2>9
    <3>3. PICK q0 : q0 = [stack |-> <<>>]
      OBVIOUS
    <3>4. q0.stack = <<>>
      BY <3>3
    <3>5. \A a \in Text : Told(<<>>, s, a)
      BY <1>2, <2>2, <2>9, <3>1, <3>4, OutsideStays
    <3>6. \A a \in Text : AutoKey # TextOf(a)
      BY DEF AutoKey, Mark, TextOf
    <3>7. WrittenOut(q, s)
      BY <2>1, <2>4, <3>2, <3>5, <3>6 DEF WrittenOut
    <3>8. QED
      BY <1>1, <1>2, <2>3, <2>7, <2>8, <3>7 DEF Writes
  <2>10. CASE Len(p.stack) = 1
    <3>1. q.stack[1] = p.stack[1] /\ p.stack # <<>> /\ Len(q.stack) = 2 /\ q.stack[2] = Frame(c) /\ Fresh(q)
      BY <2>1, <2>6, <2>10 DEF Fresh
    <3>2. Innermost(p) = p.stack[1]
      BY <2>10, <3>1, InnermostIs
    <3>3. ASSUME NEW a \in Text
          PROVE  IF q.stack[1].key = TextOf(a)
                 THEN \E k : k \in 1..Len(s) /\ LastPlace(s, a, k) /\ Coming(q, s, k)
                 ELSE Told(q.stack[1].entries, s, a)
      <4>1. CASE p.stack[1].key = TextOf(a)
        <5>1. p.stack[1].key # AutoKey
          BY <4>1 DEF TextOf, AutoKey, Mark
        <5>2. PICK k : k \in 1..Len(r) /\ LastPlace(r, a, k) /\ Coming(p, r, k)
          BY <1>3, <3>1, <4>1 DEF WrittenOut
        <5>3. p.mode \notin {"begun", "comma"} /\ p.mode # "returned"
          BY <1>3, <3>1, <3>2, <5>1 DEF InMode
        <5>4. k \in Nat /\ Len(r) \in Nat
          BY <1>3, <5>2 DEF Sequential
        <5>5. /\ Len(s) = Len(r) + 1 /\ s[Len(r) + 1] = t
              /\ \A i \in 1..Len(r) : s[i] = r[i]
          BY <1>2, <1>3, SequentialAppend
        <5>6. Coming(q, s, k)
          <6>1. CASE p.mode = "keyed"
            <7>1. t = Mark("[") /\ c = "]" /\ Len(r) = k + 1
              BY <2>10, <5>2, <6>1 DEF Coming
            <7>2. Len(s) = k + 2 /\ s[k + 2] = Mark("[")
              BY <5>4, <5>5, <7>1
            <7>3. Opens(s, k, k + 2, c)
              BY <7>1, <7>2 DEF Opens
            <7>4. QED
              BY <2>4, <3>1, <7>2, <7>3 DEF Coming
          <6>2. CASE p.mode # "keyed"
            <7>1. p.mode = "array" /\ t = Mark("(") /\ c = ")"
              BY <5>3, <6>2 DEF ExpectsValue
            <7>2. Len(r) = k + 2 /\ r[k + 2] = Mark("array")
              BY <2>10, <5>2, <7>1 DEF Coming
            <7>3. Len(s) = k + 3 /\ k + 2 \in 1..Len(r)
              BY <5>4, <5>5, <7>2
            <7>4. s[k + 3] = Mark("(") /\ s[k + 2] = Mark("array")
              BY <5>4, <5>5, <7>1, <7>2, <7>3
            <7>5. Opens(s, k, k + 3, c)
              BY <7>1, <7>4 DEF Opens
            <7>6. QED
              BY <2>4, <3>1, <7>3, <7>5 DEF Coming
          <6>3. QED
            BY <6>1, <6>2
        <5>7. LastPlace(s, a, k)
          BY <1>2, <1>3, <2>2, <5>2, SamePlaces
        <5>8. k \in 1..Len(s)
          BY <5>2, <5>4, <5>5
        <5>9. QED
          BY <3>1, <4>1, <5>6, <5>7, <5>8
      <4>2. CASE p.stack[1].key # TextOf(a)
        <5>1. Told(p.stack[1].entries, r, a)
          BY <1>3, <3>1, <4>2 DEF WrittenOut
        <5>2. Told(p.stack[1].entries, s, a)
          BY <1>2, <1>3, <2>2, <5>1, ToldOn
        <5>3. QED
          BY <3>1, <4>2, <5>2
      <4>3. QED
        BY <4>1, <4>2
    <3>4. WrittenOut(q, s)
      BY <2>1, <3>3 DEF WrittenOut
    <3>5. QED
      BY <1>1, <1>2, <2>3, <2>7, <2>8, <3>4 DEF Writes
  <2>11. CASE p.stack # <<>> /\ Len(p.stack) # 1
    <3>1. PICK n, m : n = Len(p.stack) /\ m = Len(q.stack)
      OBVIOUS
    <3>2. n \in Nat /\ n # 0 /\ n # 1 /\ m = n + 1
      BY <2>1, <2>6, <2>11, <3>1
    <3>3. n > 1 /\ m > 1 /\ m # 2 /\ 1 \in 1..n /\ 2 \in 1..n
      BY <3>2
    <3>4. q.stack[1] = p.stack[1] /\ q.stack[2].closing = p.stack[2].closing
      BY <2>1, <3>1, <3>3
    <3>5. ~Fresh(q)
      BY <3>1, <3>3 DEF Fresh
    <3>6. Len(p.stack) > 1 /\ Len(q.stack) > 1
      BY <3>1, <3>3
    <3>7. WrittenOut(q, s)
      BY <1>2, <2>1, <2>2, <3>4, <3>5, <3>6, DeepStays
    <3>8. QED
      BY <1>1, <1>2, <2>3, <2>7, <2>8, <3>7 DEF Writes
  <2>12. QED
    BY <2>9, <2>10, <2>11
<1>6. QED
  BY <1>4, <1>5

(* Only texts and numbers are taken for keys. *)
LEMMA KeyTokensAre ==
    ASSUME NEW t \in AllTokens
    PROVE  t.kind \in {"text", "int"} => t \in Texts \cup Numbers /\ t # AutoKey
<1>1. CASE t \in Scalars
  BY <1>1 DEF Scalars, Texts, Numbers, Floats, Mark, AutoKey
<1>2. CASE t \notin Scalars
  <2>1. t \in Words \cup Signs \cup {Mark("bad")}
    BY <1>2 DEF AllTokens
  <2>2. \A k : Mark(k).kind = k
    BY DEF Mark
  <2>3. t.kind \in {"return", "array", "name", "<?php", "(", ")", "[", "]", "=>", ",", ";", "eof", "bad"}
    <3>1. CASE t \in Words
      <4>1. PICK k \in {"return", "array", "name"} : t = Mark(k)
        BY <3>1 DEF Words
      <4>2. QED
        BY <2>2, <4>1
    <3>2. CASE t \in Signs
      <4>1. PICK k \in {"<?php", "(", ")", "[", "]", "=>", ",", ";", "eof"} : t = Mark(k)
        BY <3>2 DEF Signs
      <4>2. t.kind = k
        BY <2>2, <4>1
      <4>3. QED
        BY <4>2
    <3>3. CASE t = Mark("bad")
      BY <2>2, <3>3
    <3>4. QED
      BY <2>1, <3>1, <3>2, <3>3
  <2>4. QED
    BY <2>3
<1>3. QED
  BY <1>1, <1>2

(* The arrow makes a key of what an entry began with: a new last place.    *)
LEMMA KeyedWrites ==
    ASSUME NEW p, NEW r, Follows(p, r), p.mode = "first", NEW t, t = Mark("=>")
    PROVE  Writes(Keyed(p), Append(r, t))
<1>1. PICK q : q = Keyed(p)
  OBVIOUS
<1>2. PICK s : s = Append(r, t)
  OBVIOUS
<1>3. /\ StackShape(p) /\ Sequential(r) /\ InMode(p, r) /\ WrittenOut(p, r)
      /\ \A i \in 1..Len(p.stack) : GoodFrame(p.stack[i])
      /\ DepthAt(r, Len(r)) = Len(p.stack)
  BY DEF Follows, Writes, ParserShape
<1>4. p.stack # <<>> /\ r # <<>>
  BY <1>3 DEF InMode
<1>5. CASE q = Refused(p)
  <2>1. q.mode = "refused"
    BY <1>3, <1>5, RefusedShape
  <2>2. QED
    BY <1>1, <2>1 DEF Writes
<1>6. CASE q # Refused(p)
  <2>1. PICK f : f = Innermost(p)
    OBVIOUS
  <2>2. PICK g : g = [f EXCEPT !.key = f.first]
    OBVIOUS
  <2>3. f.first.kind \in {"text", "int"} /\ Becomes(q, p, "keyed", g)
    BY <1>1, <1>3, <1>4, <1>6, <2>1, <2>2, KeyedIs
  <2>4. f.first = Last(r) /\ f.key = AutoKey
    BY <1>3, <2>1, <2>3 DEF InMode
  <2>5. Last(r) = r[Len(r)] /\ Len(r) \in 1..Len(r) /\ Len(r) \in Nat
    BY <1>3, <1>4, StackHeight
  <2>6. f.first \in Texts \cup Numbers /\ f.first # AutoKey
    <3>1. Last(r) \in AllTokens
      BY <2>5 DEF Follows
    <3>2. QED
      BY <2>3, <2>4, <3>1, KeyTokensAre
  <2>7. /\ f = p.stack[Len(p.stack)] /\ Len(p.stack) \in Nat \ {0}
        /\ GoodFrame(f) /\ FrameShape(f)
    BY <1>4, <2>1, InnermostIs
  <2>8. g.key = f.first /\ g.closing = f.closing /\ g.entries = f.entries
    BY <2>2, <2>7 DEF FrameShape
  <2>9. GoodFrame(g)
    BY <2>6, <2>7, <2>8 DEF GoodFrame, KeyTokens
  <2>10. \A i \in 1..Len(q.stack) : GoodFrame(q.stack[i])
    BY <2>3, <2>9, FramesStayGood
  <2>11. InMode(q, s)
    BY <2>3 DEF InMode, Becomes
  <2>12. t.kind \notin Opening \cup Closing
    BY DEF Mark, Opening, Closing
  <2>13. DepthAt(s, Len(s)) = Len(q.stack) /\ q.mode = "keyed" /\ q.stack # <<>>
    BY <1>2, <2>3, <2>12, DepthFollows DEF Becomes
  <2>14. CASE Len(p.stack) = 1
    <3>1. Len(q.stack) = 1 /\ q.stack[1] = g /\ p.stack[1] = f
      BY <2>3, <2>7, <2>14 DEF Becomes
    <3>2. ASSUME NEW a \in Text
          PROVE  IF g.key = TextOf(a)
                 THEN \E k : k \in 1..Len(s) /\ LastPlace(s, a, k) /\ Coming(q, s, k)
                 ELSE Told(g.entries, s, a)
      <4>1. Told(f.entries, r, a)
        <5>1. f.key # TextOf(a)
          BY <2>4 DEF AutoKey, Mark, TextOf
        <5>2. QED
          BY <1>3, <1>4, <3>1, <5>1 DEF WrittenOut
      <4>2. CASE g.key # TextOf(a)
        <5>1. r[Len(r)] # TextOf(a)
          BY <2>4, <2>5, <2>8, <4>2
        <5>2. Told(f.entries, s, a)
          BY <1>2, <1>3, <4>1, <5>1, ToldOn
        <5>3. QED
          BY <2>8, <4>2, <5>2
      <4>3. CASE g.key = TextOf(a)
        <5>1. PICK k : k = Len(r)
          OBVIOUS
        <5>2. r[k] = TextOf(a) /\ k > 0 /\ k \in Nat /\ DepthAt(r, k) = 1
          BY <1>3, <2>4, <2>5, <2>8, <2>14, <4>3, <5>1
        <5>3. KeyPlaces(s, a) = KeyPlaces(r, a) \cup {k}
          BY <1>2, <1>3, <5>1, <5>2, PlacesNext
        <5>4. \A l \in KeyPlaces(r, a) : l <= k
          BY <5>1, <5>2 DEF KeyPlaces
        <5>5. LastPlace(s, a, k)
          BY <5>2, <5>3, <5>4 DEF LastPlace
        <5>6. Len(s) = k + 1
          BY <1>2, <1>3, <5>1, SequentialAppend
        <5>7. Coming(q, s, k)
          BY <2>13, <3>1, <5>6 DEF Coming
        <5>8. k \in 1..Len(s)
          BY <5>2, <5>6
        <5>9. QED
          BY <4>3, <5>5, <5>7, <5>8
      <4>4. QED
        BY <4>2, <4>3
    <3>3. WrittenOut(q, s)
      BY <2>13, <3>1, <3>2 DEF WrittenOut
    <3>4. QED
      BY <1>1, <1>2, <2>10, <2>11, <2>13, <3>3 DEF Writes
  <2>15. CASE Len(p.stack) # 1
    <3>1. g.closing = Innermost(p).closing /\ "keyed" # "begun" /\ t.kind \notin Closing
      BY <2>1, <2>8, <2>12
    <3>2. WrittenOut(q, s)
      BY <1>2, <1>4, <2>3, <2>15, <3>1, DeepStaysInside
    <3>3. QED
      BY <1>1, <1>2, <2>10, <2>11, <2>13, <3>2 DEF Writes
  <2>16. QED
    BY <2>14, <2>15
<1>7. QED
  BY <1>5, <1>6

(* The entry that ends says what is written of its key, in the place of    *)
(* the earlier ones with that key.                                         *)
LEMMA KeptTold ==
    ASSUME NEW p, NEW r, Follows(p, r), p.mode \in {"first", "second"}, Len(p.stack) = 1,
           NEW a \in Text
    PROVE  LET f == Innermost(p)
           IN  Told(Append(f.entries, Entry(f.key, f.first)), r, a)
<1>1. PICK f : f = Innermost(p)
  OBVIOUS
<1>2. PICK es : es = Append(f.entries, Entry(f.key, f.first))
  OBVIOUS
<1>3. /\ StackShape(p) /\ Sequential(r) /\ InMode(p, r) /\ WrittenOut(p, r)
  BY DEF Follows, Writes, ParserShape
<1>4. p.stack # <<>>
  BY <1>3 DEF InMode
<1>5. f = p.stack[1] /\ FrameShape(f)
  BY <1>1, <1>4, InnermostIs
<1>6. /\ Sequential(es) /\ Len(es) = Len(f.entries) + 1 /\ Len(f.entries) \in Nat
      /\ es[Len(f.entries) + 1] = Entry(f.key, f.first)
      /\ \A i \in 1..Len(f.entries) : es[i] = f.entries[i]
  BY <1>2, <1>5, SequentialAppend DEF FrameShape, Sequential
<1> DEFINE n == Len(f.entries)
<1>7. /\ n \in Nat /\ Len(es) = n + 1 /\ es[n + 1].key = f.key /\ es[n + 1].value = f.first
      /\ \A i \in 1..n : es[i] = f.entries[i]
  BY <1>6 DEF Entry
<1> HIDE DEF n
<1>8. n + 1 \in 1..Len(es) /\ \A i \in 1..Len(es) : i \in 1..n \/ i = n + 1
  BY <1>7
<1>9. CASE f.key = TextOf(a)
  <2>1. PICK k : k \in 1..Len(r) /\ LastPlace(r, a, k) /\ Coming(p, r, k)
    BY <1>3, <1>4, <1>5, <1>9 DEF WrittenOut
  <2>2. p.mode # "first"
    <3>1. f.key # AutoKey
      BY <1>9 DEF AutoKey, Mark, TextOf
    <3>2. QED
      BY <1>1, <1>3, <3>1 DEF InMode
  <2>3. Means(f.first, r, k)
    BY <1>5, <2>1, <2>2 DEF Coming
  <2>4. LastEntry(es, a, n + 1)
    <3>1. \A j \in 1..Len(es) : ~(j > n + 1)
      BY <1>7
    <3>2. QED
      BY <1>7, <1>8, <1>9, <3>1 DEF LastEntry
  <2>5. k \in KeyPlaces(r, a)
    BY <2>1 DEF LastPlace
  <2>6. Told(es, r, a)
    BY <1>7, <1>8, <2>1, <2>3, <2>4, <2>5 DEF Told
  <2>7. QED
    BY <1>1, <1>2, <2>6
<1>10. CASE f.key # TextOf(a)
  <2>1. Told(f.entries, r, a)
    BY <1>3, <1>4, <1>5, <1>10 DEF WrittenOut
  <2>2. CASE KeyPlaces(r, a) = {} /\ \A i \in 1..Len(f.entries) : f.entries[i].key # TextOf(a)
    <3>1. \A i \in 1..Len(es) : es[i].key # TextOf(a)
      BY <1>7, <1>8, <1>10, <2>2 DEF n
    <3>2. Told(es, r, a)
      BY <2>2, <3>1 DEF Told
    <3>3. QED
      BY <1>1, <1>2, <3>2
  <2>3. CASE \E i \in 1..Len(f.entries), k \in KeyPlaces(r, a) :
              LastEntry(f.entries, a, i) /\ LastPlace(r, a, k) /\ Means(f.entries[i].value, r, k)
    <3>1. PICK i \in 1..n, k \in KeyPlaces(r, a) :
              LastEntry(f.entries, a, i) /\ LastPlace(r, a, k) /\ Means(f.entries[i].value, r, k)
      BY <2>3 DEF n
    <3>2. i \in 1..Len(es) /\ es[i] = f.entries[i]
      BY <1>7
    <3>3. /\ f.entries[i].key = TextOf(a)
          /\ \A j \in 1..n : j > i => f.entries[j].key # TextOf(a)
      BY <3>1 DEF LastEntry, n
    <3>4. LastEntry(es, a, i)
      <4>1. \A j \in 1..Len(es) : j > i => es[j].key # TextOf(a)
        BY <1>7, <1>8, <1>10, <3>3
      <4>2. QED
        BY <3>2, <3>3, <4>1 DEF LastEntry
    <3>5. Told(es, r, a)
      BY <3>1, <3>2, <3>4 DEF Told
    <3>6. QED
      BY <1>1, <1>2, <3>5
  <2>4. QED
    BY <2>1, <2>2, <2>3 DEF Told
<1>11. QED
  BY <1>9, <1>10

(* An array after an entry is kept. *)
LEMMA KeptFrame ==
    ASSUME NEW f, FrameShape(f), GoodFrame(f)
    PROVE  LET g == [Frame(f.closing) EXCEPT !.entries = Append(f.entries, Entry(f.key, f.first))]
           IN  /\ GoodFrame(g) /\ g.closing = f.closing /\ g.key = AutoKey
               /\ g.entries = Append(f.entries, Entry(f.key, f.first)) /\ g.entries # <<>>
               /\ Sequential(g.entries)
<1>1. PICK es : es = Append(f.entries, Entry(f.key, f.first))
  OBVIOUS
<1>2. PICK g : g = [Frame(f.closing) EXCEPT !.entries = es]
  OBVIOUS
<1>3. g.closing = f.closing /\ g.key = AutoKey /\ g.entries = es
  BY <1>2 DEF Frame
<1>4. /\ Sequential(es) /\ es # <<>> /\ Len(es) = Len(f.entries) + 1 /\ Len(f.entries) \in Nat
      /\ es[Len(f.entries) + 1].key = f.key
      /\ \A i \in 1..Len(f.entries) : es[i] = f.entries[i]
  BY <1>1, SequentialAppend DEF FrameShape, Sequential, Entry
<1>5. GoodKeys(es)
  <2>1. \A i \in 1..Len(es) : i \in 1..Len(f.entries) \/ i = Len(f.entries) + 1
    BY <1>4
  <2>2. QED
    BY <1>4, <2>1 DEF GoodKeys, GoodFrame
<1>6. GoodFrame(g)
  BY <1>3, <1>5 DEF GoodFrame, KeyTokens
<1>7. QED
  BY <1>1, <1>2, <1>3, <1>4, <1>6

LEMMA SeparatedWrites ==
    ASSUME NEW p, NEW r, Follows(p, r), p.mode \in {"first", "second"}, NEW t, t = Mark(",")
    PROVE  Writes(Separated(Kept(p)), Append(r, t))
<1>1. PICK q : q = Separated(Kept(p))
  OBVIOUS
<1>2. PICK s : s = Append(r, t)
  OBVIOUS
<1>3. /\ StackShape(p) /\ Sequential(r) /\ InMode(p, r) /\ WrittenOut(p, r)
      /\ \A i \in 1..Len(p.stack) : GoodFrame(p.stack[i])
      /\ DepthAt(r, Len(r)) = Len(p.stack)
  BY DEF Follows, Writes, ParserShape
<1>4. p.stack # <<>>
  BY <1>3 DEF InMode
<1>5. CASE Kept(p) = Refused(p)
  <2>1. q = Refused(p) /\ q.mode = "refused"
    BY <1>1, <1>3, <1>5, RefusedShape DEF Separated
  <2>2. QED
    BY <1>1, <2>1 DEF Writes
<1>6. CASE Kept(p) # Refused(p)
  <2>1. PICK f : f = Innermost(p)
    OBVIOUS
  <2>2. PICK g : g = [Frame(f.closing) EXCEPT !.entries = Append(f.entries, Entry(f.key, f.first))]
    OBVIOUS
  <2>3. /\ f = p.stack[Len(p.stack)] /\ Len(p.stack) \in Nat \ {0}
        /\ GoodFrame(f) /\ FrameShape(f)
    BY <1>4, <2>1, InnermostIs
  <2>4. /\ GoodFrame(g) /\ g.closing = f.closing /\ g.key = AutoKey
        /\ g.entries = Append(f.entries, Entry(f.key, f.first)) /\ g.entries # <<>>
    BY <2>2, <2>3, KeptFrame
  <2>5. PICK k : k = Kept(p)
    OBVIOUS
  <2>6. Becomes(k, p, "kept", g) /\ DOMAIN k = DOMAIN p
    BY <1>3, <1>4, <1>6, <2>1, <2>2, <2>5, KeptIs
  <2>7. q = [k EXCEPT !.mode = "comma"]
    BY <1>1, <2>5, <2>6 DEF Separated, Expecting, Becomes
  <2>8. q.mode = "comma" /\ q.stack = k.stack
    BY <1>3, <2>6, <2>7 DEF StackShape
  <2>9. Becomes(q, p, "comma", g)
    BY <2>6, <2>8 DEF Becomes, Innermost
  <2>10. \A i \in 1..Len(q.stack) : GoodFrame(q.stack[i])
    BY <2>4, <2>9, FramesStayGood
  <2>11. InMode(q, s)
    BY <2>4, <2>9 DEF InMode, Becomes
  <2>12. t.kind \notin Opening \cup Closing /\ t # Mark("=>")
    BY DEF Mark, Opening, Closing
  <2>13. DepthAt(s, Len(s)) = Len(q.stack) /\ q.stack # <<>>
    <3>1. DepthAt(s, Len(s)) = Len(p.stack)
      BY <1>2, <2>12, DepthFollows
    <3>2. QED
      BY <2>9, <3>1 DEF Becomes
  <2>14. WrittenOut(q, s)
    <3>1. CASE Len(p.stack) = 1
      <4>1. q.stack[1] = g
        BY <2>9, <3>1 DEF Becomes
      <4>2. ASSUME NEW a \in Text
            PROVE  g.key # TextOf(a) /\ Told(g.entries, s, a)
        <5>1. Told(g.entries, r, a)
          BY <2>1, <2>4, <3>1, KeptTold
        <5>2. Told(g.entries, s, a)
          BY <1>2, <1>3, <2>12, <5>1, ToldOn
        <5>3. AutoKey # TextOf(a)
          BY DEF AutoKey, Mark, TextOf
        <5>4. QED
          BY <2>4, <5>2, <5>3
      <4>3. QED
        BY <2>13, <4>1, <4>2 DEF WrittenOut
    <3>2. CASE Len(p.stack) # 1
      <4>1. g.closing = Innermost(p).closing /\ "comma" # "begun" /\ t.kind \notin Closing
        BY <2>1, <2>4, <2>12
      <4>2. QED
        BY <1>2, <1>4, <2>9, <3>2, <4>1, DeepStaysInside
    <3>3. QED
      BY <3>1, <3>2
  <2>15. QED
    BY <1>1, <1>2, <2>10, <2>11, <2>13, <2>14 DEF Writes
<1>7. QED
  BY <1>5, <1>6

(* An array that ends is a value of the one around it, or that of the file. *)
LEMMA ClosedWrites ==
    ASSUME NEW p, NEW r, Follows(p, r), p.stack # <<>>, NEW t, t = Mark(Innermost(p).closing),
           NEW es, GoodKeys(es),
           Len(p.stack) = 1 => \A a \in Text : Told(es, r, a),
           Len(p.stack) = 2 => (es = <<>> <=> Fresh(p)),
           NEW b, StackShape(b), Len(b.stack) = Len(p.stack) - 1,
           \A i \in 1..(Len(p.stack) - 1) : b.stack[i] = p.stack[i]
    PROVE  Writes(Completed(b, Array(es)), Append(r, t))
<1>1. PICK q : q = Completed(b, Array(es))
  OBVIOUS
<1>2. PICK s : s = Append(r, t)
  OBVIOUS
<1>3. /\ StackShape(p) /\ Sequential(r) /\ InMode(p, r) /\ WrittenOut(p, r)
      /\ \A i \in 1..Len(p.stack) : GoodFrame(p.stack[i]) /\ FrameShape(p.stack[i])
  BY DEF Follows, Writes, ParserShape, StackShape
<1>4. Innermost(p) = p.stack[Len(p.stack)] /\ Len(p.stack) \in Nat \ {0} /\ GoodFrame(Innermost(p))
  BY InnermostIs
<1>5. t.kind \in Closing /\ t.kind \notin Opening /\ t # Mark("=>")
  BY <1>4 DEF Mark, GoodFrame, Closing, Opening
<1>6. DepthAt(s, Len(s)) = Len(b.stack) /\ Last(s) = t /\ s # <<>>
  BY <1>2, <1>5, DepthFollows
<1>7. PICK n : n = Len(b.stack)
  OBVIOUS
<1>8. n \in Nat /\ Len(p.stack) = n + 1 /\ (n = 0 <=> b.stack = <<>>)
  <2>1. Sequential(b.stack)
    BY DEF StackShape
  <2>2. n \in Nat /\ (n = 0 <=> b.stack = <<>>)
    BY <1>7, <2>1, StackHeight
  <2>3. QED
    BY <1>4, <1>7, <2>2
<1>9. Array(es).kind = "array" /\ Array(es).entries = es
  BY DEF Array
<1>10. CASE n = 0
  <2>1. q.mode = "value" /\ q.value = Array(es) /\ q.stack = <<>>
    <3>1. b.stack = <<>>
      BY <1>8, <1>10
    <3>2. PICK v : v = Array(es)
      OBVIOUS
    <3>3. q = Completed(b, v)
      BY <1>1, <3>2
    <3>4. q.mode = "value" /\ q.value = v /\ q.stack = <<>>
      BY <3>1, <3>3, CompletedIs
    <3>5. QED
      BY <3>2, <3>4
  <2>2. \A a \in Text : Told(es, s, a)
    BY <1>2, <1>3, <1>5, <1>8, <1>10, ToldOn
  <2>3. WrittenOut(q, s)
    BY <1>9, <2>1, <2>2 DEF WrittenOut
  <2>4. InMode(q, s)
    BY <2>1 DEF InMode
  <2>5. Len(<<>>) = 0 /\ 1..0 = {}
    OBVIOUS
  <2>6. QED
    BY <1>1, <1>2, <1>6, <1>7, <1>10, <2>1, <2>3, <2>4, <2>5 DEF Writes
<1>11. CASE n # 0
  <2>1. b.stack # <<>> /\ n \in 1..n /\ n \in 1..Len(p.stack)
    BY <1>8, <1>11
  <2>2. PICK f : f = [p.stack[n] EXCEPT !.first = Array(es)]
    OBVIOUS
  <2>3. Innermost(b) = p.stack[n]
    <3>1. Last(b.stack) = b.stack[n]
      BY <1>7, <2>1, StackHeight DEF StackShape
    <3>2. b.stack[n] = p.stack[n]
      BY <1>8, <2>1
    <3>3. QED
      BY <3>1, <3>2 DEF Innermost
  <2>4. /\ f.key = p.stack[n].key /\ f.closing = p.stack[n].closing
        /\ f.entries = p.stack[n].entries /\ f.first = Array(es)
    BY <1>3, <2>1, <2>2 DEF FrameShape
  <2>5. GoodFrame(f)
    BY <1>3, <2>1, <2>4 DEF GoodFrame
  <2>6. \/ f.key = AutoKey /\ Becomes(q, b, "first", f)
        \/ f.key # AutoKey /\ Becomes(q, b, "second", f)
    BY <1>1, <2>1, <2>2, <2>3, <2>4, CompletedIs
  <2>7. /\ q.mode \in {"first", "second"} /\ Sequential(q.stack) /\ q.stack # <<>>
        /\ Len(q.stack) = n /\ q.stack[n] = f /\ Innermost(q) = f
        /\ \A i \in 1..n : i < n => q.stack[i] = p.stack[i]
        /\ q.mode = "first" => f.key = AutoKey
        /\ f.key # AutoKey => q.mode = "second"
    <3>1. \A i \in 1..n : i < n => b.stack[i] = p.stack[i]
      BY <1>8
    <3>2. QED
      BY <1>7, <2>6, <3>1 DEF Becomes
  <2>8. \A i \in 1..Len(q.stack) : GoodFrame(q.stack[i])
    <3>1. \A i \in 1..n : (i < n \/ i = n) /\ i \in 1..Len(p.stack)
      BY <1>8
    <3>2. QED
      BY <1>3, <2>5, <2>7, <3>1
  <2>9. InMode(q, s)
    BY <1>5, <1>6, <1>9, <2>4, <2>7 DEF InMode
  <2>10. CASE n = 1
    <3>1. q.stack[1] = f /\ Len(q.stack) = 1 /\ Len(p.stack) = 2
      BY <1>8, <2>7, <2>10
    <3>2. ASSUME NEW a \in Text
          PROVE  IF f.key = TextOf(a)
                 THEN \E k : k \in 1..Len(s) /\ LastPlace(s, a, k) /\ Coming(q, s, k)
                 ELSE Told(f.entries, s, a)
      <4>1. CASE f.key = TextOf(a)
        <5>1. q.mode = "second"
          BY <2>7, <4>1 DEF AutoKey, Mark, TextOf
        <5>2. PICK k : k \in 1..Len(r) /\ LastPlace(r, a, k) /\ Coming(p, r, k)
          BY <1>3, <2>4, <2>10, <4>1 DEF WrittenOut
        <5>3. k \in Nat /\ t = Mark(p.stack[2].closing)
          BY <1>4, <3>1, <5>2
        <5>4. Means(Array(es), s, k)
          BY <1>2, <1>3, <1>9, <3>1, <5>2, <5>3, ComingEnds
        <5>5. Coming(q, s, k)
          BY <2>4, <3>1, <5>1, <5>4 DEF Coming
        <5>6. LastPlace(s, a, k)
          BY <1>2, <1>3, <1>5, <5>2, SamePlaces
        <5>7. k \in 1..Len(s)
          BY <1>2, <1>3, <5>2, SequentialAppend DEF Sequential
        <5>8. QED
          BY <4>1, <5>5, <5>6, <5>7
      <4>2. CASE f.key # TextOf(a)
        <5>1. Told(f.entries, r, a)
          BY <1>3, <2>4, <2>10, <4>2 DEF WrittenOut
        <5>2. Told(f.entries, s, a)
          BY <1>2, <1>3, <1>5, <5>1, ToldOn
        <5>3. QED
          BY <4>2, <5>2
      <4>3. QED
        BY <4>1, <4>2
    <3>3. WrittenOut(q, s)
      BY <2>7, <3>1, <3>2 DEF WrittenOut
    <3>4. QED
      BY <1>1, <1>2, <1>6, <1>7, <2>7, <2>8, <2>9, <3>3 DEF Writes
  <2>11. CASE n # 1
    <3>1. n > 1 /\ 1 \in 1..n /\ 2 \in 1..n /\ 1 < n /\ (2 < n \/ n = 2) /\ n + 1 > 1 /\ n + 1 # 2
      BY <1>8, <1>11, <2>11
    <3>2. q.stack[1] = p.stack[1] /\ q.stack[2].closing = p.stack[2].closing
      BY <2>4, <2>7, <3>1
    <3>3. ~Fresh(q) /\ ~Fresh(p)
      BY <1>8, <2>7, <3>1 DEF Fresh
    <3>4. Len(p.stack) > 1 /\ Len(q.stack) > 1
      BY <1>8, <2>7, <3>1
    <3>5. WrittenOut(q, s)
      BY <1>2, <2>7, <3>2, <3>3, <3>4, DeepStays
    <3>6. QED
      BY <1>1, <1>2, <1>6, <1>7, <2>7, <2>8, <2>9, <3>5 DEF Writes
  <2>12. QED
    BY <2>10, <2>11
<1>12. QED
  BY <1>10, <1>11

LEMMA EndedWrites ==
    ASSUME NEW p, NEW r, Follows(p, r), p.mode \in {"begun", "comma"}, NEW t, Closes(p, t)
    PROVE  Writes(Ended(p), Append(r, t))
<1>1. p.stack # <<>> /\ t = Mark(Innermost(p).closing)
  BY DEF Closes
<1>2. PICK es : es = Innermost(p).entries
  OBVIOUS
<1>3. PICK b : b = [p EXCEPT !.stack = Front(p.stack)]
  OBVIOUS
<1>4. /\ StackShape(p) /\ Sequential(r) /\ InMode(p, r) /\ WrittenOut(p, r)
      /\ Sequential(p.stack) /\ \A i \in 1..Len(p.stack) : FrameShape(p.stack[i])
  BY DEF Follows, Writes, ParserShape, StackShape
<1>5. /\ Innermost(p) = p.stack[Len(p.stack)] /\ Len(p.stack) \in Nat \ {0}
      /\ GoodFrame(Innermost(p))
  BY <1>1, InnermostIs
<1>6. GoodKeys(es)
  BY <1>2, <1>5 DEF GoodFrame
<1>7. ASSUME Len(p.stack) = 1, NEW a \in Text
      PROVE  Told(es, r, a)
  <2>1. p.stack[1] = Innermost(p) /\ Innermost(p).key = AutoKey
    BY <1>1, <1>4, <1>5, <1>7 DEF InMode
  <2>2. AutoKey # TextOf(a)
    BY DEF AutoKey, Mark, TextOf
  <2>3. QED
    BY <1>1, <1>2, <1>4, <2>1, <2>2 DEF WrittenOut
<1>8. Len(p.stack) = 2 => (es = <<>> <=> Fresh(p))
  BY <1>2, <1>4 DEF InMode, Fresh
<1>9. /\ Sequential(Front(p.stack)) /\ Len(Front(p.stack)) = Len(p.stack) - 1
      /\ \A i \in 1..(Len(p.stack) - 1) : Front(p.stack)[i] = p.stack[i]
  BY <1>1, <1>4, SequentialFront
<1>10. DOMAIN b = DOMAIN p /\ b.stack = Front(p.stack)
  BY <1>3, <1>4 DEF StackShape
<1>11. StackShape(b)
  <2>1. \A i \in 1..(Len(p.stack) - 1) : i \in 1..Len(p.stack)
    BY <1>5
  <2>2. \A i \in 1..Len(b.stack) : FrameShape(b.stack[i])
    BY <1>4, <1>9, <1>10, <2>1
  <2>3. QED
    BY <1>4, <1>9, <1>10, <2>2 DEF StackShape
<1>12. Writes(Completed(b, Array(es)), Append(r, t))
  BY <1>1, <1>6, <1>7, <1>8, <1>9, <1>10, <1>11, ClosedWrites
<1>13. p.mode # "refused"
  OBVIOUS
<1>14. Ended(p) = Completed(b, Array(es))
  BY <1>2, <1>3, <1>13 DEF Ended
<1>15. QED
  BY <1>12, <1>14

LEMMA EndedKeptWrites ==
    ASSUME NEW p, NEW r, Follows(p, r), p.mode \in {"first", "second"}, NEW t, Closes(p, t)
    PROVE  Writes(Ended(Kept(p)), Append(r, t))
<1>1. p.stack # <<>> /\ t = Mark(Innermost(p).closing)
  BY DEF Closes
<1>2. /\ StackShape(p) /\ Sequential(r)
      /\ Sequential(p.stack) /\ \A i \in 1..Len(p.stack) : FrameShape(p.stack[i])
  BY DEF Follows, Writes, ParserShape, StackShape
<1>3. CASE Kept(p) = Refused(p)
  <2>1. Ended(Kept(p)).mode = "refused"
    BY <1>2, <1>3, RefusedShape DEF Ended
  <2>2. QED
    BY <2>1 DEF Writes
<1>4. CASE Kept(p) # Refused(p)
  <2>1. PICK k : k = Kept(p)
    OBVIOUS
  <2>2. PICK f : f = Innermost(p)
    OBVIOUS
  <2>3. PICK g : g = [Frame(f.closing) EXCEPT !.entries = Append(f.entries, Entry(f.key, f.first))]
    OBVIOUS
  <2>4. Becomes(k, p, "kept", g) /\ DOMAIN k = DOMAIN p
    BY <1>1, <1>2, <1>4, <2>1, <2>2, <2>3, KeptIs
  <2>5. Len(p.stack) \in Nat \ {0} /\ GoodFrame(f) /\ FrameShape(f)
    BY <1>1, <2>2, InnermostIs
  <2>6. GoodFrame(g) /\ g.entries = Append(f.entries, Entry(f.key, f.first)) /\ g.entries # <<>>
    BY <2>3, <2>5, KeptFrame
  <2>7. PICK es : es = g.entries
    OBVIOUS
  <2>8. PICK b : b = [k EXCEPT !.stack = Front(k.stack)]
    OBVIOUS
  <2>9. GoodKeys(es)
    BY <2>6, <2>7 DEF GoodFrame
  <2>10. ASSUME Len(p.stack) = 1, NEW a \in Text
         PROVE  Told(es, r, a)
    BY <2>2, <2>6, <2>7, <2>10, KeptTold
  <2>11. Len(p.stack) = 2 => (es = <<>> <=> Fresh(p))
    BY <2>6, <2>7 DEF Fresh
  <2>12. /\ Sequential(k.stack) /\ k.stack # <<>> /\ Len(k.stack) = Len(p.stack)
         /\ Innermost(k) = g /\ k.mode = "kept"
         /\ \A i \in 1..Len(p.stack) : i < Len(p.stack) => k.stack[i] = p.stack[i]
    BY <2>4 DEF Becomes
  <2>13. /\ Sequential(Front(k.stack)) /\ Len(Front(k.stack)) = Len(p.stack) - 1
         /\ \A i \in 1..(Len(p.stack) - 1) : Front(k.stack)[i] = k.stack[i]
    BY <2>12, SequentialFront
  <2>14. DOMAIN b = DOMAIN p /\ b.stack = Front(k.stack)
    BY <1>2, <2>4, <2>8 DEF StackShape
  <2>15. \A i \in 1..(Len(p.stack) - 1) : i \in 1..Len(p.stack) /\ i < Len(p.stack)
    BY <2>5
  <2>16. \A i \in 1..(Len(p.stack) - 1) : b.stack[i] = p.stack[i]
    BY <2>12, <2>13, <2>14, <2>15
  <2>17. StackShape(b)
    <3>1. \A i \in 1..Len(b.stack) : FrameShape(b.stack[i])
      BY <1>2, <2>13, <2>14, <2>15, <2>16
    <3>2. QED
      BY <1>2, <2>13, <2>14, <3>1 DEF StackShape
  <2>18. Writes(Completed(b, Array(es)), Append(r, t))
    BY <1>1, <2>9, <2>10, <2>11, <2>13, <2>14, <2>16, <2>17, ClosedWrites
  <2>19. Ended(Kept(p)) = Completed(b, Array(es))
    BY <2>1, <2>7, <2>8, <2>12 DEF Ended
  <2>20. QED
    BY <2>18, <2>19
<1>5. QED
  BY <1>3, <1>4

LEMMA RefusedWrites ==
    ASSUME NEW p, NEW r, Follows(p, r), NEW s
    PROVE  Writes(Refused(p), s)
<1>1. Refused(p).mode = "refused"
  BY RefusedShape DEF Follows, ParserShape
<1>2. QED
  BY <1>1 DEF Writes

(* The parser keeps what the tokens write down, one by one. *)
LEMMA AfterWrites ==
    ASSUME NEW p, NEW r, Follows(p, r), NEW t
    PROVE  Writes(After(p, t), Append(r, t))
<1>1. CASE ExpectsValue(p)
  <2>1. \/ t \in Scalars /\ AtValue(p, t) = Completed(p, t)
        \/ t = Mark("[") /\ AtValue(p, t) = Begun(p, "]")
        \/ t = Mark("array") /\ AtValue(p, t) = Expecting(p, "array")
        \/ p.mode \in {"begun", "comma"} /\ Closes(p, t) /\ AtValue(p, t) = Ended(p)
        \/ AtValue(p, t) = Refused(p)
    BY DEF AtValue
  <2>2. Writes(AtValue(p, t), Append(r, t))
    <3>1. CASE t \in Scalars /\ AtValue(p, t) = Completed(p, t)
      BY <1>1, <3>1, ScalarWrites
    <3>2. CASE t = Mark("[") /\ AtValue(p, t) = Begun(p, "]")
      BY <1>1, <3>2, BegunWrites
    <3>3. CASE t = Mark("array") /\ AtValue(p, t) = Expecting(p, "array")
      BY <1>1, <3>3, ArrayWordWrites
    <3>4. CASE p.mode \in {"begun", "comma"} /\ Closes(p, t) /\ AtValue(p, t) = Ended(p)
      BY <3>4, EndedWrites
    <3>5. CASE AtValue(p, t) = Refused(p)
      BY <3>5, RefusedWrites
    <3>6. QED
      BY <2>1, <3>1, <3>2, <3>3, <3>4, <3>5
  <2>3. QED
    BY <1>1, <2>2 DEF After
<1>2. CASE ~ExpectsValue(p) /\ p.mode \in {"first", "second"}
  <2>1. \/ p.mode = "first" /\ t = Mark("=>") /\ InEntry(p, t) = Keyed(p)
        \/ t = Mark(",") /\ InEntry(p, t) = Separated(Kept(p))
        \/ Closes(p, t) /\ InEntry(p, t) = Ended(Kept(p))
        \/ InEntry(p, t) = Refused(p)
    BY DEF InEntry
  <2>2. Writes(InEntry(p, t), Append(r, t))
    <3>1. CASE p.mode = "first" /\ t = Mark("=>") /\ InEntry(p, t) = Keyed(p)
      BY <3>1, KeyedWrites
    <3>2. CASE t = Mark(",") /\ InEntry(p, t) = Separated(Kept(p))
      BY <1>2, <3>2, SeparatedWrites
    <3>3. CASE Closes(p, t) /\ InEntry(p, t) = Ended(Kept(p))
      BY <1>2, <3>3, EndedKeptWrites
    <3>4. CASE InEntry(p, t) = Refused(p)
      BY <3>4, RefusedWrites
    <3>5. QED
      BY <2>1, <3>1, <3>2, <3>3, <3>4
  <2>3. QED
    BY <1>2, <2>2 DEF After
<1>3. CASE ~ExpectsValue(p) /\ p.mode = "array" /\ t = Mark("(")
  <2>1. After(p, t) = Begun(p, ")")
    BY <1>3 DEF After
  <2>2. QED
    BY <1>3, <2>1, BegunWrites
<1>4. CASE ~ExpectsValue(p) /\ p.mode \notin {"first", "second"} /\ ~(p.mode = "array" /\ t = Mark("("))
  <2>1. After(p, t) = AroundValue(p, t)
    BY <1>4 DEF After
  <2>2. \/ \E m : /\ AroundValue(p, t) = Expecting(p, m)
                  /\ t \in {Mark("<?php"), Mark("return"), Mark(";"), Mark("eof")}
                  /\ \/ m \in {"opened", "returned"} /\ p.mode \in {"start", "opened"}
                     \/ m \in {"semicolon", "done"} /\ p.mode \in {"value", "semicolon"}
        \/ AroundValue(p, t) = Refused(p)
    BY DEF AroundValue
  <2>3. CASE AroundValue(p, t) = Refused(p)
    BY <2>1, <2>3, RefusedWrites
  <2>4. CASE AroundValue(p, t) # Refused(p)
    <3>1. PICK m : /\ AroundValue(p, t) = Expecting(p, m)
                   /\ t \in {Mark("<?php"), Mark("return"), Mark(";"), Mark("eof")}
                   /\ \/ m \in {"opened", "returned"} /\ p.mode \in {"start", "opened"}
                      \/ m \in {"semicolon", "done"} /\ p.mode \in {"value", "semicolon"}
      BY <2>2, <2>4
    <3>2. t # Mark("=>") /\ t.kind \notin Opening \cup Closing
      <4>1. PICK k \in {"<?php", "return", ";", "eof"} : t = Mark(k)
        BY <3>1
      <4>2. t.kind = k /\ Mark("=>").kind = "=>"
        BY <4>1 DEF Mark
      <4>3. QED
        BY <4>2 DEF Opening, Closing
    <3>3. p.stack = <<>>
      <4>1. InMode(p, r)
        BY DEF Follows, Writes
      <4>2. p.mode \in {"start", "opened", "value", "semicolon"}
        BY <3>1
      <4>3. QED
        BY <4>1, <4>2 DEF InMode
    <3>4. Writes(Expecting(p, m), Append(r, t))
      BY <3>1, <3>2, <3>3, OutsideWrites
    <3>5. QED
      BY <2>1, <3>1, <3>4
  <2>5. QED
    BY <2>3, <2>4
<1>5. QED
  BY <1>1, <1>2, <1>3, <1>4

-----------------------------------------------------------------------------
(* Sequences of some of the elements of another.                           *)

(* What is picked of the first m elements: those in the places, in the     *)
(* order they stand in.                                                    *)
PickedOf(r, s, places, m) ==
    /\ \A i \in 1..Len(r) : \E k \in 1..m : k \in places /\ r[i] = s[k]
    /\ \A i, j \in 1..Len(r) : i < j => \E k, l \in 1..m : k < l /\ l \in places /\ r[i] = s[k] /\ r[j] = s[l]
    /\ \A k \in 1..m : k \in places => \E i \in 1..Len(r) : r[i] = s[k]

LEMMA PickedOfNext ==
    ASSUME NEW S, NEW s, NEW places, NEW m \in Nat, m > 0, s[m] \in S,
           NEW r \in Seq(S), PickedOf(r, s, places, m - 1)
    PROVE  PickedOf(IF m \in places THEN Append(r, s[m]) ELSE r, s, places, m)
<1>1. 1..(m - 1) \subseteq 1..m /\ m \in 1..m /\ \A k \in 1..m : k \in 1..(m - 1) \/ k = m
  OBVIOUS
<1>2. CASE m \notin places
  <2>1. \A i \in 1..Len(r) : \E k \in 1..m : k \in places /\ r[i] = s[k]
    BY <1>1 DEF PickedOf
  <2>2. \A i, j \in 1..Len(r) : i < j => \E k, l \in 1..m : k < l /\ l \in places /\ r[i] = s[k] /\ r[j] = s[l]
    BY <1>1 DEF PickedOf
  <2>3. \A k \in 1..m : k \in places => \E i \in 1..Len(r) : r[i] = s[k]
    BY <1>1, <1>2 DEF PickedOf
  <2>4. PickedOf(r, s, places, m)
    BY <2>1, <2>2, <2>3 DEF PickedOf
  <2>5. QED
    BY <1>2, <2>4
<1>3. CASE m \in places
  <2>1. PICK t : t = Append(r, s[m])
    OBVIOUS
  <2>2. /\ Len(r) \in Nat /\ Len(t) = Len(r) + 1 /\ t[Len(r) + 1] = s[m]
        /\ \A i \in 1..Len(r) : t[i] = r[i]
    BY <2>1
  <2>3. \A i \in 1..Len(t) : i \in 1..Len(r) \/ i = Len(r) + 1
    BY <2>2
  <2>4. Len(r) + 1 \in 1..Len(t) /\ 1..Len(r) \subseteq 1..Len(t)
    BY <2>2
  <2>5. ASSUME NEW i \in 1..Len(t)
        PROVE  \E k \in 1..m : k \in places /\ t[i] = s[k]
    <3>1. CASE i \in 1..Len(r)
      <4>1. PICK k \in 1..(m - 1) : k \in places /\ r[i] = s[k]
        BY <3>1 DEF PickedOf
      <4>2. QED
        BY <1>1, <2>2, <3>1, <4>1
    <3>2. CASE i = Len(r) + 1
      BY <1>1, <1>3, <2>2, <3>2
    <3>3. QED
      BY <2>3, <3>1, <3>2
  <2>6. ASSUME NEW i \in 1..Len(t), NEW j \in 1..Len(t), i < j
        PROVE  \E k, l \in 1..m : k < l /\ l \in places /\ t[i] = s[k] /\ t[j] = s[l]
    <3>1. i \in 1..Len(r)
      BY <2>2, <2>6
    <3>2. CASE j \in 1..Len(r)
      <4>1. PICK k \in 1..(m - 1), l \in 1..(m - 1) : k < l /\ l \in places /\ r[i] = s[k] /\ r[j] = s[l]
        BY <2>6, <3>1, <3>2 DEF PickedOf
      <4>2. QED
        BY <1>1, <2>2, <3>1, <3>2, <4>1
    <3>3. CASE j = Len(r) + 1
      <4>1. PICK k \in 1..(m - 1) : r[i] = s[k]
        BY <3>1 DEF PickedOf
      <4>2. k < m /\ k \in 1..m
        BY <4>1
      <4>3. QED
        BY <1>1, <1>3, <2>2, <3>1, <3>3, <4>1, <4>2
    <3>4. QED
      BY <2>3, <3>2, <3>3
  <2>7. ASSUME NEW k \in 1..m, k \in places
        PROVE  \E i \in 1..Len(t) : t[i] = s[k]
    <3>1. CASE k = m
      BY <2>2, <2>4, <3>1
    <3>2. CASE k \in 1..(m - 1)
      <4>1. PICK i \in 1..Len(r) : r[i] = s[k]
        BY <2>7, <3>2 DEF PickedOf
      <4>2. QED
        BY <2>2, <2>4, <4>1
    <3>3. QED
      BY <1>1, <3>1, <3>2
  <2>8. PickedOf(t, s, places, m)
    BY <2>5, <2>6, <2>7 DEF PickedOf
  <2>9. QED
    BY <1>3, <2>1, <2>8
<1>4. QED
  BY <1>2, <1>3

LEMMA PickedInOrder ==
    ASSUME NEW s, Sequential(s), NEW places
    PROVE  PickedOf(Picked(s, places), s, places, Len(s))
<1> DEFINE n == Len(s)
           S == Elements(s)
<1>1. s \in Seq(S) /\ n \in Nat /\ \A i \in 1..n : s[i] \in S
  BY SequentialIsSeq DEF Sequential, Elements
<1> HIDE DEF S
<1>2. PICK f : Picks(f, S, s, places)
  BY <1>1, PickedStepwise
<1> DEFINE T == {m \in 0..n : PickedOf(f[m], s, places, m)}
<1>3. 0 \in T
  <2>1. f[0] = <<>> /\ Len(<<>>) = 0 /\ 1..0 = {} /\ 0 \in 0..n
    BY <1>1, <1>2 DEF Picks
  <2> HIDE DEF n
  <2>2. PickedOf(f[0], s, places, 0)
    BY <2>1 DEF PickedOf
  <2>3. QED
    BY <2>1, <2>2
<1>4. ASSUME NEW m \in 1..n, m - 1 \in T
      PROVE  m \in T
  <2>1. m \in Nat /\ m > 0 /\ m \in 0..n /\ m - 1 \in 0..n /\ s[m] \in S
    BY <1>1
  <2>2. f[m - 1] \in Seq(S) /\ f[m] = IF m \in places THEN Append(f[m - 1], s[m]) ELSE f[m - 1]
    BY <1>2, <2>1 DEF Picks
  <2>3. PickedOf(f[m - 1], s, places, m - 1)
    BY <1>4
  <2> HIDE DEF T, n
  <2>4. PickedOf(f[m], s, places, m)
    BY <2>1, <2>2, <2>3, PickedOfNext
  <2>5. QED
    BY <2>1, <2>4 DEF T
<1>5. 0..n \subseteq T
  <2> HIDE DEF T
  <2>1. QED
    BY <1>1, <1>3, <1>4, Upwards
<1>6. n \in T
  BY <1>1, <1>5
<1>7. QED
  BY <1>2, <1>6 DEF Picks

(* The first of some places. *)
LEMMA MinOfPlaces ==
    ASSUME NEW n \in Nat, NEW S \in SUBSET (1..n), S # {}
    PROVE  Min(S) \in S /\ \A x \in S : Min(S) <= x
<1> DEFINE T == {n - x : x \in S}
<1>1. \A x \in S : n - x \in 0..n /\ n - x \in Int
  OBVIOUS
<1>2. T \in SUBSET (0..n) /\ T \in SUBSET Int
  BY <1>1
<1>3. T # {}
  <2>1. PICK x \in S : TRUE
    OBVIOUS
  <2>2. n - x \in T
    OBVIOUS
  <2>3. QED
    BY <2>2
<1>4. IsFiniteSet(T)
  <2> HIDE DEF T
  <2>1. IsFiniteSet(0..n)
    BY FS_Interval
  <2>2. QED
    BY <1>2, <2>1, FS_Subset
<1> HIDE DEF T
<1>5. Max(T) \in T /\ \A y \in T : y <= Max(T)
  BY <1>2, <1>3, <1>4, MaxOfFinite
<1>6. PICK m \in S : Max(T) = n - m
  BY <1>5 DEF T
<1>7. \A x \in S : n - x <= n - m
  BY <1>5, <1>6 DEF T
<1>8. \A x \in S : m <= x
  BY <1>7
<1>9. QED
  BY <1>8 DEF Min

(* No element twice. *)
Once(s) == \A i, j \in 1..Len(s) : s[i] = s[j] => i = j

LEMMA PickedElements ==
    ASSUME NEW s, Sequential(s), NEW places
    PROVE  LET r == Picked(s, places)
           IN  /\ Sequential(r)
               /\ \A x : x \in Elements(r) <=> \E k \in 1..Len(s) : k \in places /\ s[k] = x
<1>1. PICK r : r = Picked(s, places)
  OBVIOUS
<1>2. Sequential(r) /\ PickedOf(r, s, places, Len(s))
  BY <1>1, PickedSequential, PickedInOrder
<1>3. /\ \A i \in 1..Len(r) : \E k \in 1..Len(s) : k \in places /\ r[i] = s[k]
      /\ \A k \in 1..Len(s) : k \in places => \E i \in 1..Len(r) : r[i] = s[k]
  BY <1>2 DEF PickedOf
<1>4. \A x : x \in Elements(r) <=> \E k \in 1..Len(s) : k \in places /\ s[k] = x
  BY <1>3 DEF Elements
<1>5. QED
  BY <1>1, <1>2, <1>4

(* What is picked is there once, if none of it stands further on again.    *)
LEMMA PickedOnce ==
    ASSUME NEW s, Sequential(s), NEW places,
           \A k, l \in 1..Len(s) : k < l /\ l \in places => s[k] # s[l]
    PROVE  Once(Picked(s, places))
<1>1. PICK r : r = Picked(s, places)
  OBVIOUS
<1>2. Sequential(r) /\ PickedOf(r, s, places, Len(s)) /\ Len(r) \in Nat
  BY <1>1, PickedSequential, PickedInOrder DEF Sequential
<1>3. ASSUME NEW i \in 1..Len(r), NEW j \in 1..Len(r), i < j
      PROVE  r[i] # r[j]
  <2>1. PICK k, l \in 1..Len(s) : k < l /\ l \in places /\ r[i] = s[k] /\ r[j] = s[l]
    BY <1>2, <1>3 DEF PickedOf
  <2>2. QED
    BY <2>1
<1>4. ASSUME NEW i \in 1..Len(r), NEW j \in 1..Len(r), r[i] = r[j]
      PROVE  i = j
  <2>1. i < j \/ j < i \/ i = j
    BY <1>2
  <2>2. QED
    BY <1>3, <1>4, <2>1
<1>5. QED
  BY <1>1, <1>4 DEF Once

LEMMA OnceIsOnce ==
    ASSUME NEW s, Sequential(s), Once(s)
    PROVE  \A k, l \in 1..Len(s) : k < l => s[k] # s[l]
<1>1. Len(s) \in Nat
  BY DEF Sequential
<1>2. \A k, l \in 1..Len(s) : k < l => k # l
  BY <1>1
<1>3. QED
  BY <1>2 DEF Once

LEMMA ConcatElements ==
    ASSUME NEW s, NEW t, Sequential(s), Sequential(t)
    PROVE  /\ Sequential(s \o t)
           /\ Elements(s \o t) = Elements(s) \cup Elements(t)
           /\ Once(s) /\ Once(t) /\ Elements(s) \cap Elements(t) = {} => Once(s \o t)
<1> DEFINE S == Elements(s) \cup Elements(t)
<1>1. s \in Seq(Elements(s)) /\ t \in Seq(Elements(t))
  BY SequentialIsSeq
<1>2. s \in Seq(S) /\ t \in Seq(S)
  <2>1. Elements(s) \subseteq S /\ Elements(t) \subseteq S
    OBVIOUS
  <2> HIDE DEF S
  <2>2. QED
    BY <1>1, <2>1
<1>3. PICK u : u = s \o t
  OBVIOUS
<1>4. PICK m, n : m = Len(s) /\ n = Len(t)
  OBVIOUS
<1> HIDE DEF S
<1>5. /\ m \in Nat /\ n \in Nat /\ Len(u) = m + n
      /\ \A i \in 1..(m + n) : u[i] = IF i <= m THEN s[i] ELSE t[i - m]
  BY <1>2, <1>3, <1>4, ConcatProperties DEF Sequential
<1>6. Sequential(u)
  BY <1>3, ConcatSequential
<1>7. \A i \in 1..(m + n) : IF i <= m THEN i \in 1..m ELSE i - m \in 1..n /\ i \notin 1..m
  BY <1>5
<1>8. (\A i \in 1..m : i \in 1..(m + n) /\ i <= m)
      /\ (\A j \in 1..n : m + j \in 1..(m + n) /\ ~(m + j <= m) /\ (m + j) - m = j)
  BY <1>5
<1>9. Elements(u) = Elements(s) \cup Elements(t)
  <2>1. ASSUME NEW x \in Elements(u)
        PROVE  x \in Elements(s) \cup Elements(t)
    <3>1. PICK i \in 1..(m + n) : x = u[i]
      BY <1>5 DEF Elements
    <3>2. QED
      BY <1>4, <1>5, <1>7, <3>1 DEF Elements
  <2>2. ASSUME NEW x \in Elements(s)
        PROVE  x \in Elements(u)
    <3>1. PICK i \in 1..m : x = s[i]
      BY <1>4 DEF Elements
    <3>2. u[i] = x /\ i \in 1..Len(u)
      BY <1>5, <1>8, <3>1
    <3>3. QED
      BY <3>2 DEF Elements
  <2>3. ASSUME NEW x \in Elements(t)
        PROVE  x \in Elements(u)
    <3>1. PICK j \in 1..n : x = t[j]
      BY <1>4 DEF Elements
    <3>2. u[m + j] = x /\ m + j \in 1..Len(u)
      BY <1>5, <1>8, <3>1
    <3>3. QED
      BY <3>2 DEF Elements
  <2>4. QED
    BY <2>1, <2>2, <2>3
<1>10. ASSUME Once(s), Once(t), Elements(s) \cap Elements(t) = {}
       PROVE  Once(u)
  <2>1. \A i \in 1..m : s[i] \in Elements(s)
    BY <1>4 DEF Elements
  <2>2. \A i \in 1..n : t[i] \in Elements(t)
    BY <1>4 DEF Elements
  <2>3. ASSUME NEW i \in 1..(m + n), NEW j \in 1..(m + n), u[i] = u[j]
        PROVE  i = j
    <3>1. CASE i <= m /\ j <= m
      BY <1>4, <1>5, <1>7, <1>10, <2>3, <3>1 DEF Once
    <3>2. CASE ~(i <= m) /\ ~(j <= m)
      <4>1. i - m \in 1..n /\ j - m \in 1..n /\ t[i - m] = t[j - m]
        BY <1>5, <1>7, <2>3, <3>2
      <4>2. i - m = j - m
        BY <1>4, <1>10, <4>1 DEF Once
      <4>3. QED
        BY <1>5, <4>2
    <3>3. CASE i <= m /\ ~(j <= m)
      BY <1>5, <1>7, <1>10, <2>1, <2>2, <2>3, <3>3
    <3>4. CASE ~(i <= m) /\ j <= m
      BY <1>5, <1>7, <1>10, <2>1, <2>2, <2>3, <3>4
    <3>5. QED
      BY <3>1, <3>2, <3>3, <3>4
  <2>4. QED
    BY <1>5, <2>3 DEF Once
<1>11. QED
  BY <1>3, <1>6, <1>9, <1>10

LEMMA RangeElements ==
    ASSUME NEW s, Sequential(s)
    PROVE  Range(s) = Elements(s)
BY SequentialIsSeq DEF Range, Elements

-----------------------------------------------------------------------------
(* What is turned on and there, from the parsed array and the manifests.   *)

(* The keys of a mapping, each once. *)
LEMMA KeysAre ==
    ASSUME NEW v, Sequential(v.entries)
    PROVE  Sequential(Keys(v)) /\ Once(Keys(v)) /\ \A a : a \in Elements(Keys(v)) <=> Has(v, a)
<1> DEFINE keys == [i \in DOMAIN v.entries |-> KeyAt(v, i)]
           places == {i \in DOMAIN keys : \A j \in 1..(i - 1) : keys[j] # keys[i]}
<1>1. DOMAIN v.entries = 1..Len(v.entries) /\ Len(v.entries) \in Nat
  BY SequentialIsSeq DEF Sequential
<1>2. Sequential(keys) /\ Len(keys) = Len(v.entries)
  <2>1. DOMAIN keys = DOMAIN v.entries /\ keys = [i \in DOMAIN keys |-> keys[i]]
    OBVIOUS
  <2>2. Len(keys) = Len(v.entries)
    BY <1>1
  <2> HIDE DEF keys
  <2>3. QED
    BY <2>1, <2>2, MappedSequential
<1>3. DOMAIN keys = 1..Len(keys) /\ Len(keys) \in Nat
  BY <1>1, <1>2
<1>4. \A a : Has(v, a) <=> \E i \in 1..Len(keys) : keys[i] = a
  BY <1>1, <1>2 DEF Has
<1>5. Keys(v) = Picked(keys, places)
  BY DEF Keys
<1> HIDE DEF keys
<1>6. Once(Picked(keys, places))
  <2>1. ASSUME NEW k \in 1..Len(keys), NEW l \in 1..Len(keys), k < l, l \in places
        PROVE  keys[k] # keys[l]
    <3>1. k \in 1..(l - 1)
      BY <1>3, <2>1
    <3>2. QED
      BY <2>1, <3>1
  <2> HIDE DEF places
  <2>2. QED
    BY <1>2, <2>1, PickedOnce
<1>7. ASSUME NEW i \in 1..Len(keys)
      PROVE  \E k \in 1..Len(keys) : k \in places /\ keys[k] = keys[i]
  <2> DEFINE S == {k \in 1..Len(keys) : keys[k] = keys[i]}
  <2>1. S \in SUBSET (1..Len(keys)) /\ S # {}
    OBVIOUS
  <2> HIDE DEF S
  <2>2. Min(S) \in S /\ \A x \in S : Min(S) <= x
    BY <1>3, <2>1, MinOfPlaces
  <2>3. PICK k : k = Min(S)
    OBVIOUS
  <2>4. k \in 1..Len(keys) /\ keys[k] = keys[i]
    BY <2>2, <2>3 DEF S
  <2>5. ASSUME NEW j \in 1..(k - 1)
        PROVE  keys[j] # keys[k]
    <3>1. j \in 1..Len(keys) /\ ~(k <= j)
      BY <1>3, <2>4
    <3>2. j \notin S
      BY <2>2, <2>3, <3>1
    <3>3. QED
      BY <2>4, <3>1, <3>2 DEF S
  <2>6. k \in places
    BY <1>3, <2>4, <2>5
  <2>7. QED
    BY <2>4, <2>6
<1> HIDE DEF places
<1>8. /\ Sequential(Picked(keys, places))
      /\ \A x : x \in Elements(Picked(keys, places)) <=> \E k \in 1..Len(keys) : k \in places /\ keys[k] = x
  BY <1>2, PickedElements
<1>9. \A a : a \in Elements(Picked(keys, places)) <=> Has(v, a)
  BY <1>4, <1>7, <1>8
<1>10. QED
  BY <1>5, <1>6, <1>8, <1>9

(* What is always turned on. *)
Always(forced) == {"webasyst"} \cup IF forced THEN {"installer"} ELSE {}

LEMMA AlwaysAre ==
    ASSUME NEW forced
    PROVE  LET s == <<"webasyst">> \o IF forced THEN <<"installer">> ELSE <<>>
           IN  Sequential(s) /\ Once(s) /\ Elements(s) = Always(forced)
<1>1. PICK u : u = IF forced THEN <<"installer">> ELSE <<>>
  OBVIOUS
<1>2. PICK w : w = <<"webasyst">>
  OBVIOUS
<1>3. Sequential(w) /\ Once(w) /\ Elements(w) = {"webasyst"}
  <2>1. Len(w) = 1 /\ w[1] = "webasyst" /\ 1..1 = {1} /\ w = [i \in 1..1 |-> w[i]]
    BY <1>2
  <2>2. QED
    BY <2>1 DEF Sequential, Once, Elements
<1>4. Sequential(u) /\ Once(u) /\ Elements(u) = IF forced THEN {"installer"} ELSE {}
  <2>1. CASE forced
    <3>1. Len(u) = 1 /\ u[1] = "installer" /\ 1..1 = {1} /\ u = [i \in 1..1 |-> u[i]]
      BY <1>1, <2>1
    <3>2. QED
      BY <2>1, <3>1 DEF Sequential, Once, Elements
  <2>2. CASE ~forced
    <3>1. u = <<>> /\ Len(u) = 0 /\ 1..0 = {}
      BY <1>1, <2>2
    <3>2. QED
      BY <2>2, <3>1 DEF Sequential, Once, Elements
  <2>3. QED
    BY <2>1, <2>2
<1>5. Elements(w) \cap Elements(u) = {}
  BY <1>3, <1>4
<1>6. Sequential(w \o u) /\ Once(w \o u) /\ Elements(w \o u) = Always(forced)
  <2>1. Elements(w) \cup Elements(u) = Always(forced)
    BY <1>3, <1>4 DEF Always
  <2>2. QED
    BY <1>3, <1>4, <1>5, <2>1, ConcatElements
<1>7. QED
  BY <1>1, <1>2, <1>6

(* The applications that are turned on, each once. *)
LEMMA ConfiguredAre ==
    ASSUME NEW file, Sequential(file.entries), NEW forced
    PROVE  /\ Sequential(Configured(file, forced)) /\ Once(Configured(file, forced))
           /\ \A a : a \in Elements(Configured(file, forced)) <=>
                         a \in Always(forced) \/ (Has(file, a) /\ Truthy(At(file, a)))
<1> DEFINE s == <<"webasyst">> \o IF forced THEN <<"installer">> ELSE <<>>
           added == {i \in DOMAIN s : ~Has(file, s[i])}
           others == Picked(s, added)
           keys == Keys(file) \o others
           places == {i \in DOMAIN keys : keys[i] \in Range(s) \/ Truthy(At(file, keys[i]))}
<1>1. Sequential(s) /\ Once(s) /\ Elements(s) = Always(forced)
  BY AlwaysAre
<1> HIDE DEF s
<1>2. DOMAIN s = 1..Len(s) /\ Range(s) = Always(forced)
  BY <1>1, SequentialIsSeq, RangeElements
<1>3. /\ Sequential(others) /\ Once(others)
      /\ \A a : a \in Elements(others) <=> a \in Always(forced) /\ ~Has(file, a)
  <2>1. \A k, l \in 1..Len(s) : k < l /\ l \in added => s[k] # s[l]
    BY <1>1, OnceIsOnce
  <2>2. \A k \in 1..Len(s) : k \in added <=> ~Has(file, s[k])
    BY <1>2
  <2> HIDE DEF added
  <2>3. Once(others)
    BY <1>1, <2>1, PickedOnce
  <2>4. Sequential(others) /\ \A a : a \in Elements(others) <=> \E k \in 1..Len(s) : k \in added /\ s[k] = a
    BY <1>1, PickedElements
  <2>5. \A a : a \in Always(forced) <=> \E k \in 1..Len(s) : s[k] = a
    BY <1>1 DEF Elements
  <2> HIDE DEF others
  <2>6. QED
    BY <2>2, <2>3, <2>4, <2>5
<1> HIDE DEF others, added
<1>4. /\ Sequential(Keys(file)) /\ Once(Keys(file))
      /\ \A a : a \in Elements(Keys(file)) <=> Has(file, a)
  BY KeysAre
<1>5. Elements(Keys(file)) \cap Elements(others) = {}
  BY <1>3, <1>4
<1>6. /\ Sequential(keys) /\ Once(keys)
      /\ \A a : a \in Elements(keys) <=> a \in Always(forced) \/ Has(file, a)
  BY <1>3, <1>4, <1>5, ConcatElements
<1> HIDE DEF keys
<1>7. DOMAIN keys = 1..Len(keys)
  BY <1>6, SequentialIsSeq
<1>8. \A k \in 1..Len(keys) : k \in places <=> keys[k] \in Always(forced) \/ Truthy(At(file, keys[k]))
  BY <1>2, <1>7
<1>9. Configured(file, forced) = Picked(keys, places)
  BY DEF Configured, keys, others, added, s
<1> HIDE DEF places
<1>10. PICK r : r = Configured(file, forced)
  OBVIOUS
<1>11. Sequential(r) /\ \A a : a \in Elements(r) <=> \E k \in 1..Len(keys) : k \in places /\ keys[k] = a
  BY <1>6, <1>9, <1>10, PickedElements
<1>12. Once(r)
  <2>1. \A k, l \in 1..Len(keys) : k < l /\ l \in places => keys[k] # keys[l]
    BY <1>6, OnceIsOnce
  <2>2. QED
    BY <1>6, <1>9, <1>10, <2>1, PickedOnce
<1>13. ASSUME NEW a
       PROVE  a \in Elements(r) <=> a \in Always(forced) \/ (Has(file, a) /\ Truthy(At(file, a)))
  <2>1. a \in Elements(keys) <=> \E k \in 1..Len(keys) : keys[k] = a
    BY DEF Elements
  <2>2. a \in Elements(r) <=> a \in Elements(keys) /\ (a \in Always(forced) \/ Truthy(At(file, a)))
    BY <1>8, <1>11, <2>1
  <2>3. QED
    BY <1>6, <2>2
<1>14. QED
  BY <1>10, <1>11, <1>12, <1>13

LEMMA PresentAre ==
    ASSUME NEW ids, Sequential(ids), Once(ids), NEW manifests
    PROVE  /\ Sequential(Present(ids, manifests)) /\ Once(Present(ids, manifests))
           /\ \A a : a \in Elements(Present(ids, manifests)) <=>
                         a \in Elements(ids) /\ manifests[a] # Absent
<1> DEFINE places == {i \in DOMAIN ids : manifests[ids[i]] # Absent}
<1>1. \A k \in 1..Len(ids) : k \in places <=> manifests[ids[k]] # Absent
  BY SequentialIsSeq
<1>2. \A k, l \in 1..Len(ids) : k < l /\ l \in places => ids[k] # ids[l]
  BY OnceIsOnce
<1>3. Present(ids, manifests) = Picked(ids, places)
  BY DEF Present
<1> HIDE DEF places
<1>4. PICK r : r = Present(ids, manifests)
  OBVIOUS
<1>5. Sequential(r) /\ \A a : a \in Elements(r) <=> \E k \in 1..Len(ids) : k \in places /\ ids[k] = a
  BY <1>3, <1>4, PickedElements
<1>6. Once(r)
  BY <1>2, <1>3, <1>4, PickedOnce
<1>7. \A a : a \in Elements(r) <=> a \in Elements(ids) /\ manifests[a] # Absent
  BY <1>1, <1>5 DEF Elements
<1>8. QED
  BY <1>4, <1>5, <1>6, <1>7

(* The last entry with a key. *)
LEMMA AtLast ==
    ASSUME NEW v, Sequential(v.entries), NEW a, Has(v, a)
    PROVE  \E i \in 1..Len(v.entries) :
              /\ KeyAt(v, i) = a /\ At(v, a) = v.entries[i].value
              /\ \A j \in 1..Len(v.entries) : j > i => KeyAt(v, j) # a
<1> DEFINE S == {i \in DOMAIN v.entries : KeyAt(v, i) = a}
<1>1. DOMAIN v.entries = 1..Len(v.entries) /\ Len(v.entries) \in Nat
  BY SequentialIsSeq DEF Sequential
<1>2. S \in SUBSET (1..Len(v.entries)) /\ S \in SUBSET Int /\ S # {}
  BY <1>1 DEF Has
<1>3. At(v, a) = v.entries[Max(S)].value
  BY DEF At
<1>4. \A j \in 1..Len(v.entries) : j \in S <=> KeyAt(v, j) = a
  BY <1>1
<1> HIDE DEF S
<1>5. IsFiniteSet(S)
  <2>1. IsFiniteSet(1..Len(v.entries))
    BY <1>1, FS_Interval
  <2>2. QED
    BY <1>2, <2>1, FS_Subset
<1>6. PICK i : i = Max(S)
  OBVIOUS
<1>7. i \in S /\ \A x \in S : x <= i
  BY <1>2, <1>5, <1>6, MaxOfFinite
<1>8. i \in 1..Len(v.entries) /\ KeyAt(v, i) = a
  BY <1>2, <1>4, <1>7
<1>9. ASSUME NEW j \in 1..Len(v.entries), j > i
      PROVE  KeyAt(v, j) # a
  <2>1. ~(j <= i)
    BY <1>8, <1>9
  <2>2. QED
    BY <1>4, <1>7, <2>1
<1>10. QED
  BY <1>3, <1>6, <1>8, <1>9

(* The last place where a key is written. *)
LEMMA LastOfPlaces ==
    ASSUME NEW r, Sequential(r), NEW a, NEW k, LastPlace(r, a, k)
    PROVE  Max(KeyPlaces(r, a)) = k
<1> DEFINE S == KeyPlaces(r, a)
<1>1. S \in SUBSET (1..(Len(r) - 1)) /\ S \in SUBSET Int /\ Len(r) - 1 \in Int
  BY DEF KeyPlaces, Sequential
<1>2. k \in S /\ \A l \in S : l <= k
  BY DEF LastPlace
<1> HIDE DEF S
<1>3. IsFiniteSet(S) /\ S # {}
  <2>1. IsFiniteSet(1..(Len(r) - 1))
    BY <1>1, FS_Interval
  <2>2. QED
    BY <1>1, <1>2, <2>1, FS_Subset
<1>4. Max(S) \in S /\ \A x \in S : x <= Max(S)
  BY <1>1, <1>3, MaxOfFinite
<1>5. Max(S) <= k /\ k <= Max(S) /\ Max(S) \in Int /\ k \in Int
  BY <1>1, <1>2, <1>4
<1>6. QED
  BY <1>5 DEF S

(* An array says of an application what is written of it last. *)
LEMMA SaidAsWritten ==
    ASSUME NEW r, Sequential(r), NEW v, Sequential(v.entries), GoodKeys(v.entries), IsMapping(v),
           NEW a \in Text, Told(v.entries, r, a)
    PROVE  Has(v, a) /\ Truthy(At(v, a)) <=> KeyPlaces(r, a) # {} /\ Yes(r, Max(KeyPlaces(r, a)))
<1> DEFINE es == v.entries
<1>1. DOMAIN es = 1..Len(es) /\ Len(es) \in Nat
  BY SequentialIsSeq DEF Sequential
<1>2. ASSUME NEW i \in 1..Len(es)
      PROVE  KeyAt(v, i) = a <=> es[i].key = TextOf(a)
  <2>1. es[i].key \in KeyTokens /\ es[i].key.kind = "text"
    BY <1>1 DEF GoodKeys, IsMapping
  <2>2. es[i].key \in Texts
    BY <2>1 DEF KeyTokens, Numbers, AutoKey, Mark
  <2>3. PICK x \in Text : es[i].key = [kind |-> "text", value |-> x]
    BY <2>2 DEF Texts
  <2>4. QED
    BY <2>3 DEF KeyAt, TextOf
<1>3. Has(v, a) <=> \E i \in 1..Len(es) : es[i].key = TextOf(a)
  BY <1>1, <1>2 DEF Has
<1>4. CASE KeyPlaces(r, a) = {} /\ \A i \in 1..Len(es) : es[i].key # TextOf(a)
  BY <1>3, <1>4
<1>5. CASE \E i \in 1..Len(es), k \in KeyPlaces(r, a) :
              LastEntry(es, a, i) /\ LastPlace(r, a, k) /\ Means(es[i].value, r, k)
  <2>1. PICK i \in 1..Len(es), k \in KeyPlaces(r, a) :
              LastEntry(es, a, i) /\ LastPlace(r, a, k) /\ Means(es[i].value, r, k)
    BY <1>5
  <2>2. Max(KeyPlaces(r, a)) = k
    BY <2>1, LastOfPlaces
  <2>3. es[i].key = TextOf(a) /\ \A j \in 1..Len(es) : j > i => es[j].key # TextOf(a)
    BY <2>1 DEF LastEntry
  <2>4. Has(v, a)
    BY <1>3, <2>3
  <2>5. PICK j \in 1..Len(es) :
              /\ KeyAt(v, j) = a /\ At(v, a) = es[j].value
              /\ \A l \in 1..Len(es) : l > j => KeyAt(v, l) # a
    BY <2>4, AtLast
  <2>6. es[j].key = TextOf(a) /\ KeyAt(v, i) = a
    BY <1>2, <2>3, <2>5
  <2>7. ~(j > i) /\ ~(i > j)
    BY <2>3, <2>5, <2>6
  <2>8. i = j
    BY <1>1, <2>7
  <2>9. Truthy(At(v, a)) <=> Yes(r, k)
    BY <2>1, <2>5, <2>8 DEF Means
  <2>10. QED
    BY <2>2, <2>4, <2>9
<1>6. QED
  BY <1>4, <1>5 DEF Told

-----------------------------------------------------------------------------
(* The inductive invariant of the files and of the catalog.                *)

(* What the parser keeps is what the file says, so far as it is read.      *)
KeepsWhatIsRead(p) ==
    /\ Sequential(p.read)
    /\ \A i \in 1..Len(p.read) : p.read[i] \in AllTokens
    /\ Writes(p, p.read)

(* The catalog is that of the array the parser has returned, and of the    *)
(* manifests on the disk.                                                  *)
CatalogIsThatOf(c, p) ==
    LET acceptable == AcceptableApps(p.value, c.disk.manifests, c.disk.installer)
    IN  /\ c.status \in {"none", "built", "failed"}
        /\ c.status = "built" =>
              /\ c.disk \in Disk /\ p.mode = "done" /\ acceptable
              /\ c.apps = InstalledApps(p.value, c.disk.manifests, c.disk.installer)
        /\ c.status = "failed" /\ p.mode = "done" => ~acceptable /\ c.disk \in Disk

CatalogInv ==
    /\ FilesRead
    /\ KeepsWhatIsRead(parser)
    /\ CatalogIsThatOf(catalog, parser)

LEMMA NothingRead == KeepsWhatIsRead(NewParser) /\ CatalogIsThatOf(NoCatalog, NewParser)
<1>1. /\ NewParser.mode = "start" /\ NewParser.stack = <<>> /\ NewParser.read = <<>>
      /\ NoCatalog.status = "none"
  BY DEF NewParser, NoCatalog
<1>2. Len(<<>>) = 0 /\ 1..0 = {} /\ 1..(0 - 1) = {}
  OBVIOUS
<1>3. DepthAt(<<>>, 0) = 0
  BY NumberOfNothing DEF DepthAt
<1>4. \A a \in Text : Told(<<>>, <<>>, a)
  BY <1>2 DEF Told, KeyPlaces
<1>5. WrittenOut(NewParser, <<>>)
  BY <1>1, <1>4 DEF WrittenOut
<1>6. InMode(NewParser, <<>>)
  BY <1>1 DEF InMode
<1>7. Writes(NewParser, <<>>)
  BY <1>1, <1>2, <1>3, <1>5, <1>6 DEF Writes
<1>8. Sequential(<<>>)
  BY EmptyModules
<1>9. QED
  BY <1>1, <1>2, <1>7, <1>8 DEF KeepsWhatIsRead, CatalogIsThatOf

LEMMA ReadTokenKeeps ==
    ASSUME ParserShape(parser), KeepsWhatIsRead(parser), NEW t \in Token, ReadToken(t)
    PROVE  KeepsWhatIsRead(parser')
<1>1. PICK r : r = parser.read
  OBVIOUS
<1>2. PICK s : s = Append(r, t)
  OBVIOUS
<1>3. PICK p : p = IF Len(s) > MaxTokens THEN Refused(parser) ELSE After(parser, t)
  OBVIOUS
<1>4. parser' = [p EXCEPT !.read = s] /\ Reading
  BY <1>1, <1>2, <1>3 DEF ReadToken
<1>5. Follows(parser, r) /\ t \in AllTokens
  BY <1>1, <1>4, PhpConfigAssumption DEF Follows, KeepsWhatIsRead, Reading
<1>6. Writes(p, s)
  <2>1. Writes(After(parser, t), s) /\ Writes(Refused(parser), s)
    BY <1>2, <1>5, AfterWrites, RefusedWrites
  <2>2. QED
    BY <1>3, <2>1
<1>7. ParserShape(p)
  BY <1>3, AfterShape, RefusedShape DEF ParserShape
<1>8. /\ parser'.read = s /\ parser'.mode = p.mode
      /\ parser'.stack = p.stack /\ parser'.value = p.value
  BY <1>4, <1>7 DEF ParserShape, StackShape
<1>9. Writes(parser', s)
  BY <1>6, <1>8 DEF Writes, InMode, WrittenOut, Coming, Fresh, Innermost
<1>10. Sequential(s) /\ \A i \in 1..Len(s) : s[i] \in AllTokens
  BY <1>2, <1>5, DepthFollows
<1>11. QED
  BY <1>8, <1>9, <1>10 DEF KeepsWhatIsRead

(* A file that is parsed returns a value: it is there, and not broken.     *)
LEMMA ParsedIsThere ==
    ASSUME KeepsWhatIsRead(parser), parser.mode = "done"
    PROVE  parser.value \notin {Absent, Broken}
<1>1. WrittenOut(parser, parser.read) /\ parser.stack = <<>>
  BY DEF KeepsWhatIsRead, Writes, InMode
<1>2. parser.value \in Scalars \/ parser.value = Array(parser.value.entries)
  BY <1>1 DEF WrittenOut
<1>3. Absent.kind = "absent" /\ Broken.kind = "broken"
  BY DEF Absent, Broken, Mark
<1>4. CASE parser.value \in Scalars
  <2>1. parser.value.kind \in {"text", "int", "float", "true", "false", "null"}
    BY <1>4 DEF Scalars, Texts, Numbers, Floats, Mark
  <2>2. QED
    BY <1>3, <2>1
<1>5. CASE parser.value = Array(parser.value.entries)
  <2>1. parser.value.kind = "array"
    BY <1>5 DEF Array
  <2>2. QED
    BY <1>3, <2>1
<1>6. QED
  BY <1>2, <1>4, <1>5

LEMMA BuildCatalogKeeps ==
    ASSUME KeepsWhatIsRead(parser), NEW disk \in Disk, BuildCatalog(disk)
    PROVE  CatalogIsThatOf(catalog', parser)
<1> DEFINE file == IF ~disk.configured THEN Absent
                   ELSE IF parser.mode = "done" THEN parser.value ELSE Broken
           acceptable == AcceptableApps(file, disk.manifests, disk.installer)
           installed == InstalledApps(file, disk.manifests, disk.installer)
<1>1. CASE acceptable
  <2>1. file \notin {Absent, Broken}
    BY <1>1 DEF AcceptableApps
  <2>2. parser.mode = "done" /\ file = parser.value
    BY <2>1
  <2>3. catalog' = [status |-> "built", disk |-> disk, apps |-> installed]
    BY <1>1 DEF BuildCatalog
  <2> HIDE DEF file
  <2>4. catalog'.status = "built" /\ catalog'.disk = disk /\ catalog'.apps = installed
    BY <2>3
  <2>5. QED
    BY <1>1, <2>2, <2>4 DEF CatalogIsThatOf
<1>2. CASE ~acceptable
  <2>1. PICK d : /\ catalog' = [NoCatalog EXCEPT !.status = "failed", !.disk = d]
                 /\ d = IF file \in {Absent, Broken} THEN Nil ELSE disk
    BY <1>2 DEF BuildCatalog
  <2>2. catalog'.status = "failed" /\ catalog'.disk = d
    BY <2>1 DEF NoCatalog
  <2>3. CASE parser.mode = "done"
    <3>1. disk.configured
      BY <2>3 DEF BuildCatalog, NewParser
    <3>2. file = parser.value
      BY <2>3, <3>1
    <3> HIDE DEF file
    <3>3. d = disk
      BY <2>1, <2>3, <3>2, ParsedIsThere
    <3>4. ~AcceptableApps(parser.value, d.manifests, d.installer)
      BY <1>2, <3>2, <3>3
    <3>5. QED
      BY <2>2, <3>3, <3>4 DEF CatalogIsThatOf
  <2>4. CASE parser.mode # "done"
    BY <2>2, <2>4 DEF CatalogIsThatOf
  <2>5. QED
    BY <2>3, <2>4
<1>3. QED
  BY <1>1, <1>2

LEMMA CatalogInvInit == Init => CatalogInv
<1>1. Init => LinkerInv
  BY LinkerInvInit
<1>2. Init => parser = NewParser /\ catalog = NoCatalog
  BY DEF Init, ParserInit, CatalogInit
<1>3. QED
  BY <1>1, <1>2, NothingRead DEF CatalogInv, LinkerInv

LEMMA CatalogInvNext == CatalogInv /\ [Next]_vars => CatalogInv'
<1> SUFFICES ASSUME CatalogInv, [Next]_vars
             PROVE  CatalogInv'
  OBVIOUS
<1>1. FilesRead'
  BY FilesReadNext DEF CatalogInv
<1>2. SUFFICES KeepsWhatIsRead(parser') /\ CatalogIsThatOf(catalog', parser')
  BY <1>1 DEF CatalogInv
<1>3. CASE UNCHANGED <<parser, catalog>>
  BY <1>3 DEF CatalogInv
<1>4. ASSUME NEW t \in Token, ReadFile(t)
      PROVE  KeepsWhatIsRead(parser') /\ CatalogIsThatOf(catalog', parser')
  <2>1. ReadToken(t) /\ catalog' = NoCatalog
    BY <1>4 DEF ReadFile
  <2>2. KeepsWhatIsRead(parser')
    BY <2>1, ReadTokenKeeps DEF CatalogInv, FilesRead
  <2>3. catalog'.status = "none"
    BY <2>1 DEF NoCatalog
  <2>4. CatalogIsThatOf(catalog', parser')
    BY <2>3 DEF CatalogIsThatOf
  <2>5. QED
    BY <2>2, <2>4
<1>5. ASSUME NEW disk \in Disk, Build(disk)
      PROVE  KeepsWhatIsRead(parser') /\ CatalogIsThatOf(catalog', parser')
  <2>1. BuildCatalog(disk) /\ parser' = parser
    BY <1>5 DEF Build, BuildCatalog
  <2>2. QED
    BY <2>1, BuildCatalogKeeps DEF CatalogInv
<1>6. ASSUME NEW from \in Source, Create(from)
      PROVE  KeepsWhatIsRead(parser') /\ CatalogIsThatOf(catalog', parser')
  <2>1. parser' = NewParser /\ catalog' = NoCatalog
    BY <1>6 DEF Create
  <2>2. QED
    BY <2>1, NothingRead
<1>7. CASE Restart
  <2>1. parser' = NewParser /\ catalog' = NoCatalog
    BY <1>7 DEF Restart
  <2>2. QED
    BY <2>1, NothingRead
<1>8. CASE Enter \/ Boots
  <2>1. UNCHANGED <<parser, catalog>>
    BY <1>8 DEF Enter, Initialize, Boots, ReadPlugins, BuildModules, Link, Register, Finish, fileVars
  <2>2. QED
    BY <1>3, <2>1
<1>9. CASE Events \/ Route \/ AnswerRouted
  <2>1. UNCHANGED <<parser, catalog>>
    BY <1>9 DEF Events, Publish, EventStep, CallHandler, Handle, HandleUnsupported, RelayEvent,
                EndDispatch, EndsWith, TakeReport,
                CancelDispatch, Route, RouteRequest, AnswerRouted, AnswerRequest, fileVars, linkerVars
  <2>2. QED
    BY <1>3, <2>1
<1>10. CASE Receive \/ Call \/ Disturb
  <2>1. UNCHANGED fileVars
    BY <1>10, ApiStepReads DEF Receive, ReceiveCall, Call, Disturb, Interfere
  <2>2. QED
    BY <1>3, <2>1 DEF fileVars
<1>11. CASE UNCHANGED vars
  BY <1>3, <1>11 DEF vars, fileVars
<1>12. QED
  BY <1>4, <1>5, <1>6, <1>7, <1>8, <1>9, <1>10, <1>11 DEF Next

(* The parser and the catalog keep what the files say: in every state of a *)
(* process, whatever is read.                                              *)
THEOREM CatalogInvariant == Spec => []CatalogInv
<1>1. Init => CatalogInv
  BY CatalogInvInit
<1>2. CatalogInv /\ [Next]_vars => CatalogInv'
  BY CatalogInvNext
<1>3. QED
  BY <1>1, <1>2, PTL DEF Spec

-----------------------------------------------------------------------------
(* The catalog is as the files say.                                        *)

(* What is turned on, by the tokens, is what the parsed array turns on.    *)
LEMMA TurnedOnAsParsed ==
    ASSUME FilesRead, KeepsWhatIsRead(parser), parser.mode = "done", IsMapping(parser.value),
           NEW a \in Text
    PROVE  TurnedOn(a) <=> a \in Elements(Configured(parser.value, catalog.disk.installer))
<1> DEFINE r == parser.read
           v == parser.value
<1>1. /\ WrittenOut(parser, r) /\ parser.stack = <<>> /\ Sequential(r) /\ Len(r) \in Nat
  BY DEF KeepsWhatIsRead, Writes, InMode, Sequential
<1>2. Sequential(v.entries)
  BY DEF FilesRead, ParserShape, ValueShape, IsMapping
<1>3. GoodKeys(v.entries) /\ Told(v.entries, r, a)
  <2>1. v \notin Scalars
    BY DEF IsMapping, Scalars, Texts, Numbers, Floats, Mark
  <2>2. QED
    BY <1>1, <2>1 DEF WrittenOut
<1>4. Mentions(a) = KeyPlaces(r, a)
  <2>1. \A k : k \in KeyPlaces(r, a) => k + 2 <= Len(r)
    <3>1. CASE KeyPlaces(r, a) = {}
      BY <3>1
    <3>2. CASE KeyPlaces(r, a) # {}
      <4>1. PICK i \in 1..Len(v.entries), k \in KeyPlaces(r, a) :
                LastPlace(r, a, k) /\ Means(v.entries[i].value, r, k)
        BY <1>3, <3>2 DEF Told
      <4>2. k + 2 <= Len(r) /\ \A l \in KeyPlaces(r, a) : l <= k
        BY <4>1 DEF LastPlace, Means, Uttered
      <4>3. \A l \in KeyPlaces(r, a) : l \in Nat
        BY DEF KeyPlaces
      <4>4. \A l \in KeyPlaces(r, a) : l + 2 <= Len(r)
        BY <1>1, <4>2, <4>3
      <4>5. QED
        BY <4>4
    <3>3. QED
      BY <3>1, <3>2
  <2>2. \A k : k \in 1..(Len(r) - 2) <=> k \in 1..(Len(r) - 1) /\ k + 2 <= Len(r)
    BY <1>1
  <2>3. \A k : DepthAt(r, k) = Count({"[", "("}, k) - Count({"]", ")"}, k)
    BY DEF DepthAt, NumberOf, Count, Opening, Closing
  <2>4. Mentions(a) = {k \in 1..(Len(r) - 2) : r[k] = TextOf(a) /\ r[k + 1] = Mark("=>") /\ DepthAt(r, k) = 1}
    BY <2>3 DEF Mentions, TextOf
  <2> HIDE DEF r
  <2>5. \A k : k \in Mentions(a) <=> k \in KeyPlaces(r, a)
    BY <2>1, <2>2, <2>4 DEF KeyPlaces
  <2>6. QED
    BY <2>5
<1>5. \A k : SaysYes(k) <=> Yes(r, k)
  BY DEF SaysYes, Yes
<1>6. Forced = Always(catalog.disk.installer)
  BY DEF Forced, Always
<1>7. Has(v, a) /\ Truthy(At(v, a)) <=> KeyPlaces(r, a) # {} /\ Yes(r, Max(KeyPlaces(r, a)))
  BY <1>1, <1>2, <1>3, SaidAsWritten
<1>8. TurnedOn(a) <=> a \in Always(catalog.disk.installer) \/ (Has(v, a) /\ Truthy(At(v, a)))
  BY <1>4, <1>5, <1>6, <1>7 DEF TurnedOn
<1>9. QED
  BY <1>2, <1>8, ConfiguredAre

(* Every application that may be turned on is a text. *)
LEMMA ConfiguredTexts ==
    ASSUME FilesRead, KeepsWhatIsRead(parser), parser.mode = "done", IsMapping(parser.value), NEW forced
    PROVE  Elements(Configured(parser.value, forced)) \subseteq Text
<1> DEFINE v == parser.value
<1>1. Sequential(v.entries)
  BY DEF FilesRead, ParserShape, ValueShape, IsMapping
<1>2. GoodKeys(v.entries)
  <2>1. v \notin Scalars
    BY DEF IsMapping, Scalars, Texts, Numbers, Floats, Mark
  <2>2. WrittenOut(parser, parser.read) /\ parser.stack = <<>>
    BY DEF KeepsWhatIsRead, Writes, InMode
  <2>3. QED
    BY <2>1, <2>2 DEF WrittenOut
<1>3. ASSUME NEW a, Has(v, a)
      PROVE  a \in Text
  <2>1. PICK i \in 1..Len(v.entries) : KeyAt(v, i) = a
    BY <1>1, <1>3, SequentialIsSeq DEF Has
  <2>2. v.entries[i].key \in KeyTokens /\ v.entries[i].key.kind = "text"
    BY <1>1, <1>2, SequentialIsSeq DEF GoodKeys, IsMapping
  <2>3. v.entries[i].key \in Texts
    BY <2>2 DEF KeyTokens, Numbers, AutoKey, Mark
  <2>4. QED
    BY <2>1, <2>3 DEF Texts, KeyAt
<1>4. Always(forced) \subseteq Text
  BY IdAssumption DEF Always
<1>5. QED
  BY <1>1, <1>3, <1>4, ConfiguredAre

(* The name of an application is that of the last entry of its manifest.   *)
LEMMA NamedInManifest ==
    ASSUME NEW disk \in Disk, NEW a \in Id, AcceptableManifest(disk.manifests[a])
    PROVE  LET m == disk.manifests[a]
               key(k) == m.entries[k].key.value
           IN  \E k \in DOMAIN m.entries :
                   /\ key(k) = "name"
                   /\ \A l \in DOMAIN m.entries : l > k => key(l) # "name"
                   /\ Application(a, m).name = m.entries[k].value.value
<1>1. PICK m : m = disk.manifests[a]
  OBVIOUS
<1>2. m.kind = "array" /\ Has(m, "name")
  BY <1>1 DEF AcceptableManifest, IsMapping, Required
<1>3. Sequential(m.entries)
  <2>1. m.entries \in Seq(Range(m.entries))
    BY <1>1, <1>2, DiskAssumption
  <2>2. QED
    BY <2>1, SeqIsSequential
<1>4. PICK i \in 1..Len(m.entries) :
              /\ KeyAt(m, i) = "name" /\ At(m, "name") = m.entries[i].value
              /\ \A l \in 1..Len(m.entries) : l > i => KeyAt(m, l) # "name"
  BY <1>2, <1>3, AtLast
<1>5. DOMAIN m.entries = 1..Len(m.entries)
  BY <1>3, SequentialIsSeq
<1>6. Application(a, m).name = At(m, "name").value
  BY SMTT(30) DEF Application
<1>7. QED
  BY <1>1, <1>4, <1>5, <1>6 DEF KeyAt

LEMMA BuiltAsWritten ==
    ASSUME CatalogInv, catalog.status = "built"
    PROVE  LET manifests == catalog.disk.manifests
           IN  /\ Cardinality(InstalledIds) = Len(catalog.apps)
               /\ InstalledIds = {a \in Id : TurnedOn(a) /\ manifests[a] # Absent}
               /\ \A i \in DOMAIN catalog.apps :
                     LET m == manifests[catalog.apps[i].app]
                         key(k) == m.entries[k].key.value
                     IN  \E k \in DOMAIN m.entries :
                             /\ key(k) = "name"
                             /\ \A l \in DOMAIN m.entries : l > k => key(l) # "name"
                             /\ catalog.apps[i].name = m.entries[k].value.value
<1>1. PICK disk, v : disk = catalog.disk /\ v = parser.value
  OBVIOUS
<1>2. /\ FilesRead /\ KeepsWhatIsRead(parser) /\ parser.mode = "done" /\ disk \in Disk
      /\ AcceptableApps(v, disk.manifests, disk.installer)
      /\ catalog.apps = InstalledApps(v, disk.manifests, disk.installer)
  BY <1>1 DEF CatalogInv, CatalogIsThatOf
<1>3. IsMapping(v) /\ Sequential(v.entries)
  BY <1>1, <1>2 DEF AcceptableApps, FilesRead, ParserShape, ValueShape, IsMapping
<1>4. PICK all : all = Configured(v, disk.installer)
  OBVIOUS
<1>5. PICK ids : ids = Present(all, disk.manifests)
  OBVIOUS
<1>6. Sequential(all) /\ Once(all)
  BY <1>3, <1>4, ConfiguredAre
<1>7. /\ Sequential(ids) /\ Once(ids)
      /\ \A a : a \in Elements(ids) <=> a \in Elements(all) /\ disk.manifests[a] # Absent
  BY <1>5, <1>6, PresentAre
<1>8. /\ Elements(all) \subseteq Id
      /\ \A a \in Elements(ids) : AcceptableManifest(disk.manifests[a])
  BY <1>2, <1>4, <1>5, <1>6, <1>7, RangeElements DEF AcceptableApps
<1>9. DOMAIN ids = 1..Len(ids) /\ Len(ids) \in Nat /\ ids = [i \in 1..Len(ids) |-> ids[i]]
  BY <1>7, SequentialIsSeq DEF Sequential
<1>10. PICK installed : installed = catalog.apps
  OBVIOUS
<1>11. installed = [i \in 1..Len(ids) |-> Application(ids[i], disk.manifests[ids[i]])]
  BY <1>2, <1>4, <1>5, <1>9, <1>10 DEF InstalledApps
<1>12. DOMAIN installed = 1..Len(ids) /\ Len(installed) = Len(ids)
  BY <1>9, <1>11
<1>13. \A i \in 1..Len(ids) : installed[i] = Application(ids[i], disk.manifests[ids[i]]) /\ installed[i].app = ids[i]
  BY <1>11 DEF Application
<1>14. InstalledIds = Elements(ids)
  BY <1>10, <1>12, <1>13 DEF InstalledIds, Elements
<1>15. Cardinality(InstalledIds) = Len(installed)
  <2>1. \A i, j \in 1..Len(ids) : ids[i] = ids[j] => i = j
    BY <1>7 DEF Once
  <2>2. Cardinality({ids[i] : i \in 1..Len(ids)}) = Len(ids)
    BY <1>9, <2>1, AsManyAsNames
  <2>3. QED
    BY <1>12, <1>14, <2>2 DEF Elements
<1>16. ASSUME NEW a \in Id
       PROVE  a \in Elements(ids) <=> TurnedOn(a) /\ disk.manifests[a] # Absent
  <2>1. a \in Text
    BY IdAssumption
  <2>2. TurnedOn(a) <=> a \in Elements(all)
    BY <1>1, <1>2, <1>3, <1>4, <2>1, TurnedOnAsParsed
  <2>3. QED
    BY <1>7, <2>2
<1>17. InstalledIds = {a \in Id : TurnedOn(a) /\ disk.manifests[a] # Absent}
  <2>1. Elements(ids) \subseteq Id
    BY <1>7, <1>8
  <2>2. QED
    BY <1>14, <1>16, <2>1
<1>18. ASSUME NEW i \in DOMAIN installed
       PROVE  LET m == disk.manifests[installed[i].app]
                  key(k) == m.entries[k].key.value
              IN  \E k \in DOMAIN m.entries :
                      /\ key(k) = "name"
                      /\ \A l \in DOMAIN m.entries : l > k => key(l) # "name"
                      /\ installed[i].name = m.entries[k].value.value
  <2>1. i \in 1..Len(ids) /\ ids[i] \in Elements(ids)
    BY <1>12, <1>18 DEF Elements
  <2>2. ids[i] \in Id /\ AcceptableManifest(disk.manifests[ids[i]])
    BY <1>7, <1>8, <2>1
  <2>3. QED
    BY <1>2, <1>13, <2>1, <2>2, NamedInManifest
<1>19. QED
  BY <1>1, <1>10, <1>15, <1>17, <1>18

LEMMA FailedAsWritten ==
    ASSUME CatalogInv, catalog.status = "failed", parser.mode = "done"
    PROVE  LET manifests == catalog.disk.manifests
           IN  \/ ~IsMapping(parser.value)
               \/ \E a \in Text : /\ TurnedOn(a)
                                  /\ a \notin Id \/ ~(manifests[a] = Absent \/ AcceptableManifest(manifests[a]))
<1>1. PICK disk, v : disk = catalog.disk /\ v = parser.value
  OBVIOUS
<1>2. /\ FilesRead /\ KeepsWhatIsRead(parser) /\ disk \in Disk
      /\ ~AcceptableApps(v, disk.manifests, disk.installer)
  BY <1>1 DEF CatalogInv, CatalogIsThatOf
<1>3. CASE ~IsMapping(v)
  BY <1>1, <1>3
<1>4. CASE IsMapping(v)
  <2>1. v \notin {Absent, Broken}
    BY <1>1, <1>2, ParsedIsThere
  <2>2. PICK all : all = Configured(v, disk.installer)
    OBVIOUS
  <2>3. PICK ids : ids = Present(all, disk.manifests)
    OBVIOUS
  <2>4. Sequential(v.entries)
    BY <1>1, <1>2, <1>4 DEF FilesRead, ParserShape, ValueShape, IsMapping
  <2>5. Sequential(all) /\ Once(all)
    BY <2>2, <2>4, ConfiguredAre
  <2>6. /\ Sequential(ids)
        /\ \A a : a \in Elements(ids) <=> a \in Elements(all) /\ disk.manifests[a] # Absent
    BY <2>3, <2>5, PresentAre
  <2>7. PICK a \in Elements(all) : a \notin Id \/ (disk.manifests[a] # Absent /\ ~AcceptableManifest(disk.manifests[a]))
    <3>1. \/ ~(Range(all) \subseteq Id)
          \/ \E a \in Range(ids) : ~AcceptableManifest(disk.manifests[a])
      BY <1>2, <1>4, <2>1, <2>2, <2>3 DEF AcceptableApps
    <3>2. Range(all) = Elements(all) /\ Range(ids) = Elements(ids)
      BY <2>5, <2>6, RangeElements
    <3>3. QED
      BY <2>6, <3>1, <3>2
  <2>8. a \in Text
    BY <1>1, <1>2, <1>4, <2>2, <2>7, ConfiguredTexts
  <2>9. TurnedOn(a)
    BY <1>1, <1>2, <1>4, <2>2, <2>7, <2>8, TurnedOnAsParsed, SMTT(30)
  <2>10. QED
    BY <1>1, <2>7, <2>8, <2>9
<1>5. QED
  BY <1>3, <1>4

(* The catalog of installed applications is that which the tokens of       *)
(* apps.php and the manifests call for, and a process fails to start for   *)
(* its files only if they are at fault: whatever is written in them.       *)
THEOREM CatalogAsWritten == Spec => []InstalledAsWritten
<1>1. CatalogInv => InstalledAsWritten
  BY BuiltAsWritten, FailedAsWritten DEF InstalledAsWritten
<1>2. QED
  BY <1>1, CatalogInvariant, PTL
=============================================================================
