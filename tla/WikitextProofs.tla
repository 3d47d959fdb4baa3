--------------------------- MODULE WikitextProofs ---------------------------
(***************************************************************************)
(* Proofs about the renderer of wikitext, for all pages, all modes and     *)
(* whatever depth lines have in others: what it keeps track of stays in    *)
(* step with what it has yet to do, so that no element ever ends another   *)
(* one, and rendering fails only where it is known to.                     *)
(***************************************************************************)
EXTENDS WikitextInv, WellFoundedInduction, SequenceTheorems, TLAPS

-----------------------------------------------------------------------------
(* Induction: what the library says of well-founded relations, in the form *)
(* that the provers can use.                                               *)

\* What the library says of `<', as a statement about a relation that the provers
\* need not look into.
LEMMA LessIsWellFounded ==
  \E R : IsWellFoundedOn(R, Nat) /\ \A a, b \in Nat : a < b => <<a, b>> \in R
  <1>1. IsWellFoundedOn(OpToRel(<, Nat), Nat)
    BY NatLessThanWellFounded
  <1>2. \A a, b \in Nat : a < b => <<a, b>> \in OpToRel(<, Nat)
    BY DEF OpToRel
  <1> QED
    BY <1>1, <1>2, Zenon

\* Every set of natural numbers that is not empty has a least member.
LEMMA Least ==
  ASSUME NEW S, S \subseteq Nat, S # {}
  PROVE  \E n \in S : \A m \in S : n <= m
  <1>1. PICK R : IsWellFoundedOn(R, Nat) /\ \A a, b \in Nat : a < b => <<a, b>> \in R
    BY LessIsWellFounded
  <1>2. IsWellFoundedOn(R, Nat)
    BY <1>1
  <1>3. \E n \in S : \A m \in S : ~ (<<m, n>> \in R)
    BY <1>2, WFMin
  <1>4. PICK n \in S : \A m \in S : ~ (<<m, n>> \in R)
    BY <1>3
  <1>5. \A m \in S : ~ (m < n)
    BY <1>1, <1>4
  <1>6. \A m \in S : m \in Nat /\ n \in Nat
    OBVIOUS
  <1> QED
    BY <1>5, <1>6

\* A set with 0 and the successor of each number in it holds them all.
LEMMA SetInduction ==
  ASSUME NEW S, 0 \in S, \A n \in Nat : n \in S => n + 1 \in S
  PROVE  Nat \subseteq S
  <1> DEFINE B == {n \in Nat : n \notin S}
  <1> SUFFICES ASSUME B # {} PROVE FALSE
    OBVIOUS
  <1>0. B \subseteq Nat
    OBVIOUS
  <1>1. PICK n \in B : \A m \in B : n <= m
    BY <1>0, Least
  <1>2. n # 0 /\ n - 1 \in Nat /\ ~ (n <= n - 1)
    OBVIOUS
  <1>3. n - 1 \in S
    BY <1>1, <1>2
  <1> QED
    BY <1>2, <1>3

\* A set of numbers with a bound has a greatest member.
LEMMA Greatest ==
  ASSUME NEW S, S \subseteq Int, S # {}, NEW b \in Int, \A n \in S : n <= b
  PROVE  \E n \in S : \A m \in S : m <= n
  <1> DEFINE T == {b - n : n \in S}
  <1>1. T \subseteq Nat /\ T # {}
    <2>1. ASSUME NEW n \in S PROVE b - n \in Nat
      <3>1. n \in Int /\ n <= b
        OBVIOUS
      <3> QED
        BY <3>1
    <2>2. \E n \in S : b - n \in T
      OBVIOUS
    <2> QED
      BY <2>1, <2>2
  <1>2. PICK d \in T : \A m \in T : d <= m
    BY <1>1, Least
  <1>3. PICK n \in S : d = b - n
    OBVIOUS
  <1>4. ASSUME NEW m \in S PROVE m <= n
    <2>1. b - n <= b - m /\ n \in Int /\ m \in Int
      BY <1>2, <1>3
    <2> QED
      BY <2>1
  <1> QED
    BY <1>4

-----------------------------------------------------------------------------
(* Sequences, least and greatest numbers, and recursion.                   *)

LEMMA MinFacts ==
  ASSUME NEW S, S \subseteq Nat, S # {}
  PROVE  Min(S) \in S /\ \A x \in S : Min(S) <= x
  <1>1. \E n \in S : \A m \in S : n <= m
    BY Least
  <1> QED
    BY <1>1 DEF Min

LEMMA MaxFacts ==
  ASSUME NEW S, S \subseteq Nat, S # {}, NEW b \in Nat, \A x \in S : x <= b
  PROVE  Max(S) \in S /\ \A x \in S : x <= Max(S)
  <1>1. \E n \in S : \A m \in S : m <= n
    <2>1. S \subseteq Int /\ b \in Int
      OBVIOUS
    <2> QED
      BY <2>1, Greatest
  <1>2. \E n \in S : \A m \in S : n >= m
    BY <1>1
  <1> QED
    BY <1>2 DEF Max

\* A function may be defined by what it is at 0 and how each value follows from
\* the one before it.
Iterates(n, S, a, F) ==
  {f \in [0 .. n -> S] : f[0] = a /\ \A i \in 1 .. n : f[i] = F[i][f[i - 1]]}

LEMMA JoinFacts ==
  ASSUME NEW S, NEW p \in Seq(S), NEW q \in Seq(S)
  PROVE  /\ p \o q \in Seq(S) /\ Len(p \o q) = Len(p) + Len(q)
         /\ \A i \in 1 .. Len(p) : (p \o q)[i] = p[i]
         /\ \A i \in 1 .. Len(q) : (p \o q)[Len(p) + i] = q[i]
  OBVIOUS

LEMMA Recursion ==
  ASSUME NEW n \in Nat, NEW S, NEW a \in S, NEW F \in [1 .. n -> [S -> S]]
  PROVE  Iterates(n, S, a, F) # {}
  <1> DEFINE Upto(m, f) == f[0] = a /\ \A i \in 1 .. m : f[i] = F[i][f[i - 1]]
             P == {m \in Nat : m <= n => \E f \in [0 .. m -> S] : Upto(m, f)}
  <1>1. 0 \in P
    <2>1. [i \in 0 .. 0 |-> a] \in [0 .. 0 -> S] /\ Upto(0, [i \in 0 .. 0 |-> a])
      OBVIOUS
    <2> QED
      BY <2>1
  <1>2. ASSUME NEW m \in Nat, m \in P PROVE m + 1 \in P
    <2> SUFFICES ASSUME m + 1 <= n PROVE \E f \in [0 .. m + 1 -> S] : Upto(m + 1, f)
      OBVIOUS
    <2>1. PICK f \in [0 .. m -> S] : Upto(m, f)
      BY <1>2
    <2> DEFINE g == [i \in 0 .. m + 1 |-> IF i <= m THEN f[i] ELSE F[m + 1][f[m]]]
    <2>2. g \in [0 .. m + 1 -> S]
      OBVIOUS
    <2>3. Upto(m + 1, g)
      <3>1. g[0] = a
        BY <2>1
      <3>2. ASSUME NEW i \in 1 .. m + 1 PROVE g[i] = F[i][g[i - 1]]
        <4>1. CASE i <= m
          <5>1. i \in 1 .. m /\ i - 1 \in 0 .. m + 1 /\ i - 1 <= m /\ i \in 0 .. m + 1
            BY <4>1
          <5>2. f[i] = F[i][f[i - 1]]
            BY <2>1, <5>1
          <5> QED
            BY <5>1, <5>2
        <4>2. CASE i = m + 1
          <5>1. g[m + 1] = F[m + 1][f[m]] /\ g[m] = f[m] /\ (m + 1) - 1 = m
            OBVIOUS
          <5> QED
            BY <4>2, <5>1
        <4> QED
          BY <4>1, <4>2
      <3> HIDE DEF g
      <3> QED
        BY <3>1, <3>2
    <2> QED
      BY <2>2, <2>3
  <1>3. n \in P
    <2> HIDE DEF P
    <2> QED
      BY <1>1, <1>2, SetInduction
  <1> QED
    BY <1>3 DEF Iterates

LEMMA FlattenSteps ==
  ASSUME NEW S, NEW seqs \in Seq(Seq(S)), seqs # <<>>
  PROVE  \E f \in [1 .. Len(seqs) -> Seq(S)] :
            /\ f[1] = seqs[1]
            /\ \A i \in 2 .. Len(seqs) : f[i] = f[i - 1] \o seqs[i]
            /\ FlattenSeq(seqs) = f[Len(seqs)]
  <1> DEFINE n == Len(seqs)
             F == [i \in 1 .. n |-> [t \in Seq(S) |-> t \o seqs[i]]]
             flatten[i \in 1 .. Len(seqs)] == IF i = 1 THEN seqs[i] ELSE flatten[i - 1] \o seqs[i]
             Eq(f) == f = [i \in 1 .. Len(seqs) |-> IF i = 1 THEN seqs[i] ELSE f[i - 1] \o seqs[i]]
  <1>8. FlattenSeq(seqs) = flatten[n]
    <2>1. Len(seqs) # 0
      OBVIOUS
    <2> QED
      BY <2>1 DEF FlattenSeq
  <1>u. flatten = CHOOSE f : Eq(f)
    OBVIOUS
  <1> HIDE DEF flatten
  <1>0. n \in Nat /\ n # 0 /\ 1 \in 1 .. n /\ \A i \in 1 .. n : seqs[i] \in Seq(S)
    OBVIOUS
  <1>i. \A i \in 1 .. n : i \in Nat /\ i - 1 \in 0 .. n /\ i \in 0 .. n /\ (i # 1 => i - 1 \in 1 .. n)
    BY <1>0
  <1>1. F \in [1 .. n -> [Seq(S) -> Seq(S)]]
    BY <1>0
  <1>f. \A i \in 1 .. n, t \in Seq(S) : F[i][t] = t \o seqs[i]
    OBVIOUS
  <1> HIDE DEF F, n
  <1>2. PICK g \in Iterates(n, Seq(S), <<>>, F) : TRUE
    <2> DEFINE A == Seq(S)
               none == <<>>
    <2>1. n \in Nat /\ F \in [1 .. n -> [A -> A]] /\ none \in A
      BY <1>0, <1>1
    <2> HIDE DEF A, none
    <2>2. Iterates(n, A, none, F) # {}
      BY <2>1, Recursion
    <2> QED
      BY <2>2 DEF A, none
  <1>g. /\ g \in [0 .. n -> Seq(S)]
        /\ g[0] = <<>>
        /\ \A i \in 1 .. n : g[i] = F[i][g[i - 1]]
    BY <1>2 DEF Iterates
  <1> DEFINE h == [i \in 1 .. n |-> g[i]]
  <1>3. \A i \in 1 .. n : g[i] = g[i - 1] \o seqs[i]
    BY <1>i, <1>g, <1>f
  <1>4. g[1] = seqs[1]
    <2>1. g[1] = g[0] \o seqs[1]
      <3>1. 1 - 1 = 0
        OBVIOUS
      <3> QED
        BY <1>0, <1>3, <3>1
    <2> QED
      BY <1>0, <1>g, <2>1, ConcatEmptySeq
  <1>5. Eq(h)
    <2>1. ASSUME NEW i \in 1 .. n PROVE h[i] = IF i = 1 THEN seqs[i] ELSE h[i - 1] \o seqs[i]
      BY <1>0, <1>i, <1>3, <1>4
    <2> QED
      BY <2>1 DEF n
  <1>6. Eq(flatten)
    <2> HIDE DEF Eq, h
    <2> QED
      BY <1>5, <1>u
  <1>10. /\ flatten = [i \in 1 .. n |-> flatten[i]]
         /\ flatten[1] = seqs[1]
         /\ \A i \in 2 .. n : flatten[i] = flatten[i - 1] \o seqs[i]
    <2>1. flatten = [i \in 1 .. n |-> IF i = 1 THEN seqs[i] ELSE flatten[i - 1] \o seqs[i]]
      BY <1>6 DEF n
    <2>2. \A i \in 1 .. n : flatten[i] = IF i = 1 THEN seqs[i] ELSE flatten[i - 1] \o seqs[i]
      BY <2>1
    <2>3. \A i \in 2 .. n : i \in 1 .. n /\ i # 1
      BY <1>0
    <2>4. flatten = [i \in 1 .. n |-> flatten[i]]
      BY <2>1
    <2> QED
      BY <1>0, <2>2, <2>3, <2>4
  <1> HIDE DEF Eq
  <1>7. \A i \in 1 .. n : flatten[i] \in Seq(S)
    <2> DEFINE P == {i \in Nat : i + 1 <= n => flatten[i + 1] \in Seq(S)}
    <2>1. 0 \in P
      BY <1>0, <1>10
    <2>2. ASSUME NEW i \in Nat, i \in P PROVE i + 1 \in P
      <3> SUFFICES ASSUME i + 2 <= n PROVE flatten[i + 2] \in Seq(S)
        OBVIOUS
      <3>1. flatten[i + 2] = flatten[i + 1] \o seqs[i + 2]
        <4>1. i + 2 \in 2 .. n /\ (i + 2) - 1 = i + 1
          BY <1>0
        <4> QED
          BY <1>10, <4>1
      <3> QED
        BY <1>0, <2>2, <3>1
    <2>3. Nat \subseteq P
      <3> HIDE DEF P
      <3> QED
        BY <2>1, <2>2, SetInduction
    <2>4. ASSUME NEW i \in 1 .. n PROVE flatten[i] \in Seq(S)
      <3>1. i - 1 \in Nat /\ (i - 1) + 1 = i /\ i <= n
        BY <1>0
      <3>2. i - 1 \in P
        BY <2>3, <3>1
      <3> QED
        BY <3>1, <3>2
    <2> QED
      BY <2>4
  <1>9. flatten \in [1 .. n -> Seq(S)]
    BY <1>10, <1>7
  <1> QED
    BY <1>8, <1>9, <1>10 DEF n

-----------------------------------------------------------------------------
(* Walks.                                                                  *)

LEMMA TrailFacts ==
  ASSUME NEW a, NEW h \in Seq(Marks_), NEW b, NEW f \in Trails(a, h, b)
  PROVE  /\ f \in [0 .. Len(h) -> Stacks]
         /\ f[0] = a /\ f[Len(h)] = b
         /\ \A i \in 1 .. Len(h) : Step(f[i - 1], h[i], f[i])
         /\ a \in Stacks /\ b \in Stacks
  <1>2. /\ f \in [0 .. Len(h) -> Stacks]
        /\ f[0] = a /\ f[Len(h)] = b
        /\ \A i \in 1 .. Len(h) : Step(f[i - 1], h[i], f[i])
    BY DEF Trails
  <1>3. 0 \in 0 .. Len(h) /\ Len(h) \in 0 .. Len(h)
    OBVIOUS
  <1>4. a \in Stacks /\ b \in Stacks
    BY <1>2, <1>3
  <1> QED
    BY <1>2, <1>4

LEMMA WalkStacks ==
  ASSUME NEW a, NEW h \in Seq(Marks_), NEW b, Walk(a, h, b)
  PROVE  a \in Stacks /\ b \in Stacks
  BY TrailFacts DEF Walk

LEMMA WalkBy ==
  ASSUME NEW h \in Seq(Marks_), NEW f \in [0 .. Len(h) -> Stacks],
         \A i \in 1 .. Len(h) : Step(f[i - 1], h[i], f[i])
  PROVE  Walk(f[0], h, f[Len(h)])
  <1>1. f \in Trails(f[0], h, f[Len(h)])
    BY DEF Trails
  <1> QED
    BY <1>1 DEF Walk

LEMMA WalkNothing ==
  ASSUME NEW a, NEW b
  PROVE  Walk(a, <<>>, b) <=> a \in Stacks /\ b = a
  <1>1. <<>> \in Seq(Marks_) /\ Len(<<>>) = 0
    OBVIOUS
  <1>2. ASSUME Walk(a, <<>>, b) PROVE a \in Stacks /\ b = a
    <2>1. PICK f \in Trails(a, <<>>, b) : TRUE
      BY <1>2 DEF Walk
    <2>2. a \in Stacks /\ f[0] = a /\ f[Len(<<>>)] = b
      BY <1>1, <2>1 DEF Trails
    <2> QED
      BY <1>1, <2>2
  <1>3. ASSUME a \in Stacks, b = a PROVE Walk(a, <<>>, b)
    <2> DEFINE f == [i \in 0 .. 0 |-> a]
    <2>1. f \in [0 .. Len(<<>>) -> Stacks] /\ f[0] = a
      BY <1>1, <1>3
    <2>2. \A i \in 1 .. Len(<<>>) : Step(f[i - 1], <<>>[i], f[i])
      BY <1>1
    <2> HIDE DEF f
    <2>3. Walk(f[0], <<>>, f[Len(<<>>)])
      BY <1>1, <2>1, <2>2, WalkBy
    <2> QED
      BY <1>1, <1>3, <2>1, <2>3
  <1> QED
    BY <1>2, <1>3

LEMMA WalkJoin ==
  ASSUME NEW a, NEW b, NEW c, NEW g \in Seq(Marks_), NEW h \in Seq(Marks_),
         Walk(a, g, c), Walk(c, h, b)
  PROVE  Walk(a, g \o h, b)
  <1> DEFINE m == Len(g)
             n == Len(h)
  <1>0. m \in Nat /\ n \in Nat /\ Len(g \o h) = m + n /\ g \o h \in Seq(Marks_)
    OBVIOUS
  <1>1. PICK f1 \in Trails(a, g, c) : TRUE
    BY DEF Walk
  <1>a. /\ f1 \in [0 .. m -> Stacks]
        /\ f1[0] = a /\ f1[m] = c
        /\ \A i \in 1 .. m : Step(f1[i - 1], g[i], f1[i])
    BY <1>1 DEF Trails
  <1>2. PICK f2 \in Trails(c, h, b) : TRUE
    BY DEF Walk
  <1>b. /\ f2 \in [0 .. n -> Stacks]
        /\ f2[0] = c /\ f2[n] = b
        /\ \A i \in 1 .. n : Step(f2[i - 1], h[i], f2[i])
    BY <1>2 DEF Trails
  <1> DEFINE f == [i \in 0 .. m + n |-> IF i <= m THEN f1[i] ELSE f2[i - m]]
  <1>3. f \in [0 .. m + n -> Stacks]
    <2>1. ASSUME NEW i \in 0 .. m + n PROVE f[i] \in Stacks
      <3>1. CASE i <= m
        BY <1>0, <1>a, <3>1
      <3>2. CASE ~ (i <= m)
        <4>1. i - m \in 0 .. n
          BY <1>0, <3>2
        <4> QED
          BY <1>b, <3>2, <4>1
      <3> QED
        BY <3>1, <3>2
    <2> QED
      BY <2>1
  <1>4. ASSUME NEW i \in 1 .. m + n PROVE Step(f[i - 1], (g \o h)[i], f[i])
    <2>1. CASE i <= m
      <3>1. i \in 1 .. m /\ i - 1 <= m /\ i - 1 \in 0 .. m + n /\ i \in 0 .. m + n
        BY <1>0, <2>1
      <3>2. f[i - 1] = f1[i - 1] /\ f[i] = f1[i] /\ (g \o h)[i] = g[i]
        BY <1>0, <2>1, <3>1
      <3> QED
        BY <1>a, <3>1, <3>2
    <2>2. CASE i > m
      <3> DEFINE j == i - m
      <3>1. j \in 1 .. n /\ i - 1 \in 0 .. m + n /\ i \in 0 .. m + n /\ (i - 1) - m = j - 1
        BY <1>0, <2>2
      <3>2. f[i] = f2[j] /\ (g \o h)[i] = h[j]
        BY <1>0, <2>2, <3>1
      <3>3. f[i - 1] = f2[j - 1]
        <4>1. CASE i - 1 > m
          BY <1>0, <3>1, <4>1
        <4>2. CASE i - 1 = m
          <5>1. f[m] = f1[m] /\ j - 1 = 0
            BY <1>0, <4>2
          <5>2. f[i - 1] = c
            BY <1>a, <4>2, <5>1
          <5>3. f2[j - 1] = c
            BY <1>b, <5>1
          <5> QED
            BY <5>2, <5>3
        <4>3. i - 1 > m \/ i - 1 = m
          BY <1>0, <2>2
        <4> QED
          BY <4>1, <4>2, <4>3, Zenon
      <3> QED
        BY <1>b, <3>1, <3>2, <3>3
    <2> QED
      BY <1>0, <2>1, <2>2
  <1>5. f[0] = a /\ f[m + n] = b
    <2>1. f[0] = f1[0]
      BY <1>0
    <2>2. CASE n = 0
      <3>1. f[m + n] = f1[m] /\ f2[n] = f2[0]
        BY <1>0, <2>2
      <3> QED
        BY <1>a, <1>b, <2>1, <3>1
    <2>3. CASE n # 0
      <3>1. f[m + n] = f2[(m + n) - m] /\ (m + n) - m = n
        BY <1>0, <2>3
      <3> QED
        BY <1>a, <1>b, <2>1, <3>1
    <2> QED
      BY <2>2, <2>3
  <1> HIDE DEF f, m, n
  <1>6. Walk(f[0], g \o h, f[Len(g \o h)])
    BY <1>0, <1>3, <1>4, WalkBy
  <1> QED
    BY <1>0, <1>5, <1>6

LEMMA WalkParts ==
  ASSUME NEW a, NEW b, NEW g \in Seq(Marks_), NEW h \in Seq(Marks_),
         Walk(a, g \o h, b)
  PROVE  \E c \in Stacks : Walk(a, g, c) /\ Walk(c, h, b)
  <1> DEFINE m == Len(g)
             n == Len(h)
  <1>0. m \in Nat /\ n \in Nat /\ Len(g \o h) = m + n /\ g \o h \in Seq(Marks_)
    OBVIOUS
  <1>1. PICK f \in Trails(a, g \o h, b) : TRUE
    BY DEF Walk
  <1>a. /\ f \in [0 .. m + n -> Stacks]
        /\ f[0] = a /\ f[m + n] = b
        /\ \A i \in 1 .. m + n : Step(f[i - 1], (g \o h)[i], f[i])
    BY <1>0, <1>1 DEF Trails
  <1> DEFINE f1 == [i \in 0 .. m |-> f[i]]
             f2 == [i \in 0 .. n |-> f[m + i]]
  <1>2. f1 \in [0 .. m -> Stacks] /\ f2 \in [0 .. n -> Stacks]
    BY <1>0, <1>a
  <1>3. ASSUME NEW i \in 1 .. m PROVE Step(f1[i - 1], g[i], f1[i])
    <2>1. i \in 1 .. m + n /\ i - 1 \in 0 .. m /\ i \in 0 .. m
      BY <1>0
    <2>2. f1[i - 1] = f[i - 1] /\ f1[i] = f[i] /\ (g \o h)[i] = g[i]
      BY <1>0, <2>1
    <2> QED
      BY <1>a, <2>1, <2>2
  <1>4. ASSUME NEW i \in 1 .. n PROVE Step(f2[i - 1], h[i], f2[i])
    <2>1. m + i \in 1 .. m + n /\ i - 1 \in 0 .. n /\ i \in 0 .. n /\ m + (i - 1) = (m + i) - 1
      BY <1>0
    <2>2. f2[i - 1] = f[(m + i) - 1] /\ f2[i] = f[m + i]
      BY <1>0, <2>1
    <2>3. (g \o h)[m + i] = h[i]
      BY <1>0, <2>1
    <2> QED
      BY <1>a, <2>1, <2>2, <2>3
  <1>5. f1[0] = a /\ f1[m] = f[m] /\ f2[0] = f[m] /\ f2[n] = b
    BY <1>0, <1>a
  <1>6. f[m] \in Stacks
    BY <1>0, <1>a
  <1> HIDE DEF f1, f2
  <1>7. Walk(f1[0], g, f1[m]) /\ Walk(f2[0], h, f2[n])
    BY <1>2, <1>3, <1>4, WalkBy
  <1> QED
    BY <1>5, <1>6, <1>7

LEMMA WalkOne ==
  ASSUME NEW a \in Stacks, NEW x \in Marks_, NEW b \in Stacks
  PROVE  Walk(a, <<x>>, b) <=> Step(a, x, b)
  <1> DEFINE h == <<x>>
  <1>0. h \in Seq(Marks_) /\ Len(h) = 1 /\ h[1] = x
    OBVIOUS
  <1> HIDE DEF h
  <1>1. ASSUME Walk(a, h, b) PROVE Step(a, x, b)
    <2>1. PICK f \in Trails(a, h, b) : TRUE
      BY <1>1 DEF Walk
    <2>2. f[0] = a /\ f[1] = b /\ \A i \in 1 .. 1 : Step(f[i - 1], h[i], f[i])
      BY <1>0, <2>1 DEF Trails
    <2>3. Step(f[1 - 1], h[1], f[1]) /\ 1 - 1 = 0
      BY <2>2
    <2> QED
      BY <1>0, <2>2, <2>3
  <1>2. ASSUME Step(a, x, b) PROVE Walk(a, h, b)
    <2> DEFINE f == [i \in 0 .. 1 |-> IF i = 0 THEN a ELSE b]
    <2>1. f \in [0 .. Len(h) -> Stacks] /\ f[0] = a /\ f[1] = b
      BY <1>0
    <2>2. ASSUME NEW i \in 1 .. Len(h) PROVE Step(f[i - 1], h[i], f[i])
      <3>1. i = 1 /\ i - 1 = 0
        BY <1>0
      <3> HIDE DEF f
      <3> QED
        BY <1>0, <1>2, <2>1, <3>1
    <2> HIDE DEF f
    <2>3. Walk(f[0], h, f[Len(h)])
      BY <1>0, <2>1, <2>2, WalkBy
    <2> QED
      BY <1>0, <2>1, <2>3
  <1> QED
    BY <1>1, <1>2 DEF h

\* There is one way to go, and one place to come to.
LEMMA StepOne ==
  ASSUME NEW a \in Stacks, NEW x \in Marks_, NEW b, NEW c, Step(a, x, b), Step(a, x, c)
  PROVE  b = c
  BY DEF Step, Marks_

LEMMA WalkOnly ==
  ASSUME NEW a, NEW h \in Seq(Marks_), NEW b, NEW c, Walk(a, h, b), Walk(a, h, c)
  PROVE  b = c
  <1>1. PICK f \in Trails(a, h, b) : TRUE
    BY DEF Walk
  <1>2. PICK g \in Trails(a, h, c) : TRUE
    BY DEF Walk
  <1> DEFINE n == Len(h)
  <1>3. /\ f \in [0 .. n -> Stacks] /\ f[0] = a /\ f[n] = b
        /\ \A i \in 1 .. n : Step(f[i - 1], h[i], f[i])
    BY <1>1 DEF Trails
  <1>4. /\ g \in [0 .. n -> Stacks] /\ g[0] = a /\ g[n] = c
        /\ \A i \in 1 .. n : Step(g[i - 1], h[i], g[i])
    BY <1>2 DEF Trails
  <1>5. n \in Nat /\ \A i \in 1 .. n : h[i] \in Marks_
    OBVIOUS
  <1> HIDE DEF n
  <1> DEFINE P == {i \in Nat : i <= n => f[i] = g[i]}
  <1>6. 0 \in P
    BY <1>3, <1>4
  <1>7. ASSUME NEW i \in Nat, i \in P PROVE i + 1 \in P
    <2> SUFFICES ASSUME i + 1 <= n PROVE f[i + 1] = g[i + 1]
      OBVIOUS
    <2>1. i + 1 \in 1 .. n /\ (i + 1) - 1 = i /\ i \in 0 .. n /\ i <= n
      BY <1>5
    <2>2. Step(f[i], h[i + 1], f[i + 1]) /\ Step(g[i], h[i + 1], g[i + 1])
      BY <1>3, <1>4, <2>1
    <2>3. f[i] = g[i] /\ f[i] \in Stacks /\ h[i + 1] \in Marks_
      BY <1>3, <1>5, <1>7, <2>1
    <2> QED
      BY <2>2, <2>3, StepOne
  <1>8. n \in P
    <2> HIDE DEF P
    <2> QED
      BY <1>5, <1>6, <1>7, SetInduction
  <1> QED
    BY <1>3, <1>4, <1>5, <1>8

\* What begins and ends nothing leaves all as it is.
Idle(x, a) == x[1] = "t" \/ (x[1] = "in" /\ a # <<>>)
LEMMA WalkIdle ==
  ASSUME NEW a \in Stacks, NEW h \in Seq(Marks_), \A i \in 1 .. Len(h) : Idle(h[i], a)
  PROVE  Walk(a, h, a)
  <1> DEFINE f == [i \in 0 .. Len(h) |-> a]
  <1>1. f \in [0 .. Len(h) -> Stacks] /\ f[0] = a /\ f[Len(h)] = a
    OBVIOUS
  <1>2. ASSUME NEW i \in 1 .. Len(h) PROVE Step(f[i - 1], h[i], f[i])
    <2>1. f[i - 1] = a /\ f[i] = a
      OBVIOUS
    <2>2. Step(a, h[i], a)
      BY DEF Idle, Step
    <2> QED
      BY <2>1, <2>2
  <1> HIDE DEF f
  <1> QED
    BY <1>1, <1>2, WalkBy

LEMMA WalkStill ==
  ASSUME NEW a, NEW b, NEW h \in Seq(Marks_), Walk(a, h, b),
         \A i \in 1 .. Len(h) : h[i][1] \in {"t", "in"}
  PROVE  b = a /\ \A i \in 1 .. Len(h) : Idle(h[i], a)
  <1>1. PICK f \in Trails(a, h, b) : TRUE
    BY DEF Walk
  <1> DEFINE n == Len(h)
  <1>3. /\ f \in [0 .. n -> Stacks] /\ f[0] = a /\ f[n] = b
        /\ \A i \in 1 .. n : Step(f[i - 1], h[i], f[i])
    BY <1>1 DEF Trails
  <1>5. n \in Nat
    OBVIOUS
  <1>s. \A i \in 1 .. n : f[i] = f[i - 1] /\ Idle(h[i], f[i - 1])
    BY <1>3 DEF Step, Idle
  <1> HIDE DEF n
  <1> DEFINE P == {i \in Nat : i <= n => f[i] = a}
  <1>6. 0 \in P
    BY <1>3
  <1>7. ASSUME NEW i \in Nat, i \in P PROVE i + 1 \in P
    <2> SUFFICES ASSUME i + 1 <= n PROVE f[i + 1] = a
      OBVIOUS
    <2>1. i + 1 \in 1 .. n /\ (i + 1) - 1 = i /\ i <= n
      BY <1>5
    <2> QED
      BY <1>s, <1>7, <2>1
  <1>8. Nat \subseteq P
    <2> HIDE DEF P
    <2> QED
      BY <1>6, <1>7, SetInduction
  <1>9. \A i \in 0 .. n : f[i] = a
    BY <1>5, <1>8
  <1>10. \A i \in 1 .. n : i - 1 \in 0 .. n
    BY <1>5
  <1> QED
    BY <1>3, <1>5, <1>s, <1>9, <1>10 DEF n

-----------------------------------------------------------------------------
(* Walks over tokens.                                                      *)

LEMMA MarkType ==
  ASSUME NEW A, NEW t \in Tokens(A)
  PROVE  Mark(t) \in Marks_
  <1>1. t.el \in Strings
    BY DEF Tokens
  <1>2. "h" \in Strings /\ "" \in Strings
    BY DEF Strings, Elements
  <1> QED
    BY <1>1, <1>2 DEF Mark, Marks_

LEMMA MarkedFacts ==
  ASSUME NEW A, NEW q \in Seq(Tokens(A))
  PROVE  /\ Marked(q) \in Seq(Marks_) /\ Len(Marked(q)) = Len(q)
         /\ \A i \in 1 .. Len(q) : Marked(q)[i] = Mark(q[i])
  <1>1. DOMAIN q = 1 .. Len(q) /\ Len(q) \in Nat
    OBVIOUS
  <1>2. \A i \in 1 .. Len(q) : Mark(q[i]) \in Marks_
    <2> SUFFICES ASSUME NEW i \in 1 .. Len(q) PROVE Mark(q[i]) \in Marks_
      OBVIOUS
    <2>1. q[i] \in Tokens(A)
      OBVIOUS
    <2> QED
      BY <2>1, MarkType
  <1> QED
    BY <1>1, <1>2 DEF Marked

LEMMA MarkedJoin ==
  ASSUME NEW A, NEW p \in Seq(Tokens(A)), NEW q \in Seq(Tokens(A))
  PROVE  Marked(p \o q) = Marked(p) \o Marked(q)
  <1> DEFINE m == Marked(p \o q)
             n == Marked(p) \o Marked(q)
  <1>1. p \o q \in Seq(Tokens(A)) /\ Len(p \o q) = Len(p) + Len(q) /\ Len(p) \in Nat /\ Len(q) \in Nat
    OBVIOUS
  <1>2. /\ Marked(p) \in Seq(Marks_) /\ Len(Marked(p)) = Len(p)
        /\ \A i \in 1 .. Len(p) : Marked(p)[i] = Mark(p[i])
    BY MarkedFacts
  <1>3. /\ Marked(q) \in Seq(Marks_) /\ Len(Marked(q)) = Len(q)
        /\ \A i \in 1 .. Len(q) : Marked(q)[i] = Mark(q[i])
    BY MarkedFacts
  <1>4. /\ m \in Seq(Marks_) /\ Len(m) = Len(p \o q)
        /\ \A i \in 1 .. Len(p \o q) : m[i] = Mark((p \o q)[i])
    BY <1>1, MarkedFacts
  <1>5. n \in Seq(Marks_) /\ Len(n) = Len(p) + Len(q)
    <2> DEFINE u == Marked(p)
               v == Marked(q)
    <2>1. u \in Seq(Marks_) /\ v \in Seq(Marks_) /\ Len(u) = Len(p) /\ Len(v) = Len(q)
      BY <1>2, <1>3
    <2> HIDE DEF u, v
    <2>2. u \o v \in Seq(Marks_) /\ Len(u \o v) = Len(u) + Len(v)
      BY <2>1, JoinFacts
    <2>3. u \o v \in Seq(Marks_) /\ Len(u \o v) = Len(p) + Len(q)
      BY <2>1, <2>2, Zenon
    <2> QED
      BY <2>3 DEF u, v
  <1>6. ASSUME NEW i \in 1 .. Len(m) PROVE m[i] = n[i]
    <2>1. CASE i <= Len(p)
      <3>1. i \in 1 .. Len(p) /\ (p \o q)[i] = p[i]
        BY <1>1, <1>4, <2>1
      <3>2. n[i] = Marked(p)[i]
        BY <1>1, <1>2, <1>3, <1>4, <2>1
      <3> QED
        BY <1>1, <1>2, <1>4, <3>1, <3>2
    <2>2. CASE i > Len(p)
      <3>1. i - Len(p) \in 1 .. Len(q) /\ (p \o q)[i] = q[i - Len(p)]
        BY <1>1, <1>4, <2>2
      <3>2. n[i] = Marked(q)[i - Len(p)]
        BY <1>1, <1>2, <1>3, <1>4, <2>2
      <3> QED
        BY <1>1, <1>3, <1>4, <3>1, <3>2
    <2>3. i <= Len(p) \/ i > Len(p)
      BY <1>1, <1>4
    <2> QED
      BY <2>1, <2>2, <2>3, Zenon
  <1> HIDE DEF m, n
  <1>7. m = n
    BY <1>1, <1>4, <1>5, <1>6, SeqEqual
  <1> QED
    BY <1>7 DEF m, n

LEMMA MarkedOne ==
  ASSUME NEW A, NEW t \in Tokens(A)
  PROVE  Marked(<<t>>) = <<Mark(t)>>
  <1> DEFINE q == <<t>>
  <1>1. q \in Seq(Tokens(A)) /\ Len(q) = 1 /\ q[1] = t
    OBVIOUS
  <1> HIDE DEF q
  <1>2. <<Mark(t)>> \in Seq(Marks_) /\ Len(<<Mark(t)>>) = 1 /\ <<Mark(t)>>[1] = Mark(t)
    BY MarkType
  <1>3. /\ Marked(q) \in Seq(Marks_) /\ Len(Marked(q)) = 1
        /\ Marked(q)[1] = Mark(t)
    BY <1>1, MarkedFacts
  <1>4. Marked(q) = <<Mark(t)>>
    BY <1>2, <1>3, SeqEqual
  <1> QED
    BY <1>4 DEF q

LEMMA MarkedNone == Marked(<<>>) = <<>>
  BY DEF Marked

LEMMA HeadAndTail ==
  ASSUME NEW S, NEW q \in Seq(S), q # <<>>
  PROVE  /\ q = <<Head(q)>> \o Tail(q)
         /\ Head(q) \in S /\ Tail(q) \in Seq(S) /\ Head(q) = q[1]
         /\ <<Head(q)>> \in Seq(S)
         /\ Len(q) \in Nat /\ Len(q) >= 1
  <1>1. Head(q) \in S /\ Tail(q) \in Seq(S) /\ Head(q) = q[1] /\ Len(q) \in Nat /\ Len(q) >= 1
    OBVIOUS
  <1>2. <<Head(q)>> \in Seq(S)
    BY <1>1
  <1> DEFINE p == <<Head(q)>> \o Tail(q)
  <1>3. p \in Seq(S) /\ Len(p) = Len(q)
    BY <1>1, <1>2
  <1>4. \A i \in 1 .. Len(q) : q[i] = p[i]
    BY <1>1, <1>2
  <1> HIDE DEF p
  <1>5. q = p
    BY <1>3, <1>4, SeqEqual
  <1> QED
    BY <1>1, <1>2, <1>5 DEF p

LEMMA RestFacts ==
  ASSUME NEW S, NEW q \in Seq(S), NEW n \in 0 .. Len(q)
  PROVE  /\ Rest(q, n) \in Seq(S) /\ SubSeq(q, 1, n) \in Seq(S)
         /\ Len(Rest(q, n)) = Len(q) - n /\ Len(SubSeq(q, 1, n)) = n
         /\ \A i \in 1 .. n : SubSeq(q, 1, n)[i] = q[i]
         /\ \A i \in 1 .. Len(q) - n : Rest(q, n)[i] = q[n + i]
         /\ q = SubSeq(q, 1, n) \o Rest(q, n)
  <1> DEFINE p == SubSeq(q, 1, n)
             r == Rest(q, n)
  <1>0. Len(q) \in Nat /\ n \in Nat
    OBVIOUS
  <1>1. p \in Seq(S) /\ Len(p) = n /\ \A i \in 1 .. n : p[i] = q[i]
    OBVIOUS
  <1>2. r \in Seq(S) /\ Len(r) = Len(q) - n /\ \A i \in 1 .. Len(q) - n : r[i] = q[n + i]
    BY <1>0 DEF Rest
  <1> HIDE DEF p, r
  <1>3. p \o r \in Seq(S) /\ Len(p \o r) = Len(q)
    BY <1>0, <1>1, <1>2
  <1>4. ASSUME NEW i \in 1 .. Len(q) PROVE q[i] = (p \o r)[i]
    <2>1. CASE i <= n
      <3>1. (p \o r)[i] = p[i] /\ i \in 1 .. n
        BY <1>0, <1>1, <1>2, <2>1
      <3> QED
        BY <1>1, <3>1
    <2>2. CASE i > n
      <3>1. (p \o r)[i] = r[i - n] /\ i - n \in 1 .. Len(q) - n /\ n + (i - n) = i
        BY <1>0, <1>1, <1>2, <2>2
      <3> QED
        BY <1>2, <3>1
    <2>3. i <= n \/ i > n
      BY <1>0
    <2> QED
      BY <2>1, <2>2, <2>3, Zenon
  <1>5. q = p \o r
    BY <1>3, <1>4, SeqEqual
  <1> QED
    BY <1>1, <1>2, <1>5 DEF p, r

(* The same for tokens. *)
Goes(a, q, b) == Walk(a, Marked(q), b)

LEMMA GoesStacks ==
  ASSUME NEW A, NEW a, NEW b, NEW p \in Seq(Tokens(A)), Goes(a, p, b)
  PROVE  a \in Stacks /\ b \in Stacks
  BY MarkedFacts, WalkStacks DEF Goes

LEMMA GoesJoin ==
  ASSUME NEW A, NEW a, NEW b, NEW c, NEW p \in Seq(Tokens(A)), NEW q \in Seq(Tokens(A)),
         Goes(a, p, c), Goes(c, q, b)
  PROVE  Goes(a, p \o q, b)
  <1>1. Marked(p) \in Seq(Marks_) /\ Marked(q) \in Seq(Marks_)
    BY MarkedFacts
  <1>2. Walk(a, Marked(p) \o Marked(q), b)
    BY <1>1, WalkJoin DEF Goes
  <1> QED
    BY <1>2, MarkedJoin DEF Goes

LEMMA GoesParts ==
  ASSUME NEW A, NEW a, NEW b, NEW p \in Seq(Tokens(A)), NEW q \in Seq(Tokens(A)), Goes(a, p \o q, b)
  PROVE  \E c \in Stacks : Goes(a, p, c) /\ Goes(c, q, b)
  <1>1. Marked(p) \in Seq(Marks_) /\ Marked(q) \in Seq(Marks_)
    BY MarkedFacts
  <1>2. Walk(a, Marked(p) \o Marked(q), b)
    BY MarkedJoin DEF Goes
  <1> QED
    BY <1>1, <1>2, WalkParts DEF Goes

LEMMA GoesOnly ==
  ASSUME NEW A, NEW a, NEW b, NEW c, NEW p \in Seq(Tokens(A)), Goes(a, p, b), Goes(a, p, c)
  PROVE  b = c
  BY MarkedFacts, WalkOnly DEF Goes

LEMMA GoesNone ==
  ASSUME NEW a \in Stacks
  PROVE  Goes(a, <<>>, a)
  BY MarkedNone, WalkNothing DEF Goes

LEMMA GoesOne ==
  ASSUME NEW A, NEW a \in Stacks, NEW t \in Tokens(A), NEW b \in Stacks
  PROVE  Goes(a, <<t>>, b) <=> Step(a, Mark(t), b)
  BY MarkedOne, MarkType, WalkOne DEF Goes

LEMMA GoesIdle ==
  ASSUME NEW A, NEW a \in Stacks, NEW q \in Seq(Tokens(A)), \A i \in 1 .. Len(q) : Idle(Mark(q[i]), a)
  PROVE  Goes(a, q, a)
  BY MarkedFacts, WalkIdle DEF Goes

\* What is left after tokens that begin and end nothing are taken.
LEMMA GoesRest ==
  ASSUME NEW A, NEW a, NEW b, NEW q \in Seq(Tokens(A)), Goes(a, q, b), NEW n \in 0 .. Len(q),
         \A i \in 1 .. n : Mark(q[i])[1] \in {"t", "in"}
  PROVE  Goes(a, Rest(q, n), b) /\ \A i \in 1 .. n : Idle(Mark(q[i]), a)
  <1> DEFINE p == SubSeq(q, 1, n)
             r == Rest(q, n)
  <1>1. /\ p \in Seq(Tokens(A)) /\ r \in Seq(Tokens(A)) /\ Len(p) = n
        /\ \A i \in 1 .. n : p[i] = q[i]
        /\ q = p \o r
    BY RestFacts
  <1> HIDE DEF p, r
  <1>2. PICK c \in Stacks : Goes(a, p, c) /\ Goes(c, r, b)
    BY <1>1, GoesParts
  <1>3. /\ Marked(p) \in Seq(Marks_) /\ Len(Marked(p)) = n
        /\ \A i \in 1 .. n : Marked(p)[i] = Mark(q[i])
    BY <1>1, MarkedFacts
  <1>4. Walk(a, Marked(p), c)
    BY <1>2 DEF Goes
  <1>5. \A i \in 1 .. Len(Marked(p)) : Marked(p)[i][1] \in {"t", "in"}
    BY <1>3
  <1>6. c = a /\ \A i \in 1 .. Len(Marked(p)) : Idle(Marked(p)[i], a)
    BY <1>3, <1>4, <1>5, WalkStill
  <1> QED
    BY <1>2, <1>3, <1>6 DEF r

\* Others in the place of the first.
LEMMA GoesInstead ==
  ASSUME NEW A, NEW a, NEW b, NEW c \in Stacks, NEW q \in Seq(Tokens(A)), q # <<>>, Goes(a, q, b),
         NEW p \in Seq(Tokens(A)), Step(a, Mark(Head(q)), c)
  PROVE  /\ Goes(c, Tail(q), b)
         /\ Goes(a, p, c) => Goes(a, p \o Tail(q), b)
  <1>1. q = <<Head(q)>> \o Tail(q) /\ Head(q) \in Tokens(A) /\ Tail(q) \in Seq(Tokens(A))
    BY HeadAndTail
  <1>2. <<Head(q)>> \in Seq(Tokens(A))
    BY <1>1
  <1>3. PICK d \in Stacks : Goes(a, <<Head(q)>>, d) /\ Goes(d, Tail(q), b)
    <2>1. Goes(a, <<Head(q)>> \o Tail(q), b)
      BY <1>1
    <2> QED
      BY <1>1, <1>2, <2>1, GoesParts
  <1>4. a \in Stacks
    BY <1>2, <1>3, GoesStacks
  <1>5. Goes(a, <<Head(q)>>, c)
    BY <1>1, <1>4, GoesOne
  <1>6. d = c
    BY <1>2, <1>3, <1>5, GoesOnly
  <1> QED
    BY <1>1, <1>3, <1>6, GoesJoin

LEMMA GoesFirst ==
  ASSUME NEW A, NEW a, NEW b, NEW q \in Seq(Tokens(A)), q # <<>>, Goes(a, q, b)
  PROVE  a \in Stacks /\ \E c \in Stacks : Step(a, Mark(Head(q)), c)
  <1>1. q = <<Head(q)>> \o Tail(q) /\ Head(q) \in Tokens(A) /\ Tail(q) \in Seq(Tokens(A))
    BY HeadAndTail
  <1>2. <<Head(q)>> \in Seq(Tokens(A))
    BY <1>1
  <1>3. PICK d \in Stacks : Goes(a, <<Head(q)>>, d) /\ Goes(d, Tail(q), b)
    <2>1. Goes(a, <<Head(q)>> \o Tail(q), b)
      BY <1>1
    <2> QED
      BY <1>1, <1>2, <2>1, GoesParts
  <1>4. a \in Stacks
    BY <1>2, <1>3, GoesStacks
  <1>5. Step(a, Mark(Head(q)), d)
    BY <1>1, <1>3, <1>4, GoesOne
  <1> QED
    BY <1>4, <1>5

-----------------------------------------------------------------------------
(* Turning the start of a style back into text.                            *)

LEMMA ConsFacts ==
  ASSUME NEW S, NEW s \in Seq(S), NEW e \in S
  PROVE  /\ <<e>> \o s \in Seq(S) /\ Len(<<e>> \o s) = Len(s) + 1
         /\ (<<e>> \o s)[1] = e
         /\ \A k \in 1 .. Len(s) : (<<e>> \o s)[k + 1] = s[k]
         /\ <<e>> \o s # <<>> /\ Head(<<e>> \o s) = e
         /\ Tail(<<e>> \o s) = s
  <1> DEFINE c == <<e>> \o s
  <1>1. c \in Seq(S) /\ Len(c) = Len(s) + 1 /\ c[1] = e /\ Len(s) \in Nat
    OBVIOUS
  <1>2. \A k \in 1 .. Len(s) : c[k + 1] = s[k]
    OBVIOUS
  <1> HIDE DEF c
  <1>3. c # <<>> /\ Head(c) = e
    BY <1>1
  <1>4. Tail(c) \in Seq(S) /\ Len(Tail(c)) = Len(s) /\ \A k \in 1 .. Len(s) : Tail(c)[k] = s[k]
    BY <1>1, <1>2, <1>3
  <1>5. Tail(c) = s
    BY <1>4, SeqEqual
  <1> QED
    BY <1>1, <1>2, <1>3, <1>5 DEF c

(***************************************************************************)
(* Turning the start of a style back into text.  The style x is open above *)
(* what is in s.                                                           *)
(***************************************************************************)
Over(c, x, s) ==
  /\ Len(c) > Len(s) /\ c[Len(c) - Len(s)] = x
  /\ \A k \in 1 .. Len(s) : c[(Len(c) - Len(s)) + k] = s[k]
Without(c, s) == [k \in 1 .. Len(c) - 1 |-> IF k < Len(c) - Len(s) THEN c[k] ELSE c[k + 1]]

LEMMA OverBefore ==
  ASSUME NEW b \in Stacks, NEW c \in Stacks, NEW s \in Stacks, NEW x \in Strings,
         NEW y \in Html, Step(b, y, c), Over(c, x, s), y # <<"+", x>>
  PROVE  Over(b, x, s)
  <1>0. Len(b) \in Nat /\ Len(c) \in Nat /\ Len(s) \in Nat /\ y[1] \in {"+", "-", "t"} /\ y[2] \in Strings
    BY DEF Stacks, Html
  <1>1. CASE y[1] = "+"
    <2>1. c = <<y[2]>> \o b
      BY <1>0, <1>1 DEF Step
    <2>2. Len(c) = Len(b) + 1 /\ c[1] = y[2] /\ \A k \in 1 .. Len(b) : c[k + 1] = b[k]
      BY <1>0, <2>1, ConsFacts DEF Stacks
    <2>3. y[2] # x
      BY <1>1 DEF Html
    <2>4. Len(c) # Len(s) + 1
      BY <1>0, <2>2, <2>3 DEF Over
    <2>5. Len(b) > Len(s)
      BY <1>0, <2>2, <2>4 DEF Over
    <2>6. \A k \in 0 .. Len(s) : b[(Len(b) - Len(s)) + k] = c[(Len(c) - Len(s)) + k]
      <3> SUFFICES ASSUME NEW k \in 0 .. Len(s) PROVE b[(Len(b) - Len(s)) + k] = c[(Len(c) - Len(s)) + k]
        OBVIOUS
      <3>1. (Len(b) - Len(s)) + k \in 1 .. Len(b) /\ (Len(c) - Len(s)) + k = ((Len(b) - Len(s)) + k) + 1
        BY <1>0, <2>2, <2>5
      <3> QED
        BY <2>2, <3>1
    <2>7. b[Len(b) - Len(s)] = c[Len(c) - Len(s)]
      <3>1. 0 \in 0 .. Len(s) /\ (Len(b) - Len(s)) + 0 = Len(b) - Len(s) /\ (Len(c) - Len(s)) + 0 = Len(c) - Len(s)
        BY <1>0
      <3> QED
        BY <2>6, <3>1
    <2> QED
      BY <1>0, <2>5, <2>6, <2>7 DEF Over
  <1>2. CASE y[1] = "-"
    <2>1. b # <<>> /\ c = Tail(b)
      BY <1>0, <1>2 DEF Step
    <2>2. Len(c) = Len(b) - 1 /\ \A k \in 1 .. Len(c) : c[k] = b[k + 1]
      BY <2>1 DEF Stacks
    <2>6. \A k \in 0 .. Len(s) : b[(Len(b) - Len(s)) + k] = c[(Len(c) - Len(s)) + k]
      <3> SUFFICES ASSUME NEW k \in 0 .. Len(s) PROVE b[(Len(b) - Len(s)) + k] = c[(Len(c) - Len(s)) + k]
        OBVIOUS
      <3>1. (Len(c) - Len(s)) + k \in 1 .. Len(c) /\ (Len(b) - Len(s)) + k = ((Len(c) - Len(s)) + k) + 1
        BY <1>0, <2>2 DEF Over
      <3> QED
        BY <2>2, <3>1
    <2>7. b[Len(b) - Len(s)] = c[Len(c) - Len(s)]
      <3>1. 0 \in 0 .. Len(s) /\ (Len(b) - Len(s)) + 0 = Len(b) - Len(s) /\ (Len(c) - Len(s)) + 0 = Len(c) - Len(s)
        BY <1>0
      <3> QED
        BY <2>6, <3>1
    <2> QED
      BY <1>0, <2>2, <2>6, <2>7 DEF Over
  <1>3. CASE y[1] = "t"
    BY <1>3 DEF Step
  <1> QED
    BY <1>0, <1>1, <1>2, <1>3

LEMMA WithoutFacts ==
  ASSUME NEW c \in Stacks, NEW s \in Stacks, NEW x, Over(c, x, s)
  PROVE  /\ Without(c, s) \in Stacks /\ Len(Without(c, s)) = Len(c) - 1
         /\ \A k \in 1 .. Len(c) - 1 :
              Without(c, s)[k] = IF k < Len(c) - Len(s) THEN c[k] ELSE c[k + 1]
  <1>1. Len(c) \in Nat /\ Len(s) \in Nat /\ Len(c) - 1 \in Nat
    BY DEF Over, Stacks
  <1>2. \A k \in 1 .. Len(c) - 1 : c[k] \in Strings /\ c[k + 1] \in Strings
    BY <1>1 DEF Stacks
  <1> QED
    BY <1>1, <1>2 DEF Without, Stacks

LEMMA StepWithout ==
  ASSUME NEW b \in Stacks, NEW c \in Stacks, NEW s \in Stacks, NEW x \in Strings,
         NEW y \in Html, Step(b, y, c), Over(b, x, s), Over(c, x, s)
  PROVE  Step(Without(b, s), y, Without(c, s))
  <1> DEFINE B == Without(b, s)
             C == Without(c, s)
  <1> SUFFICES Step(B, y, C)
    OBVIOUS
  <1>0. Len(b) \in Nat /\ Len(c) \in Nat /\ Len(s) \in Nat /\ y[1] \in {"+", "-", "t"} /\ y[2] \in Strings
    BY DEF Stacks, Html
  <1>b. /\ B \in Stacks /\ Len(B) = Len(b) - 1
        /\ \A k \in 1 .. Len(b) - 1 : B[k] = IF k < Len(b) - Len(s) THEN b[k] ELSE b[k + 1]
    BY WithoutFacts
  <1>c. /\ C \in Stacks /\ Len(C) = Len(c) - 1
        /\ \A k \in 1 .. Len(c) - 1 : C[k] = IF k < Len(c) - Len(s) THEN c[k] ELSE c[k + 1]
    BY WithoutFacts
  <1>l. Len(b) > Len(s) /\ Len(c) > Len(s)
    BY DEF Over
  <1> HIDE DEF B, C
  <1>1. CASE y[1] = "+"
    <2>1. c = <<y[2]>> \o b /\ (y[2] \in Single => \A i \in DOMAIN b : b[i] # y[2])
      BY <1>0, <1>1 DEF Step
    <2>2. Len(c) = Len(b) + 1 /\ c[1] = y[2] /\ \A k \in 1 .. Len(b) : c[k + 1] = b[k]
      BY <1>0, <2>1, ConsFacts DEF Stacks
    <2>3. /\ <<y[2]>> \o B \in Seq(Strings) /\ Len(<<y[2]>> \o B) = Len(b)
          /\ (<<y[2]>> \o B)[1] = y[2]
          /\ \A k \in 1 .. Len(b) - 1 : (<<y[2]>> \o B)[k + 1] = B[k]
      BY <1>0, <1>b, <1>l, ConsFacts DEF Stacks
    <2>4. ASSUME NEW k \in 1 .. Len(C) PROVE C[k] = (<<y[2]>> \o B)[k]
      <3>1. CASE k = 1
        <4>1. 1 < Len(c) - Len(s) /\ 1 \in 1 .. Len(c) - 1
          BY <1>0, <1>l, <2>2
        <4> QED
          BY <1>c, <2>2, <2>3, <3>1, <4>1
      <3>2. CASE k # 1
        <4>1. k - 1 \in 1 .. Len(b) - 1 /\ (k - 1) + 1 = k /\ k \in 1 .. Len(c) - 1
              /\ k \in 1 .. Len(b) /\ k - 1 \in 1 .. Len(b)
          BY <1>0, <1>c, <1>l, <2>2, <3>2
        <4>2. (<<y[2]>> \o B)[k] = B[k - 1]
          BY <2>3, <4>1
        <4>3. c[k] = b[k - 1] /\ c[k + 1] = b[k]
          BY <2>2, <4>1
        <4>4. k < Len(c) - Len(s) <=> k - 1 < Len(b) - Len(s)
          BY <1>0, <2>2
        <4> QED
          BY <1>b, <1>c, <4>1, <4>2, <4>3, <4>4
      <3> QED
        BY <3>1, <3>2
    <2>5. C = <<y[2]>> \o B
      <3>1. Len(C) = Len(<<y[2]>> \o B)
        BY <1>0, <1>c, <2>2, <2>3
      <3> DEFINE D == <<y[2]>> \o B
      <3>2. C \in Seq(Strings) /\ D \in Seq(Strings) /\ Len(C) = Len(D) /\ \A k \in 1 .. Len(C) : C[k] = D[k]
        BY <1>c, <2>3, <2>4, <3>1 DEF Stacks
      <3> HIDE DEF D
      <3>3. C = D
        BY <3>2, SeqEqual
      <3> QED
        BY <3>3 DEF D
    <2>6. ASSUME y[2] \in Single, NEW i \in DOMAIN B PROVE B[i] # y[2]
      <3>1. i \in 1 .. Len(b) - 1 /\ i \in DOMAIN b /\ i + 1 \in DOMAIN b
        BY <1>0, <1>b, <1>l DEF Stacks
      <3> QED
        BY <1>b, <2>1, <2>6, <3>1
    <2> QED
      BY <1>1, <2>5, <2>6 DEF Step
  <1>2. CASE y[1] = "-"
    <2>1. b # <<>> /\ c = Tail(b) /\ Head(b) = y[2]
      BY <1>0, <1>2 DEF Step
    <2>2. Len(c) = Len(b) - 1 /\ \A k \in 1 .. Len(c) : c[k] = b[k + 1]
      BY <2>1 DEF Stacks
    <2>3. B # <<>> /\ Head(B) = y[2]
      <3>1. Len(B) >= 1 /\ 1 \in 1 .. Len(b) - 1 /\ 1 < Len(b) - Len(s)
        BY <1>0, <1>b, <1>l, <2>2
      <3>2. B[1] = b[1]
        BY <1>b, <3>1
      <3>3. Head(b) = b[1] /\ Head(B) = B[1]
        BY <1>b, <2>1 DEF Stacks
      <3> QED
        BY <1>b, <2>1, <3>1, <3>2, <3>3 DEF Stacks
    <2>4. Tail(B) \in Seq(Strings) /\ Len(Tail(B)) = Len(b) - 2 /\ \A k \in 1 .. Len(b) - 2 : Tail(B)[k] = B[k + 1]
      BY <1>0, <1>b, <2>3 DEF Stacks
    <2>5. ASSUME NEW k \in 1 .. Len(C) PROVE C[k] = Tail(B)[k]
      <3>1. k \in 1 .. Len(b) - 2 /\ k \in 1 .. Len(c) - 1 /\ k + 1 \in 1 .. Len(b) - 1
            /\ k \in 1 .. Len(c) /\ k + 1 \in 1 .. Len(c)
            /\ (k < Len(c) - Len(s) <=> k + 1 < Len(b) - Len(s))
        BY <1>0, <1>c, <2>2
      <3>2. c[k] = b[k + 1] /\ c[k + 1] = b[(k + 1) + 1]
        BY <2>2, <3>1
      <3>3. B[k + 1] = IF k + 1 < Len(b) - Len(s) THEN b[k + 1] ELSE b[(k + 1) + 1]
        BY <1>b, <3>1
      <3>4. C[k] = IF k < Len(c) - Len(s) THEN c[k] ELSE c[k + 1]
        BY <1>c, <3>1
      <3> QED
        BY <2>4, <3>1, <3>2, <3>3, <3>4
    <2>6. C = Tail(B)
      <3>1. C \in Seq(Strings) /\ Len(C) = Len(Tail(B))
        BY <1>0, <1>c, <2>2, <2>4 DEF Stacks
      <3> QED
        BY <2>4, <2>5, <3>1, SeqEqual
    <2> QED
      BY <1>2, <2>3, <2>6 DEF Step
  <1>3. CASE y[1] = "t"
    <2>1. b = c
      BY <1>3 DEF Step
    <2> QED
      BY <1>3, <2>1 DEF Step, B, C
  <1> QED
    BY <1>0, <1>1, <1>2, <1>3

Starts(h, x) == {i \in DOMAIN h : h[i] = <<"+", x>>}
LEMMA Undone ==
  ASSUME NEW h \in Seq(Html), NEW x \in Single, NEW s \in Stacks, NEW w \in Strings,
         Walk(<<>>, h, <<x>> \o s)
  PROVE  /\ Starts(h, x) # {} /\ Max(Starts(h, x)) \in 1 .. Len(h)
         /\ [h EXCEPT ![Max(Starts(h, x))] = <<"t", w>>] \in Seq(Html)
         /\ Walk(<<>>, [h EXCEPT ![Max(Starts(h, x))] = <<"t", w>>], s)
  <1> DEFINE n == Len(h)
             p == Max(Starts(h, x))
  <1>0. /\ n \in Nat /\ DOMAIN h = 1 .. n /\ \A i \in 1 .. n : h[i] \in Html
        /\ x \in Strings /\ h \in Seq(Marks_) /\ Len(s) \in Nat
    <2>1. n \in Nat /\ DOMAIN h = 1 .. n /\ \A i \in 1 .. n : h[i] \in Html
      OBVIOUS
    <2>2. x \in Strings
      BY DEF Strings, Single, Fonts
    <2>3. Html \subseteq Marks_
      BY DEF Html, Marks_
    <2>4. h \in Seq(Marks_)
      BY <2>3, SeqMonotonic
    <2>5. Len(s) \in Nat
      BY DEF Stacks
    <2> QED
      BY <2>1, <2>2, <2>4, <2>5
  <1>1. PICK f \in Trails(<<>>, h, <<x>> \o s) : TRUE
    BY DEF Walk
  <1>2. /\ f \in [0 .. n -> Stacks] /\ f[0] = <<>> /\ f[n] = <<x>> \o s
        /\ \A i \in 1 .. n : Step(f[i - 1], h[i], f[i])
    BY <1>1 DEF Trails
  <1>3. Over(f[n], x, s)
    <2>1. /\ Len(<<x>> \o s) = Len(s) + 1 /\ (<<x>> \o s)[1] = x
          /\ \A k \in 1 .. Len(s) : (<<x>> \o s)[k + 1] = s[k]
      BY <1>0, ConsFacts DEF Stacks
    <2> DEFINE c == <<x>> \o s
    <2>2. Len(c) = Len(s) + 1 /\ c[1] = x /\ \A k \in 1 .. Len(s) : c[k + 1] = s[k]
      BY <2>1
    <2> HIDE DEF c
    <2>3. Len(c) > Len(s) /\ Len(c) - Len(s) = 1 /\ \A k \in 1 .. Len(s) : (Len(c) - Len(s)) + k = k + 1
      BY <1>0, <2>2
    <2>4. Over(c, x, s)
      BY <2>2, <2>3 DEF Over
    <2> QED
      BY <1>2, <2>4 DEF c
  <1> HIDE DEF n
  <1> DEFINE P == {i \in Nat : i <= n /\ (\A m \in (n - i) + 1 .. n : h[m] # <<"+", x>>) => Over(f[n - i], x, s)}
  <1>4. Nat \subseteq P
    <2>1. 0 \in P
      BY <1>0, <1>3
    <2>2. ASSUME NEW i \in Nat, i \in P PROVE i + 1 \in P
      <3> SUFFICES ASSUME i + 1 <= n, \A m \in (n - (i + 1)) + 1 .. n : h[m] # <<"+", x>>
                   PROVE  Over(f[n - (i + 1)], x, s)
        OBVIOUS
      <3> DEFINE j == n - i
      <3>1. j \in 1 .. n /\ n - (i + 1) = j - 1 /\ j - 1 \in 0 .. n /\ j \in 0 .. n /\ (n - (i + 1)) + 1 = j /\ i <= n
        BY <1>0
      <3>2. Over(f[j], x, s)
        BY <2>2, <3>1
      <3>3. h[j] # <<"+", x>> /\ h[j] \in Html
        BY <1>0, <3>1
      <3>4. Step(f[j - 1], h[j], f[j]) /\ f[j - 1] \in Stacks /\ f[j] \in Stacks
        BY <1>2, <3>1
      <3> HIDE DEF j
      <3>5. Over(f[j - 1], x, s)
        BY <1>0, <3>2, <3>3, <3>4, OverBefore
      <3> QED
        BY <3>1, <3>5
    <2> HIDE DEF P
    <2> QED
      BY <2>1, <2>2, SetInduction
  <1>5. ASSUME NEW j \in 0 .. n, \A m \in j + 1 .. n : h[m] # <<"+", x>> PROVE Over(f[j], x, s)
    <2>1. n - j \in Nat /\ n - j <= n /\ n - (n - j) = j
      BY <1>0
    <2>2. n - j \in P
      BY <1>4, <2>1
    <2> QED
      BY <1>5, <2>1, <2>2
  <1>6. Starts(h, x) # {}
    <2> SUFFICES ASSUME Starts(h, x) = {} PROVE FALSE
      OBVIOUS
    <2>1. \A m \in 1 .. n : h[m] # <<"+", x>>
      BY <1>0 DEF Starts
    <2>2. Over(f[0], x, s)
      <3>1. 0 \in 0 .. n /\ \A m \in 0 + 1 .. n : m \in 1 .. n
        BY <1>0
      <3>2. \A m \in 0 + 1 .. n : h[m] # <<"+", x>>
        BY <2>1, <3>1
      <3> QED
        BY <1>5, <3>1, <3>2
    <2>3. Len(<<>>) = 0
      OBVIOUS
    <2> QED
      BY <1>0, <1>2, <2>2, <2>3 DEF Over
  <1>7. p \in Starts(h, x) /\ \A i \in Starts(h, x) : i <= p
    <2>1. Starts(h, x) \subseteq Nat /\ \A i \in Starts(h, x) : i <= n
      BY <1>0 DEF Starts
    <2> QED
      BY <1>0, <1>6, <2>1, MaxFacts
  <1>8. p \in 1 .. n /\ h[p] = <<"+", x>> /\ \A m \in p + 1 .. n : h[m] # <<"+", x>>
    <2>1. p \in 1 .. n /\ h[p] = <<"+", x>>
      BY <1>0, <1>7 DEF Starts
    <2>2. ASSUME NEW m \in p + 1 .. n, h[m] = <<"+", x>> PROVE FALSE
      <3> HIDE DEF p
      <3>1. m \in 1 .. n /\ m > p
        BY <1>0, <2>1
      <3>2. m \in Starts(h, x)
        BY <1>0, <2>2, <3>1 DEF Starts
      <3> QED
        BY <1>0, <1>7, <2>1, <3>1, <3>2
    <2> QED
      BY <2>1, <2>2
  <1> HIDE DEF p
  <1>9. \A j \in p .. n : Over(f[j], x, s)
    <2> SUFFICES ASSUME NEW j \in p .. n PROVE Over(f[j], x, s)
      OBVIOUS
    <2>1. j \in 0 .. n /\ \A m \in j + 1 .. n : m \in p + 1 .. n
      BY <1>0, <1>8
    <2> QED
      BY <1>5, <1>8, <2>1
  <1>10. f[p] = <<x>> \o s /\ f[p - 1] = s
    <2>1. /\ p \in 1 .. n /\ p - 1 \in 0 .. n /\ p \in 0 .. n /\ p \in p .. n
      BY <1>0, <1>8
    <2>2. f[p - 1] \in Stacks /\ f[p] \in Stacks /\ Step(f[p - 1], <<"+", x>>, f[p]) /\ Over(f[p], x, s)
      BY <1>2, <1>8, <1>9, <2>1
    <2> DEFINE b == f[p - 1]
               c == f[p]
    <2>3. c = <<x>> \o b /\ \A i \in DOMAIN b : b[i] # x
      BY <2>2 DEF Step
    <2>4. b \in Seq(Strings) /\ c \in Seq(Strings) /\ Over(c, x, s)
      BY <2>2 DEF Stacks
    <2> HIDE DEF b, c
    <2>5. Len(c) = Len(b) + 1 /\ (\A k \in 1 .. Len(b) : c[k + 1] = b[k]) /\ Len(b) \in Nat
      BY <1>0, <2>3, <2>4, ConsFacts
    <2>6. Len(c) = Len(s) + 1
      <3> SUFFICES ASSUME Len(c) > Len(s) + 1 PROVE FALSE
        BY <1>0, <2>4, <2>5 DEF Over
      <3>1. (Len(c) - Len(s)) - 1 \in 1 .. Len(b) /\ ((Len(c) - Len(s)) - 1) + 1 = Len(c) - Len(s)
        BY <1>0, <2>5
      <3>2. c[Len(c) - Len(s)] = b[(Len(c) - Len(s)) - 1]
        BY <2>5, <3>1
      <3>3. (Len(c) - Len(s)) - 1 \in DOMAIN b
        BY <2>4, <3>1
      <3> QED
        BY <2>3, <2>4, <3>2, <3>3 DEF Over
    <2>7. b = s
      <3>1. Len(b) = Len(s) /\ s \in Seq(Strings) /\ Len(c) - Len(s) = 1
        BY <1>0, <2>5, <2>6 DEF Stacks
      <3>2. \A k \in 1 .. Len(b) : b[k] = s[k]
        <4> SUFFICES ASSUME NEW k \in 1 .. Len(b) PROVE b[k] = s[k]
          OBVIOUS
        <4>1. c[1 + k] = s[k] /\ 1 + k = k + 1
          BY <2>4, <3>1 DEF Over
        <4> QED
          BY <2>5, <4>1
      <3> QED
        BY <2>4, <3>1, <3>2, SeqEqual
    <2> QED
      BY <2>3, <2>7 DEF b, c
  <1> DEFINE H == [h EXCEPT ![p] = <<"t", w>>]
             g == [j \in 0 .. n |-> IF j < p THEN f[j] ELSE Without(f[j], s)]
  <1>11. Without(<<x>> \o s, s) = s
    <2>1. /\ <<x>> \o s \in Seq(Strings) /\ Len(<<x>> \o s) = Len(s) + 1
          /\ \A k \in 1 .. Len(s) : (<<x>> \o s)[k + 1] = s[k]
      BY <1>0, ConsFacts DEF Stacks
    <2> DEFINE c == <<x>> \o s
    <2>2. Len(c) = Len(s) + 1 /\ \A k \in 1 .. Len(s) : c[k + 1] = s[k]
      BY <2>1
    <2> HIDE DEF c
    <2>3. Over(c, x, s) /\ c \in Stacks
      BY <1>2, <1>3, <2>1 DEF c, Stacks
    <2>4. Without(c, s) \in Seq(Strings) /\ Len(Without(c, s)) = Len(s) /\ s \in Seq(Strings)
      BY <1>0, <2>2, <2>3, WithoutFacts DEF Stacks
    <2>5. ASSUME NEW k \in 1 .. Len(s) PROVE Without(c, s)[k] = s[k]
      <3>1. k \in 1 .. Len(c) - 1 /\ ~ (k < Len(c) - Len(s))
        BY <1>0, <2>2
      <3>2. Without(c, s)[k] = c[k + 1]
        BY <2>3, <3>1, WithoutFacts
      <3> QED
        BY <2>2, <3>2
    <2> QED
      BY <2>4, <2>5, SeqEqual DEF c
  <1>12. H \in Seq(Html) /\ Len(H) = n /\ H[p] = <<"t", w>> /\ \A i \in 1 .. n : i # p => H[i] = h[i]
    <2>1. <<"t", w>> \in Html
      BY DEF Html
    <2> QED
      BY <1>8, <2>1 DEF n
  <1>13. g \in [0 .. n -> Stacks]
    <2>1. ASSUME NEW j \in 0 .. n PROVE g[j] \in Stacks
      <3>1. CASE j < p
        BY <1>2, <3>1
      <3>2. CASE ~ (j < p)
        <4>1. Over(f[j], x, s) /\ f[j] \in Stacks
          BY <1>0, <1>2, <1>8, <1>9, <3>2
        <4>2. Without(f[j], s) \in Stacks
          BY <4>1, WithoutFacts
        <4> QED
          BY <3>2, <4>2
      <3> QED
        BY <3>1, <3>2
    <2> QED
      BY <2>1
  <1>14. \A j \in 0 .. n : g[j] = IF j < p THEN f[j] ELSE Without(f[j], s)
    OBVIOUS
  <1> HIDE DEF H, g
  <1>15. ASSUME NEW i \in 1 .. n PROVE Step(g[i - 1], H[i], g[i])
    <2>0. i \in 0 .. n /\ i - 1 \in 0 .. n /\ p \in Nat /\ i \in Nat
      BY <1>0, <1>8
    <2>1. CASE i < p
      <3>1. g[i] = f[i] /\ g[i - 1] = f[i - 1] /\ H[i] = h[i]
        BY <1>12, <1>14, <2>0, <2>1
      <3> QED
        BY <1>2, <3>1
    <2>2. CASE i = p
      <3>1. g[i] = Without(f[p], s) /\ g[i - 1] = f[p - 1]
        BY <1>14, <2>0, <2>2
      <3>2. g[i] = s /\ g[i - 1] = s
        BY <1>10, <1>11, <3>1
      <3> QED
        BY <1>12, <2>2, <3>2 DEF Step
    <2>3. CASE i > p
      <3>1. g[i] = Without(f[i], s) /\ g[i - 1] = Without(f[i - 1], s) /\ H[i] = h[i]
        BY <1>12, <1>14, <2>0, <2>3
      <3>2. i \in p .. n /\ i - 1 \in p .. n
        BY <1>0, <2>0, <2>3
      <3>3. Over(f[i], x, s) /\ Over(f[i - 1], x, s) /\ Step(f[i - 1], h[i], f[i])
            /\ f[i] \in Stacks /\ f[i - 1] \in Stacks /\ h[i] \in Html
        BY <1>0, <1>2, <1>9, <2>0, <3>2
      <3>4. Step(Without(f[i - 1], s), h[i], Without(f[i], s))
        BY <1>0, <3>3, StepWithout
      <3> QED
        BY <3>1, <3>4
    <2> QED
      BY <2>0, <2>1, <2>2, <2>3
  <1>16. g[0] = <<>> /\ g[n] = s
    <2>1. 0 \in 0 .. n /\ n \in 0 .. n /\ 0 < p /\ ~ (n < p)
      BY <1>0, <1>8
    <2>2. g[0] = f[0] /\ g[n] = Without(f[n], s)
      BY <1>14, <2>1
    <2> QED
      BY <1>2, <1>11, <2>2
  <1>17. H \in Seq(Marks_)
    BY <1>12 DEF Html, Marks_
  <1>18. Walk(g[0], H, g[Len(H)])
    BY <1>12, <1>13, <1>15, <1>17, WalkBy
  <1>19. Walk(<<>>, H, s)
    BY <1>12, <1>16, <1>18
  <1> QED
    BY <1>6, <1>8, <1>12, <1>19 DEF n, p, H

-----------------------------------------------------------------------------
(* Sequences put together.                                                 *)

LEMMA FlattenType ==
  ASSUME NEW S, NEW seqs \in Seq(Seq(S))
  PROVE  FlattenSeq(seqs) \in Seq(S)
  <1>1. CASE seqs = <<>>
    <2>1. FlattenSeq(<<>>) = <<>> /\ <<>> \in Seq(S)
      BY DEF FlattenSeq
    <2> QED
      BY <1>1, <2>1, Zenon
  <1>2. CASE seqs # <<>>
    <2>0. Len(seqs) \in Nat /\ Len(seqs) # 0
      BY <1>2
    <2>1. Len(seqs) \in 1 .. Len(seqs)
      BY <2>0
    <2>2. PICK f \in [1 .. Len(seqs) -> Seq(S)] : FlattenSeq(seqs) = f[Len(seqs)]
      BY <1>2, FlattenSteps
    <2> QED
      BY <2>1, <2>2
  <1> QED
    BY <1>1, <1>2

LEMMA GoesFlatten ==
  ASSUME NEW A, NEW seqs \in Seq(Seq(Tokens(A))), NEW g \in [0 .. Len(seqs) -> Stacks],
         \A i \in 1 .. Len(seqs) : Goes(g[i - 1], seqs[i], g[i])
  PROVE  Goes(g[0], FlattenSeq(seqs), g[Len(seqs)])
  <1> DEFINE n == Len(seqs)
  <1>0. n \in Nat /\ g[0] \in Stacks /\ \A i \in 1 .. n : seqs[i] \in Seq(Tokens(A))
    OBVIOUS
  <1>1. CASE seqs = <<>>
    <2>1. FlattenSeq(<<>>) = <<>> /\ n = 0
      BY <1>1 DEF FlattenSeq
    <2> QED
      BY <1>0, <1>1, <2>1, GoesNone
  <1>2. CASE seqs # <<>>
    <2>0. n >= 1
      BY <1>2
    <2>1. PICK f \in [1 .. n -> Seq(Tokens(A))] :
             /\ f[1] = seqs[1]
             /\ \A i \in 2 .. n : f[i] = f[i - 1] \o seqs[i]
             /\ FlattenSeq(seqs) = f[n]
      BY <1>2, FlattenSteps
    <2> DEFINE P == {i \in Nat : i + 1 <= n => Goes(g[0], f[i + 1], g[i + 1])}
    <2>w. \A i \in 1 .. n : Goes(g[i - 1], seqs[i], g[i])
      OBVIOUS
    <2> HIDE DEF n
    <2>2. 0 \in P
      <3>1. 1 \in 1 .. n /\ 1 - 1 = 0 /\ 0 + 1 = 1
        BY <1>0, <2>0
      <3>2. Goes(g[0], seqs[1], g[1])
        BY <2>w, <3>1
      <3> QED
        BY <2>1, <3>1, <3>2
    <2>3. ASSUME NEW i \in Nat, i \in P PROVE i + 1 \in P
      <3> SUFFICES ASSUME (i + 1) + 1 <= n PROVE Goes(g[0], f[(i + 1) + 1], g[(i + 1) + 1])
        OBVIOUS
      <3> DEFINE j == i + 1
      <3>1. j \in 1 .. n /\ j + 1 \in 2 .. n /\ j + 1 \in 1 .. n /\ (j + 1) - 1 = j /\ i + 1 <= n
        BY <1>0
      <3>2. Goes(g[0], f[j], g[j])
        BY <2>3, <3>1
      <3>3. Goes(g[j], seqs[j + 1], g[j + 1]) /\ f[j + 1] = f[j] \o seqs[j + 1]
        BY <2>1, <2>w, <3>1
      <3>4. f[j] \in Seq(Tokens(A)) /\ seqs[j + 1] \in Seq(Tokens(A))
        BY <1>0, <2>1, <3>1
      <3> HIDE DEF j
      <3>5. Goes(g[0], f[j + 1], g[j + 1])
        BY <3>2, <3>3, <3>4, GoesJoin
      <3> QED
        BY <3>5 DEF j
    <2>4. n - 1 \in P
      <3>1. Nat \subseteq P
        <4> HIDE DEF P
        <4> QED
          BY <2>2, <2>3, SetInduction
      <3>2. n - 1 \in Nat
        BY <1>0, <2>0
      <3> QED
        BY <3>1, <3>2
    <2>5. Goes(g[0], f[n], g[n])
      <3>1. (n - 1) + 1 = n /\ n <= n
        BY <1>0
      <3> QED
        BY <2>4, <3>1
    <2> QED
      BY <2>1, <2>5 DEF n
  <1> QED
    BY <1>1, <1>2

\* Blocks of which each is complete are complete together.
LEMMA WalkFlatten ==
  ASSUME NEW seqs \in Seq(Seq(Html)), \A i \in 1 .. Len(seqs) : Walk(<<>>, seqs[i], <<>>)
  PROVE  Walk(<<>>, FlattenSeq(seqs), <<>>)
  <1> DEFINE n == Len(seqs)
  <1>m. Html \subseteq Marks_
    BY DEF Html, Marks_
  <1>0. n \in Nat /\ <<>> \in Stacks /\ \A i \in 1 .. n : seqs[i] \in Seq(Html)
    BY DEF Stacks
  <1>1. CASE seqs = <<>>
    <2>1. FlattenSeq(<<>>) = <<>>
      BY DEF FlattenSeq
    <2> QED
      BY <1>0, <1>1, <2>1, WalkNothing
  <1>2. CASE seqs # <<>>
    <2>0. n >= 1
      BY <1>2
    <2>1. PICK f \in [1 .. n -> Seq(Html)] :
             /\ f[1] = seqs[1]
             /\ \A i \in 2 .. n : f[i] = f[i - 1] \o seqs[i]
             /\ FlattenSeq(seqs) = f[n]
      BY <1>2, FlattenSteps
    <2> DEFINE P == {i \in Nat : i + 1 <= n => Walk(<<>>, f[i + 1], <<>>)}
    <2>w. \A i \in 1 .. n : Walk(<<>>, seqs[i], <<>>)
      OBVIOUS
    <2> HIDE DEF n
    <2>2. 0 \in P
      <3>1. 1 \in 1 .. n /\ 0 + 1 = 1
        BY <1>0, <2>0
      <3> QED
        BY <2>1, <2>w, <3>1
    <2>3. ASSUME NEW i \in Nat, i \in P PROVE i + 1 \in P
      <3> SUFFICES ASSUME (i + 1) + 1 <= n PROVE Walk(<<>>, f[(i + 1) + 1], <<>>)
        OBVIOUS
      <3> DEFINE j == i + 1
      <3>1. j \in 1 .. n /\ j + 1 \in 2 .. n /\ j + 1 \in 1 .. n /\ (j + 1) - 1 = j /\ i + 1 <= n
        BY <1>0
      <3>2. Walk(<<>>, f[j], <<>>)
        BY <2>3, <3>1
      <3>3. Walk(<<>>, seqs[j + 1], <<>>) /\ f[j + 1] = f[j] \o seqs[j + 1]
        BY <2>1, <2>w, <3>1
      <3>4. f[j] \in Seq(Marks_) /\ seqs[j + 1] \in Seq(Marks_)
        <4>1. f[j] \in Seq(Html) /\ seqs[j + 1] \in Seq(Html)
          BY <1>0, <2>1, <3>1
        <4> QED
          BY <1>m, <4>1, SeqMonotonic
      <3> HIDE DEF j
      <3>5. Walk(<<>>, f[j + 1], <<>>)
        BY <3>2, <3>3, <3>4, WalkJoin
      <3> QED
        BY <3>5 DEF j
    <2>4. n - 1 \in P
      <3>1. Nat \subseteq P
        <4> HIDE DEF P
        <4> QED
          BY <2>2, <2>3, SetInduction
      <3>2. n - 1 \in Nat
        BY <1>0, <2>0
      <3> QED
        BY <3>1, <3>2
    <2>5. Walk(<<>>, f[n], <<>>)
      <3>1. (n - 1) + 1 = n /\ n <= n
        BY <1>0
      <3> QED
        BY <2>4, <3>1
    <2> QED
      BY <2>1, <2>5 DEF n
  <1> QED
    BY <1>1, <1>2

\* Starts and ends of the same element.
Rep(e, n) == [i \in 1 .. n |-> e]
LEMMA RepFacts ==
  ASSUME NEW S, NEW e \in S, NEW n \in Nat
  PROVE  /\ Rep(e, n) \in Seq(S) /\ Len(Rep(e, n)) = n
         /\ <<e>> \o Rep(e, n) = Rep(e, n + 1)
  <1>1. Rep(e, n) \in Seq(S) /\ Len(Rep(e, n)) = n /\ \A i \in 1 .. n : Rep(e, n)[i] = e
    BY DEF Rep
  <1>2. Rep(e, n + 1) \in Seq(S) /\ Len(Rep(e, n + 1)) = n + 1 /\ \A i \in 1 .. n + 1 : Rep(e, n + 1)[i] = e
    BY DEF Rep
  <1> DEFINE p == <<e>> \o Rep(e, n)
  <1>3. p \in Seq(S) /\ Len(p) = n + 1 /\ p[1] = e /\ \A i \in 1 .. n : p[i + 1] = e
    BY <1>1, ConsFacts
  <1> HIDE DEF p
  <1>4. \A i \in 1 .. n + 1 : p[i] = Rep(e, n + 1)[i]
    <2> SUFFICES ASSUME NEW i \in 1 .. n + 1 PROVE p[i] = e
      BY <1>2
    <2>1. CASE i = 1
      BY <1>3, <2>1
    <2>2. CASE i # 1
      <3>1. i - 1 \in 1 .. n /\ (i - 1) + 1 = i
        BY <2>2
      <3> QED
        BY <1>3, <3>1
    <2> QED
      BY <2>1, <2>2
  <1>5. p = Rep(e, n + 1)
    BY <1>2, <1>3, <1>4, SeqEqual
  <1> QED
    BY <1>1, <1>5 DEF p

-----------------------------------------------------------------------------
(* Tokens that begin and end elements.                                     *)

LEMMA Plainly ==
  /\ "text" \in {"text"} /\ <<>> \in Seq(Strings)
  /\ Elements \subseteq Strings /\ Fonts \subseteq Strings /\ Marks \subseteq Strings
  /\ Elements \cap Fonts = {} /\ Single \subseteq Fonts
  BY DEF Strings, Elements, Fonts, Marks, Single

LEMMA BlankType ==
  ASSUME NEW A
  PROVE  Blank \in Tokens(A)
  <1>1. <<>> \in Seq(Strings) /\ <<>> \in Seq(A) /\ "" \in Strings
    BY DEF Strings
  <1>2. "blank" \in QueueKinds
    BY DEF QueueKinds, LineKinds
  <1> QED
    BY <1>1, <1>2 DEF Blank, Tokens

LEMMA BeginEnd ==
  ASSUME NEW A, NEW e \in Elements
  PROVE  /\ Begin(e) \in Tokens(A) /\ End(e) \in Tokens(A)
         /\ Begin(e) \in Toks(A) /\ End(e) \in Toks(A)
         /\ Begin(e) \in CallToks(A) /\ End(e) \in CallToks(A)
         /\ Mark(Begin(e)) = <<"+", e>> /\ Mark(End(e)) = <<"-", e>>
         /\ Begin(e).k = "begin" /\ End(e).k = "end" /\ Begin(e).el = e /\ End(e).el = e
  <1>1. Blank \in Tokens(A)
    BY BlankType
  <1>2. e \in Strings
    BY DEF Strings
  <1>3. "begin" \in CallKinds /\ "end" \in CallKinds /\ "begin" \in QueueKinds /\ "end" \in QueueKinds
    BY DEF CallKinds, QueueKinds
  <1>4. Begin(e) \in Tokens(A) /\ End(e) \in Tokens(A)
    BY <1>1, <1>2, <1>3 DEF Begin, End, Tokens
  <1>5. Begin(e).k = "begin" /\ End(e).k = "end" /\ Begin(e).el = e /\ End(e).el = e
    BY <1>1 DEF Begin, End, Tokens
  <1>6. Fits(Begin(e)) /\ Fits(End(e))
    BY <1>3, <1>5 DEF Fits, Inners
  <1>7. Begin(e) \in CallToks(A) /\ End(e) \in CallToks(A)
    BY <1>3, <1>4, <1>5 DEF CallToks, Opener
  <1> QED
    BY <1>4, <1>5, <1>6, <1>7 DEF Toks, Mark

LEMMA TextType ==
  ASSUME NEW A, NEW k, NEW txt \in Seq(Strings)
  PROVE  /\ k \in QueueKinds \cup CallKinds \cup NoteKinds => Text(k, txt) \in Tokens(A)
         /\ Text(k, txt).k = k /\ Text(k, txt).txt = txt /\ Text(k, txt).kid = <<>>
         /\ k \in {"para", "ptext"} => Text(k, txt) \in Toks(A)
         /\ k \in {"title", "plain", "text", "ltext", "endstyle"} \cup Links => Text(k, txt) \in CallToks(A)
  <1>1. Blank \in Tokens(A) /\ Blank.kid = <<>>
    BY BlankType DEF Blank
  <1>2. /\ Text(k, txt).k = k /\ Text(k, txt).txt = txt /\ Text(k, txt).kid = <<>>
        /\ k \in QueueKinds \cup CallKinds \cup NoteKinds => Text(k, txt) \in Tokens(A)
    BY <1>1 DEF Text, Tokens
  <1>3. ASSUME k \in {"para", "ptext"} PROVE Text(k, txt) \in Toks(A)
    <2>1. k \in QueueKinds
      BY <1>3 DEF QueueKinds
    <2> QED
      BY <1>2, <1>3, <2>1 DEF Toks, Fits, Inners
  <1>4. ASSUME k \in {"title", "plain", "text", "ltext", "endstyle"} \cup Links PROVE Text(k, txt) \in CallToks(A)
    <2>1. k \in CallKinds
      BY <1>4 DEF CallKinds, Links
    <2> QED
      BY <1>2, <1>4, <2>1 DEF CallToks, Opener, Links
  <1> QED
    BY <1>2, <1>3, <1>4

LEMMA StepBegin ==
  ASSUME NEW a \in Stacks, NEW e \in Elements
  PROVE  Step(a, <<"+", e>>, <<e>> \o a) /\ <<e>> \o a \in Stacks
  <1>1. e \in Strings /\ e \notin Single
    BY DEF Strings, Elements, Single
  <1>2. <<e>> \o a \in Stacks
    BY <1>1, ConsFacts DEF Stacks
  <1> QED
    BY <1>1, <1>2 DEF Step

LEMMA StepEnd ==
  ASSUME NEW a \in Stacks, NEW e \in Strings
  PROVE  Step(<<e>> \o a, <<"-", e>>, a)
  <1>1. <<e>> \o a # <<>> /\ Head(<<e>> \o a) = e /\ Tail(<<e>> \o a) = a
    BY ConsFacts DEF Stacks
  <1> QED
    BY <1>1 DEF Step

LEMMA RepOn ==
  ASSUME NEW s \in Stacks, NEW e \in Elements, NEW n \in Nat
  PROVE  /\ Rep(e, n) \o s \in Stacks
         /\ Step(Rep(e, n) \o s, <<"+", e>>, Rep(e, n + 1) \o s)
         /\ Step(Rep(e, n + 1) \o s, <<"-", e>>, Rep(e, n) \o s)
         /\ Rep(e, 0) \o s = s
  <1>1. e \in Strings
    BY DEF Strings
  <1>2. Rep(e, n) \in Seq(Strings) /\ <<e>> \o Rep(e, n) = Rep(e, n + 1) /\ s \in Seq(Strings)
    BY <1>1, RepFacts DEF Stacks
  <1>3. Rep(e, n) \o s \in Stacks
    BY <1>2 DEF Stacks
  <1>4. <<e>> \o (Rep(e, n) \o s) = Rep(e, n + 1) \o s
    <2>1. <<e>> \in Seq(Strings)
      BY <1>1
    <2>2. <<e>> \o (Rep(e, n) \o s) = (<<e>> \o Rep(e, n)) \o s
      BY <1>2, <2>1
    <2> QED
      BY <1>2, <2>2
  <1>5. Rep(e, 0) \o s = s
    <2>1. Rep(e, 0) = <<>>
      BY DEF Rep
    <2> QED
      BY <1>2, <2>1, ConcatEmptySeq
  <1>6. /\ Step(Rep(e, n) \o s, <<"+", e>>, <<e>> \o (Rep(e, n) \o s))
        /\ Step(<<e>> \o (Rep(e, n) \o s), <<"-", e>>, Rep(e, n) \o s)
    BY <1>1, <1>3, StepBegin, StepEnd
  <1> QED
    BY <1>3, <1>4, <1>5, <1>6

LEMMA LevelsGo ==
  ASSUME NEW A, NEW s \in Stacks, NEW e \in Elements, NEW from \in Nat, NEW to \in Nat
  PROVE  /\ Levels(from, to, e) \in Seq(Toks(A))
         /\ Goes(Rep(e, from) \o s, Levels(from, to, e), Rep(e, to) \o s)
  <1> DEFINE t == Levels(from, to, e)
  <1>b. /\ Begin(e) \in Tokens(A) /\ End(e) \in Tokens(A)
        /\ Begin(e) \in Toks(A) /\ End(e) \in Toks(A)
        /\ Mark(Begin(e)) = <<"+", e>> /\ Mark(End(e)) = <<"-", e>>
    BY BeginEnd
  <1>1. CASE to > from
    <2>1. /\ t \in Seq(Toks(A)) /\ t \in Seq(Tokens(A)) /\ Len(t) = to - from
          /\ \A i \in 1 .. to - from : t[i] = Begin(e)
      <3>1. t = [i \in 1 .. to - from |-> Begin(e)] /\ to - from \in Nat
        BY <1>1 DEF Levels
      <3> HIDE DEF t
      <3> QED
        BY <1>b, <3>1
    <2> HIDE DEF t
    <2>2. /\ Marked(t) \in Seq(Marks_) /\ Len(Marked(t)) = to - from
          /\ \A i \in 1 .. to - from : Marked(t)[i] = <<"+", e>>
      BY <1>b, <2>1, MarkedFacts
    <2> DEFINE g == [i \in 0 .. to - from |-> Rep(e, from + i) \o s]
    <2>3. g \in [0 .. Len(Marked(t)) -> Stacks]
      <3>1. ASSUME NEW i \in 0 .. to - from PROVE Rep(e, from + i) \o s \in Stacks
        <4>1. from + i \in Nat
          OBVIOUS
        <4> QED
          BY <4>1, RepOn
      <3> QED
        BY <2>2, <3>1
    <2>4. ASSUME NEW i \in 1 .. Len(Marked(t)) PROVE Step(g[i - 1], Marked(t)[i], g[i])
      <3>1. i \in 1 .. to - from /\ i - 1 \in 0 .. to - from /\ i \in 0 .. to - from
            /\ from + (i - 1) \in Nat /\ (from + (i - 1)) + 1 = from + i
        BY <2>2
      <3>2. g[i - 1] = Rep(e, from + (i - 1)) \o s /\ g[i] = Rep(e, (from + (i - 1)) + 1) \o s
        BY <3>1
      <3> HIDE DEF g
      <3> QED
        BY <2>2, <3>1, <3>2, RepOn
    <2>5. g[0] = Rep(e, from) \o s /\ g[to - from] = Rep(e, to) \o s
      <3>1. 0 \in 0 .. to - from /\ to - from \in 0 .. to - from /\ from + 0 = from /\ from + (to - from) = to
        BY <1>1
      <3>2. g[0] = Rep(e, from + 0) \o s /\ g[to - from] = Rep(e, from + (to - from)) \o s
        BY <3>1
      <3> QED
        BY <3>1, <3>2
    <2> HIDE DEF g
    <2>6. Walk(g[0], Marked(t), g[Len(Marked(t))])
      BY <2>2, <2>3, <2>4, WalkBy
    <2> QED
      BY <2>1, <2>2, <2>5, <2>6 DEF Goes, t
  <1>2. CASE ~ (to > from)
    <2>1. /\ t \in Seq(Toks(A)) /\ t \in Seq(Tokens(A)) /\ Len(t) = from - to
          /\ \A i \in 1 .. from - to : t[i] = End(e)
      <3>1. t = [i \in 1 .. from - to |-> End(e)] /\ from - to \in Nat
        BY <1>2 DEF Levels
      <3> HIDE DEF t
      <3> QED
        BY <1>b, <3>1
    <2> HIDE DEF t
    <2>2. /\ Marked(t) \in Seq(Marks_) /\ Len(Marked(t)) = from - to
          /\ \A i \in 1 .. from - to : Marked(t)[i] = <<"-", e>>
      BY <1>b, <2>1, MarkedFacts
    <2> DEFINE g == [i \in 0 .. from - to |-> Rep(e, from - i) \o s]
    <2>3. g \in [0 .. Len(Marked(t)) -> Stacks]
      <3>1. ASSUME NEW i \in 0 .. from - to PROVE Rep(e, from - i) \o s \in Stacks
        <4>1. from - i \in Nat
          BY <1>2
        <4> QED
          BY <4>1, RepOn
      <3> QED
        BY <2>2, <3>1
    <2>4. ASSUME NEW i \in 1 .. Len(Marked(t)) PROVE Step(g[i - 1], Marked(t)[i], g[i])
      <3>1. i \in 1 .. from - to /\ i - 1 \in 0 .. from - to /\ i \in 0 .. from - to
            /\ from - i \in Nat /\ (from - i) + 1 = from - (i - 1)
        BY <1>2, <2>2
      <3>2. g[i - 1] = Rep(e, (from - i) + 1) \o s /\ g[i] = Rep(e, from - i) \o s
        BY <3>1
      <3> HIDE DEF g
      <3> QED
        BY <2>2, <3>1, <3>2, RepOn
    <2>5. g[0] = Rep(e, from) \o s /\ g[from - to] = Rep(e, to) \o s
      <3>1. 0 \in 0 .. from - to /\ from - to \in 0 .. from - to /\ from - 0 = from /\ from - (from - to) = to
        BY <1>2
      <3>2. g[0] = Rep(e, from - 0) \o s /\ g[from - to] = Rep(e, from - (from - to)) \o s
        BY <3>1
      <3> QED
        BY <3>1, <3>2
    <2> HIDE DEF g
    <2>6. Walk(g[0], Marked(t), g[Len(Marked(t))])
      BY <2>2, <2>3, <2>4, WalkBy
    <2> QED
      BY <2>1, <2>2, <2>5, <2>6 DEF Goes, t
  <1> QED
    BY <1>1, <1>2

-----------------------------------------------------------------------------
(* The lines of a page.                                                    *)

LEMMA TokensGrow ==
  ASSUME NEW A, NEW B, A \subseteq B
  PROVE  Tokens(A) \subseteq Tokens(B) /\ Toks(A) \subseteq Toks(B)
  <1>1. \A s \in Seq(A) : s \in Seq(B)
    BY SeqMonotonic
  <1> QED
    BY <1>1 DEF Tokens, Toks

LEMMA KindFacts ==
  /\ LineKinds \cap NoteKinds = {} /\ "header1" \notin LineKinds \cup NoteKinds
  /\ LineKinds \subseteq QueueKinds /\ "header1" \in QueueKinds /\ "header" \in LineKinds
  /\ Lists \subseteq LineKinds /\ Inners \subseteq LineKinds /\ "unlit" \in NoteKinds
  /\ \A k \in LineKinds \cup NoteKinds \cup {"header1"} :
       k \notin {"begin", "end", "title", "text", "ltext", "ptext", "iquote", "{{", "[["}
  BY DEF LineKinds, NoteKinds, QueueKinds, Lists, Inners

LEMMA WithinFacts ==
  ASSUME NEW in \in Inputs
  PROVE  LET W == Within(in.doc)
         IN /\ in.doc \in Seq(W) /\ in.doc # <<>> /\ in.doc[1] \in W
            /\ \A i \in DOMAIN in.doc : in.doc[i].k \in LineKinds
            /\ Sound(W) /\ \A t \in W : IsLine(t) /\ t.k \in LineKinds \cup NoteKinds
  <1> DEFINE W == Within(in.doc)
  <1>1. /\ in.doc \in Seq(W) /\ in.doc # <<>>
        /\ \A i \in DOMAIN in.doc : in.doc[i].k \in LineKinds
        /\ W \subseteq Token(W) /\ \A t \in W : IsLine(t)
    BY WikitextAssumption DEF IsPage
  <1> HIDE DEF W
  <1>2. in.doc[1] \in W
    BY <1>1
  <1>3. ASSUME NEW t \in W
        PROVE  t \in Tokens(W) /\ t.k \in LineKinds \cup NoteKinds /\ Apt(t) /\ (t.k \in NoteKinds \/ Fits(t))
    <2>1. t \in Token(W) /\ IsLine(t)
      BY <1>1
    <2>2. /\ t.k \in LineKinds \cup NoteKinds /\ t.txt \in Seq(STRING) /\ t.def \in Seq(STRING)
          /\ t.el = "" /\ t.kid \in Seq(W)
      BY <2>1 DEF Token
    <2>3. t.txt \in Seq(Strings) /\ t.def \in Seq(Strings) /\ t.el \in Strings
      <3>1. STRING \subseteq Strings /\ "" \in Strings
        BY DEF Strings
      <3> QED
        BY <2>2, <3>1, SeqMonotonic
    <2>4. t \in Tokens(W)
      <3>1. t.k \in QueueKinds \cup CallKinds \cup NoteKinds
        BY <2>2, KindFacts
      <3>2. t = [k |-> t.k, off |-> t.off, txt |-> t.txt, def |-> t.def, kid |-> t.kid, lvl |-> t.lvl,
                 digit |-> t.digit, para |-> t.para, el |-> t.el]
            /\ t.off \in Nat /\ t.lvl \in Nat /\ t.digit \in BOOLEAN /\ t.para \in BOOLEAN
        BY <2>1 DEF Token
      <3> QED
        BY <2>2, <2>3, <3>1, <3>2 DEF Tokens
    <2>5. Apt(t)
      BY <2>1 DEF Apt, IsLine
    <2>6. ASSUME t.k \in LineKinds PROVE Fits(t)
      <3>1. t.k \in QueueKinds /\ t.k \notin {"begin", "end", "iquote"}
        BY <2>6, KindFacts
      <3>2. t.k \in Inners => Len(t.kid) = 1 /\ t.kid[1].k \in LineKinds \cup {"header1"}
        <4>1. Lists \cup {"innerlist", "starsep", "p"} \subseteq LineKinds
          BY DEF LineKinds, Inners
        <4> QED
          BY <2>1, <4>1 DEF IsLine, Inners
      <3>3. t.k = "innerlist" => t.kid[1].k \in Lists \cup {"innerlist", "starsep", "p"}
        BY <2>1 DEF IsLine, Inners
      <3>4. t.k = "procnote" => \A i \in DOMAIN t.kid : t.kid[i].k \in NoteKinds
        BY <2>1 DEF IsLine, Inners
      <3> QED
        BY <3>1, <3>2, <3>3, <3>4 DEF Fits
    <2> QED
      BY <2>2, <2>4, <2>5, <2>6
  <1> QED
    BY <1>1, <1>2, <1>3 DEF W, Sound

\* What a title is in another line of is as it was.
Titular(k) == IF k = "header" THEN "header1" ELSE k
LEMMA FirstLineFacts ==
  ASSUME NEW W, Sound(W), \A t \in W : IsLine(t) /\ t.k \in LineKinds \cup NoteKinds,
         NEW t \in W, t.k \in LineKinds
  PROVE  LET F == FirstLine(t)
         IN /\ F.k = Titular(t.k) /\ F.kid = [i \in DOMAIN t.kid |-> [t.kid[i] EXCEPT !.k = Titular(@)]]
            /\ F.txt = t.txt /\ Len(F.kid) = Len(t.kid) /\ DOMAIN F.kid = DOMAIN t.kid
            /\ \A i \in DOMAIN t.kid :
                 /\ t.kid[i] \in W
                 /\ F.kid[i].k = Titular(t.kid[i].k) /\ F.kid[i].txt = t.kid[i].txt /\ F.kid[i].kid = t.kid[i].kid
                 /\ F.kid[i] \in Tokens(W)
                 /\ t.kid[i].k # "header" => F.kid[i] = t.kid[i]
            /\ \A A : ToSet(F.kid) \subseteq A => F \in Tokens(A)
            /\ t.k \notin {"header", "quote", "indented"} => F = t
  <1> DEFINE F == FirstLine(t)
             K == [i \in DOMAIN t.kid |-> [t.kid[i] EXCEPT !.k = Titular(@)]]
  <1>0. t \in Tokens(W) /\ W \subseteq Tokens(W) /\ IsLine(t)
    BY DEF Sound
  <1>k. /\ t.kid \in Seq(W) /\ t.k \in QueueKinds \cup CallKinds \cup NoteKinds /\ t.off \in Nat
        /\ t.txt \in Seq(Strings) /\ t.def \in Seq(Strings) /\ t.lvl \in Nat
        /\ t.digit \in BOOLEAN /\ t.para \in BOOLEAN /\ t.el \in Strings
        /\ t = [k |-> t.k, off |-> t.off, txt |-> t.txt, def |-> t.def, kid |-> t.kid, lvl |-> t.lvl,
                digit |-> t.digit, para |-> t.para, el |-> t.el]
    BY <1>0 DEF Tokens
  <1>1. F = [t EXCEPT !.k = Titular(@), !.kid = K]
    BY DEF FirstLine, Titular
  <1>h. Titular(t.k) \in QueueKinds \cup CallKinds \cup NoteKinds /\ \A k : k # "header" => Titular(k) = k
    BY <1>k, KindFacts DEF Titular
  <1> HIDE DEF F, K
  <1>2. /\ F = [k |-> Titular(t.k), off |-> t.off, txt |-> t.txt, def |-> t.def, kid |-> K, lvl |-> t.lvl,
                digit |-> t.digit, para |-> t.para, el |-> t.el]
        /\ F.k = Titular(t.k) /\ F.kid = K /\ F.txt = t.txt
    BY <1>1, <1>k
  <1>3. DOMAIN K = DOMAIN t.kid /\ Len(K) = Len(t.kid) /\ DOMAIN K = 1 .. Len(K) /\ Len(K) \in Nat
        /\ \A i \in DOMAIN t.kid : K[i] = [t.kid[i] EXCEPT !.k = Titular(@)]
    BY <1>k DEF K
  <1>4. ASSUME NEW i \in DOMAIN t.kid
        PROVE  /\ t.kid[i] \in W
               /\ K[i].k = Titular(t.kid[i].k) /\ K[i].txt = t.kid[i].txt /\ K[i].kid = t.kid[i].kid
               /\ K[i] \in Tokens(W)
               /\ t.kid[i].k # "header" => K[i] = t.kid[i]
    <2> DEFINE u == t.kid[i]
    <2>1. u \in W /\ u \in Tokens(W) /\ K[i] = [u EXCEPT !.k = Titular(u.k)]
      BY <1>0, <1>3, <1>k
    <2> HIDE DEF u
    <2>2. /\ u.kid \in Seq(W) /\ u.k \in QueueKinds \cup CallKinds \cup NoteKinds /\ u.off \in Nat
          /\ u.txt \in Seq(Strings) /\ u.def \in Seq(Strings) /\ u.lvl \in Nat
          /\ u.digit \in BOOLEAN /\ u.para \in BOOLEAN /\ u.el \in Strings
          /\ u = [k |-> u.k, off |-> u.off, txt |-> u.txt, def |-> u.def, kid |-> u.kid, lvl |-> u.lvl,
                  digit |-> u.digit, para |-> u.para, el |-> u.el]
      BY <2>1 DEF Tokens
    <2>3. K[i] = [k |-> Titular(u.k), off |-> u.off, txt |-> u.txt, def |-> u.def, kid |-> u.kid, lvl |-> u.lvl,
                  digit |-> u.digit, para |-> u.para, el |-> u.el]
      BY <2>1, <2>2
    <2>4. Titular(u.k) \in QueueKinds \cup CallKinds \cup NoteKinds
      BY <2>2, KindFacts DEF Titular
    <2>5. K[i] \in Tokens(W)
      BY <2>2, <2>3, <2>4 DEF Tokens
    <2>6. u.k # "header" => K[i] = u
      BY <1>h, <2>2, <2>3
    <2>7. K[i].k = Titular(u.k) /\ K[i].txt = u.txt /\ K[i].kid = u.kid
      BY <2>3
    <2> QED
      BY <2>1, <2>5, <2>6, <2>7 DEF u
  <1>5. ASSUME NEW A, ToSet(F.kid) \subseteq A PROVE F \in Tokens(A)
    <2>1. \A i \in 1 .. Len(K) : K[i] \in A
      BY <1>2, <1>3, <1>5 DEF ToSet
    <2>2. K \in Seq(A)
      <3>1. K = [i \in 1 .. Len(K) |-> K[i]]
        BY <1>3 DEF K
      <3>2. [i \in 1 .. Len(K) |-> K[i]] \in Seq(A)
        BY <1>3, <2>1
      <3> QED
        BY <3>1, <3>2, Zenon
    <2> QED
      BY <1>2, <1>k, <1>h, <2>2 DEF Tokens
  <1>6. ASSUME t.k \notin {"header", "quote", "indented"} PROVE F = t
    <2>1. \A i \in DOMAIN t.kid : t.kid[i].k # "header"
      <3>1. CASE t.k = "innerlist"
        <4>1. Len(t.kid) = 1 /\ t.kid[1].k \in Lists \cup {"innerlist", "starsep", "p"}
          BY <1>0, <3>1 DEF IsLine
        <4>2. DOMAIN t.kid = {1}
          BY <1>k, <4>1
        <4> QED
          BY <4>1, <4>2 DEF Lists
      <3>2. CASE t.k = "procnote"
        <4>1. \A i \in DOMAIN t.kid : t.kid[i].k \in NoteKinds
          BY <1>0, <3>2 DEF IsLine, Inners
        <4> QED
          BY <4>1 DEF NoteKinds
      <3>3. CASE t.k \notin Inners \cup {"procnote"}
        <4>1. t.kid = <<>>
          BY <1>0, <3>3 DEF IsLine, Inners
        <4> QED
          BY <4>1
      <3> QED
        BY <1>6, <3>1, <3>2, <3>3 DEF Inners
    <2>2. \A i \in DOMAIN t.kid : K[i] = t.kid[i]
      BY <1>4, <2>1
    <2>3. K = t.kid
      <3>1. K = [i \in DOMAIN t.kid |-> t.kid[i]]
        <4>1. K = [i \in DOMAIN t.kid |-> K[i]]
          BY DEF K
        <4> QED
          BY <2>2, <4>1
      <3> QED
        BY <1>k, <3>1
    <2> QED
      BY <1>2, <1>h, <1>k, <1>6, <2>3
  <1> QED
    BY <1>2, <1>3, <1>4, <1>5, <1>6 DEF F, K

LEMMA TitledFacts ==
  ASSUME NEW in \in Inputs
  PROVE  LET W == Within(in.doc)
             D == Titled(in.doc)
             F == FirstLine(in.doc[1])
         IN /\ W \subseteq D /\ Sound(D) /\ F \in Toks(D)
            /\ \A t \in D : t.k \in LineKinds \cup NoteKinds \cup {"header1"}
            /\ \A t \in D : t.k \in NoteKinds => t \in W
            /\ \/ in.doc[1].k = "quote"
               \/ F \in Toks(W) /\ F.k # "header1"
               \/ F.k \in {"header1", "indented"}
  <1> DEFINE W == Within(in.doc)
             D == Titled(in.doc)
             t == in.doc[1]
             F == FirstLine(t)
             K == F.kid
  <1>0. /\ in.doc \in Seq(W) /\ in.doc # <<>> /\ t \in W /\ t.k \in LineKinds
        /\ Sound(W) /\ (\A u \in W : IsLine(u) /\ u.k \in LineKinds \cup NoteKinds)
    <2>1. 1 \in DOMAIN in.doc
      BY WithinFacts
    <2> QED
      BY <2>1, WithinFacts
  <1>d. D = W \cup {F} \cup ToSet(K)
    BY DEF Titled
  <1> HIDE DEF W, D
  <1>1. /\ F.k = Titular(t.k) /\ Len(K) = Len(t.kid) /\ DOMAIN K = DOMAIN t.kid
        /\ \A i \in DOMAIN t.kid :
             /\ t.kid[i] \in W
             /\ K[i].k = Titular(t.kid[i].k) /\ K[i].txt = t.kid[i].txt /\ K[i].kid = t.kid[i].kid
             /\ K[i] \in Tokens(W)
             /\ t.kid[i].k # "header" => K[i] = t.kid[i]
        /\ \A A : ToSet(K) \subseteq A => F \in Tokens(A)
        /\ t.k \notin {"header", "quote", "indented"} => F = t
    <2> HIDE DEF t
    <2> QED
      BY <1>0, FirstLineFacts
  <1> HIDE DEF t, F, K
  <1>2. Tokens(W) \subseteq Tokens(D) /\ Toks(W) \subseteq Toks(D) /\ W \subseteq D
    BY <1>d, TokensGrow
  <1>3. F \in Tokens(D)
    BY <1>1, <1>d
  <1>4. ASSUME NEW i \in DOMAIN K
        PROVE  /\ K[i] \in Tokens(D) /\ Apt(K[i]) /\ (K[i].k \in NoteKinds \/ Fits(K[i]))
               /\ K[i].k \in LineKinds \cup NoteKinds \cup {"header1"}
               /\ K[i].k \in NoteKinds => K[i] \in W
    <2>1. CASE t.kid[i].k = "header"
      <3>1. K[i].k = "header1" /\ K[i] \in Tokens(D)
        BY <1>1, <1>2, <2>1 DEF Titular
      <3> QED
        BY <3>1, KindFacts DEF Apt, Fits, QueueKinds, Inners
    <2>2. CASE t.kid[i].k # "header"
      <3>1. K[i] = t.kid[i] /\ K[i] \in W
        BY <1>1, <2>2
      <3> QED
        BY <1>0, <1>2, <3>1 DEF Sound
    <2> QED
      BY <2>1, <2>2
  <1>5. Apt(F) /\ Fits(F) /\ F.k \in LineKinds \cup {"header1"}
    <2>1. CASE t.k = "header"
      <3>1. F.k = "header1"
        BY <1>1, <2>1 DEF Titular
      <3> QED
        BY <3>1 DEF Apt, Fits, QueueKinds, Inners
    <2>2. CASE t.k \in {"quote", "indented"}
      <3>1. F.k = t.k
        BY <1>1, <2>2 DEF Titular
      <3>2. Fits(t)
        BY <1>0, KindFacts DEF Sound
      <3>3. Len(t.kid) = 1 /\ t.kid[1].k \in LineKinds \cup {"header1"}
        BY <2>2, <3>2 DEF Fits, Inners
      <3>4. 1 \in DOMAIN t.kid
        <4>1. t.kid \in Seq(W)
          BY <1>0 DEF Sound, Tokens
        <4> QED
          BY <3>3, <4>1
      <3>5. Len(F.kid) = 1 /\ F.kid[1].k \in LineKinds \cup {"header1"}
        BY <1>1, <3>3, <3>4 DEF K, Titular
      <3>6. F.k \in QueueKinds /\ F.k \in LineKinds /\ F.k \notin {"no", "lit", "unlit", "sub", "unsub"}
        BY <2>2, <3>1 DEF QueueKinds, LineKinds, Inners
      <3> QED
        BY <2>2, <3>1, <3>5, <3>6 DEF Apt, Fits
    <2>3. CASE t.k \notin {"header", "quote", "indented"}
      BY <1>0, <1>1, <2>3, KindFacts DEF Sound
    <2> QED
      BY <2>1, <2>2, <2>3, Zenon
  <1>6. ToSet(K) = {K[i] : i \in DOMAIN K}
    BY DEF ToSet
  <1>7. Sound(D)
    BY <1>0, <1>2, <1>3, <1>4, <1>5, <1>6, <1>d DEF Sound
  <1>8. \A u \in D : u.k \in LineKinds \cup NoteKinds \cup {"header1"}
    BY <1>0, <1>4, <1>5, <1>6, <1>d
  <1>9. \A u \in D : u.k \in NoteKinds => u \in W
    <2>1. F.k \notin NoteKinds
      BY <1>5, KindFacts
    <2> QED
      BY <1>4, <1>6, <1>d, <2>1
  <1>10. \/ t.k = "quote"
         \/ F \in Toks(W) /\ F.k # "header1"
         \/ F.k \in {"header1", "indented"}
    <2>1. CASE t.k \in {"header", "indented"}
      BY <1>1, <2>1 DEF Titular
    <2>2. CASE t.k \notin {"header", "quote", "indented"}
      BY <1>0, <1>1, <2>2, KindFacts DEF Sound, Toks
    <2> QED
      BY <2>1, <2>2
  <1> QED
    BY <1>2, <1>3, <1>5, <1>7, <1>8, <1>9, <1>10 DEF W, D, F, t, Toks

LEMMA TokOf ==
  ASSUME NEW A, Sound(A), NEW t \in A
  PROVE  t \in Tokens(A) /\ t.kid \in Seq(A) /\ Apt(t) /\ (t.k \notin NoteKinds => t \in Toks(A))
  BY DEF Sound, Toks, Tokens

\* The line within another one.
LEMMA KidOf ==
  ASSUME NEW A, Sound(A), NEW t \in Toks(A), t.k \in Inners \cup {"iquote"}
  PROVE  /\ t.kid[1] \in A /\ t.kid[1] \in Toks(A) /\ t.kid \in Seq(Toks(A)) /\ Len(t.kid) = 1
         /\ t.kid[1].k \in LineKinds \cup {"header1"} /\ Mark(t.kid[1]) = <<"t", "">>
         /\ t.kid = <<t.kid[1]>>
  <1>1. t \in Tokens(A) /\ Fits(t)
    BY DEF Toks
  <1>2. t.kid \in Seq(A) /\ Len(t.kid) = 1 /\ t.kid[1].k \in LineKinds \cup {"header1"}
    BY <1>1 DEF Fits, Tokens
  <1>3. t.kid[1] \in A
    BY <1>2
  <1>4. t.kid[1] \in Toks(A)
    BY <1>2, <1>3, TokOf, KindFacts
  <1>5. t.kid = <<t.kid[1]>>
    <2>1. <<t.kid[1]>> \in Seq(A) /\ Len(<<t.kid[1]>>) = 1 /\ <<t.kid[1]>>[1] = t.kid[1]
      BY <1>3
    <2> QED
      BY <1>2, <2>1, SeqEqual
  <1>6. <<t.kid[1]>> \in Seq(Toks(A))
    BY <1>4
  <1>7. Mark(t.kid[1]) = <<"t", "">>
    BY <1>2, KindFacts DEF Mark
  <1> QED
    BY <1>2, <1>3, <1>4, <1>5, <1>6, <1>7, Zenon

-----------------------------------------------------------------------------
(* What a call does to each part of the invariant.                         *)

LEMMA HereFacts ==
  ASSUME TypeOK
  PROVE  /\ input \in Inputs /\ Sound(Here) /\ Within(input.doc) \subseteq Here
         /\ \A t \in Here : /\ t.k \in LineKinds \cup NoteKinds \cup {"header1"}
                            /\ t.k \in NoteKinds => t \in Within(input.doc)
         /\ Toks(Here) \subseteq Tokens(Here) /\ CallToks(Here) \subseteq Tokens(Here)
         /\ queue \in Seq(Toks(Here)) /\ queue \in Seq(Tokens(Here))
         /\ calls \in Seq(CallToks(Here)) /\ calls \in Seq(Tokens(Here))
         /\ loop.out \in Seq(Toks(Here)) /\ loop.out \in Seq(Tokens(Here))
         /\ rend.stack \in Seq(Elements) /\ rend.stack \in Stacks
         /\ calls \o queue \in Seq(Tokens(Here))
  <1>1. input \in Inputs /\ queue \in Seq(Toks(Here)) /\ calls \in Seq(CallToks(Here))
        /\ loop.out \in Seq(Toks(Here)) /\ rend.stack \in Seq(Elements)
    BY DEF TypeOK, Loops, Rends
  <1>2. /\ Sound(Here) /\ Within(input.doc) \subseteq Here
        /\ \A t \in Here : /\ t.k \in LineKinds \cup NoteKinds \cup {"header1"}
                           /\ t.k \in NoteKinds => t \in Within(input.doc)
    BY <1>1, TitledFacts DEF Here
  <1>3. Toks(Here) \subseteq Tokens(Here) /\ CallToks(Here) \subseteq Tokens(Here)
    BY DEF Toks, CallToks
  <1>4. queue \in Seq(Tokens(Here)) /\ calls \in Seq(Tokens(Here)) /\ loop.out \in Seq(Tokens(Here))
    BY <1>1, <1>3, SeqMonotonic
  <1>5. rend.stack \in Stacks
    BY <1>1, Plainly, SeqMonotonic DEF Stacks
  <1>6. calls \o queue \in Seq(Tokens(Here))
    BY <1>4
  <1> QED
    BY <1>1, <1>2, <1>3, <1>4, <1>5, <1>6

LEMMA HasJoin ==
  ASSUME NEW A, NEW p \in Seq(A), NEW q \in Seq(A), NEW k
  PROVE  Has(p \o q, k) <=> Has(p, k) \/ Has(q, k)
  <1>0. Len(p) \in Nat /\ Len(q) \in Nat /\ DOMAIN p = 1 .. Len(p) /\ DOMAIN q = 1 .. Len(q)
        /\ DOMAIN (p \o q) = 1 .. Len(p) + Len(q)
    OBVIOUS
  <1>1. ASSUME NEW i \in DOMAIN p PROVE i \in DOMAIN (p \o q) /\ (p \o q)[i] = p[i]
    BY <1>0
  <1>2. ASSUME NEW i \in DOMAIN q PROVE Len(p) + i \in DOMAIN (p \o q) /\ (p \o q)[Len(p) + i] = q[i]
    BY <1>0
  <1>3. ASSUME NEW i \in DOMAIN (p \o q)
        PROVE  (i \in DOMAIN p /\ (p \o q)[i] = p[i]) \/ (i - Len(p) \in DOMAIN q /\ (p \o q)[i] = q[i - Len(p)])
    BY <1>0
  <1>4. ASSUME Has(p \o q, k) PROVE Has(p, k) \/ Has(q, k)
    <2>1. PICK i \in DOMAIN (p \o q) : (p \o q)[i].k = k
      BY <1>4 DEF Has
    <2>2. CASE i \in DOMAIN p /\ (p \o q)[i] = p[i]
      BY <2>1, <2>2 DEF Has
    <2>3. CASE i - Len(p) \in DOMAIN q /\ (p \o q)[i] = q[i - Len(p)]
      BY <2>1, <2>3 DEF Has
    <2> QED
      BY <1>3, <2>2, <2>3
  <1>5. ASSUME Has(p, k) PROVE Has(p \o q, k)
    <2>1. PICK i \in DOMAIN p : p[i].k = k
      BY <1>5 DEF Has
    <2> QED
      BY <1>1, <2>1 DEF Has
  <1>6. ASSUME Has(q, k) PROVE Has(p \o q, k)
    <2>1. PICK i \in DOMAIN q : q[i].k = k
      BY <1>6 DEF Has
    <2> QED
      BY <1>2, <2>1 DEF Has
  <1> QED
    BY <1>4, <1>5, <1>6

LEMMA HasFirst ==
  ASSUME NEW A, NEW q \in Seq(A), q # <<>>, NEW k
  PROVE  Has(q, k) <=> Head(q).k = k \/ Has(Tail(q), k)
  <1>1. q = <<Head(q)>> \o Tail(q) /\ Tail(q) \in Seq(A) /\ <<Head(q)>> \in Seq(A)
    BY HeadAndTail
  <1>2. Has(<<Head(q)>>, k) <=> Head(q).k = k
    <2> DEFINE x == Head(q)
    <2>1. DOMAIN <<x>> = {1} /\ <<x>>[1] = x
      OBVIOUS
    <2> HIDE DEF x
    <2>2. Has(<<x>>, k) <=> x.k = k
      BY <2>1 DEF Has
    <2> QED
      BY <2>2 DEF x
  <1>3. Has(<<Head(q)>> \o Tail(q), k) <=> Has(<<Head(q)>>, k) \/ Has(Tail(q), k)
    BY <1>1, HasJoin
  <1> QED
    BY <1>1, <1>2, <1>3

(* What one call does, and whether the substitutions stay as they are.  *)
Turns(r, cs) == rend' = r /\ calls' = cs \o Tail(calls) /\ UNCHANGED <<input, queue, loop, done>>
LEMMA TurnsIt ==
  ASSUME NEW r, NEW cs, Does(r, cs)
  PROVE  Turns(r, cs)
  BY DEF Does, Turns
LEMMA TurnType ==
  ASSUME TypeOK, calls # <<>>, NEW r \in Rends, \A i \in DOMAIN r.lits : Len(r.lits[i]) = 3,
         NEW cs \in Seq(CallToks(Here)), Turns(r, cs)
  PROVE  TypeOK' /\ Here' = Here
  <1>1. /\ rend' = r /\ calls' = cs \o Tail(calls)
        /\ input' = input /\ queue' = queue /\ loop' = loop /\ done' = done
    BY DEF Turns
  <1>2. Tail(calls) \in Seq(CallToks(Here))
    BY HereFacts
  <1>3. cs \o Tail(calls) \in Seq(CallToks(Here))
    BY <1>2
  <1>4. Here' = Here
    BY <1>1 DEF Here
  <1>5. Loops' = Loops
    BY <1>4 DEF Loops
  <1> QED
    BY <1>1, <1>3, <1>4, <1>5 DEF TypeOK

LEMMA DoesType ==
  ASSUME TypeOK, calls # <<>>, NEW r \in Rends, \A i \in DOMAIN r.lits : Len(r.lits[i]) = 3,
         NEW cs \in Seq(CallToks(Here)), Does(r, cs)
  PROVE  TypeOK' /\ Here' = Here
  BY TurnsIt, TurnType

\* What the page asks for is what it asked for.
LEMMA SameInput ==
  ASSUME input' = input
  PROVE  /\ Substitutes' = Substitutes /\ NotesOf("unlit")' = NotesOf("unlit")
         /\ \A c, d : Before(c, d)' <=> Before(c, d)
  <1>1. NotesOf("sub")' = NotesOf("sub") /\ NotesOf("unlit")' = NotesOf("unlit")
    BY DEF NotesOf
  <1>2. Substitutes' = Substitutes
    BY <1>1 DEF Substitutes
  <1> QED
    BY <1>1, <1>2 DEF Before

LEMMA SameSubs ==
  ASSUME SubsOK, input' = input, subs' = subs
  PROVE  SubsOK' /\ Substitutes' = Substitutes
  BY SameInput DEF SubsOK

LEMMA FailsSame ==
  ASSUME FailsAsKnown, input' = input,
         \/ rend'.err = rend.err
         \/ rend'.err \in {"", "ReturnNothing"}
         \/ rend'.err \in Substituting /\ Substitutes
  PROVE  FailsAsKnown'
  BY SameInput DEF FailsAsKnown, Substituting

LEMMA DoesSame ==
  ASSUME SubsOK, NEW r, NEW cs, Does(r, cs)
  PROVE  SubsOK' /\ Substitutes' = Substitutes
  BY SameSubs DEF Does

LEMMA TurnStack ==
  ASSUME TypeOK, StackOK, calls # <<>>, NEW r \in Rends,
         NEW cs \in Seq(CallToks(Here)), Turns(r, cs),
         NEW c \in Stacks, Step(rend.stack, Mark(Head(calls)), c), Goes(r.stack, cs, c)
  PROVE  StackOK'
  <1>1. /\ rend' = r /\ calls' = cs \o Tail(calls) /\ queue' = queue /\ loop' = loop
    BY DEF Turns
  <1>2. /\ calls \in Seq(Tokens(Here)) /\ queue \in Seq(Tokens(Here)) /\ cs \in Seq(Tokens(Here))
        /\ calls \o queue \in Seq(Tokens(Here))
    BY HereFacts, SeqMonotonic
  <1> DEFINE q == calls \o queue
  <1>3. Goes(rend.stack, q, <<>>)
    BY DEF StackOK, Goes
  <1>4. q # <<>> /\ Head(q) = Head(calls) /\ Tail(q) = Tail(calls) \o queue /\ Tail(calls) \in Seq(Tokens(Here))
    BY <1>2
  <1>5. q \in Seq(Tokens(Here))
    BY <1>2
  <1> HIDE DEF q
  <1>6. Goes(c, Tail(q), <<>>)
    BY <1>2, <1>3, <1>4, <1>5, GoesInstead
  <1>7. Goes(r.stack, cs \o (Tail(calls) \o queue), <<>>)
    <2>1. Tail(calls) \o queue \in Seq(Tokens(Here))
      BY <1>2, <1>4
    <2> QED
      BY <1>2, <1>4, <1>6, <2>1, GoesJoin
  <1>8. cs \o (Tail(calls) \o queue) = (cs \o Tail(calls)) \o queue
    <2> DEFINE A == Tokens(Here)
               u == Tail(calls)
    <2>1. cs \in Seq(A) /\ u \in Seq(A) /\ queue \in Seq(A)
      BY <1>2, <1>4
    <2> HIDE DEF A, u
    <2>2. cs \o (u \o queue) = (cs \o u) \o queue
      BY <2>1
    <2> QED
      BY <2>2 DEF u
  <1>9. ~loop.on
    BY DEF TypeOK
  <1> QED
    BY <1>1, <1>7, <1>8, <1>9 DEF StackOK, Goes

LEMMA DoesStack ==
  ASSUME TypeOK, StackOK, calls # <<>>, NEW r \in Rends,
         NEW cs \in Seq(CallToks(Here)), Does(r, cs),
         NEW c \in Stacks, Step(rend.stack, Mark(Head(calls)), c), Goes(r.stack, cs, c)
  PROVE  StackOK'
  BY TurnsIt, TurnStack

LEMMA TurnHeader ==
  ASSUME HeaderOK, calls # <<>>, NEW r, NEW cs, Turns(r, cs)
  PROVE  HeaderOK'
  <1>1. input' = input /\ queue' = queue /\ loop' = loop
    BY DEF Turns
  <1>2. \A q : Untitled(q)' <=> Untitled(q)
    BY <1>1 DEF Untitled
  <1> QED
    BY <1>1, <1>2 DEF HeaderOK, Untitled

LEMMA DoesHeader ==
  ASSUME HeaderOK, calls # <<>>, NEW r, NEW cs, Does(r, cs)
  PROVE  HeaderOK'
  BY TurnsIt, TurnHeader

LEMMA TurnCalls ==
  ASSUME TypeOK, CallsOK, calls # <<>>, NEW r, NEW cs \in Seq(CallToks(Here)), Turns(r, cs),
         \A i, j \in DOMAIN cs : j < i => Before(cs[j], cs[i]),
         \A j \in DOMAIN cs, d \in CallToks(Here) : Before(Head(calls), d) => Before(cs[j], d)
  PROVE  CallsOK'
  <1> DEFINE q == cs \o Tail(calls)
             m == Len(cs)
             n == Len(calls)
  <1>1. calls' = q /\ input' = input
    BY DEF Turns
  <1>2. calls \in Seq(CallToks(Here))
    BY HereFacts
  <1>3. /\ m \in Nat /\ n \in Nat /\ n >= 1 /\ DOMAIN calls = 1 .. n /\ DOMAIN cs = 1 .. m
        /\ Tail(calls) \in Seq(CallToks(Here)) /\ Len(Tail(calls)) = n - 1 /\ Head(calls) = calls[1]
        /\ \A i \in 1 .. n - 1 : Tail(calls)[i] = calls[i + 1]
    BY <1>2
  <1>4. DOMAIN q = 1 .. m + (n - 1)
    BY <1>3
  <1>5. ASSUME NEW i \in 1 .. m + (n - 1)
        PROVE  /\ i <= m => i \in DOMAIN cs /\ q[i] = cs[i]
               /\ i > m => (i - m) + 1 \in DOMAIN calls /\ (i - m) + 1 > 1 /\ q[i] = calls[(i - m) + 1]
                           /\ q[i] \in CallToks(Here)
    <2>1. ASSUME i <= m PROVE i \in DOMAIN cs /\ q[i] = cs[i]
      BY <1>3, <2>1
    <2>2. ASSUME i > m PROVE (i - m) + 1 \in DOMAIN calls /\ (i - m) + 1 > 1 /\ q[i] = calls[(i - m) + 1]
      <3>1. i - m \in 1 .. n - 1 /\ q[i] = Tail(calls)[i - m]
        BY <1>3, <2>2
      <3> HIDE DEF q
      <3> QED
        BY <1>3, <3>1
    <2> HIDE DEF q
    <2> QED
      BY <1>2, <2>1, <2>2
  <1> HIDE DEF q
  <1>6. ASSUME NEW i \in 1 .. m + (n - 1), NEW j \in 1 .. m + (n - 1), j < i PROVE Before(q[j], q[i])
    <2>0. i \in Int /\ j \in Int /\ m \in Int
      BY <1>3
    <2>1. CASE i <= m
      <3>1. j <= m
        BY <1>6, <2>0, <2>1
      <3> QED
        BY <1>5, <1>6, <2>1, <3>1
    <2>2. CASE i > m /\ j <= m
      <3>1. q[j] = cs[j] /\ j \in DOMAIN cs /\ q[i] = calls[(i - m) + 1] /\ q[i] \in CallToks(Here)
            /\ (i - m) + 1 \in DOMAIN calls /\ (i - m) + 1 > 1
        BY <1>5, <2>2
      <3>2. Before(calls[1], q[i])
        BY <1>3, <3>1 DEF CallsOK
      <3> QED
        BY <1>3, <3>1, <3>2
    <2>3. CASE i > m /\ j > m
      <3>1. q[j] = calls[(j - m) + 1] /\ q[i] = calls[(i - m) + 1]
            /\ (i - m) + 1 \in DOMAIN calls /\ (j - m) + 1 \in DOMAIN calls
        BY <1>5, <2>3
      <3>2. (j - m) + 1 < (i - m) + 1
        BY <1>6, <2>0
      <3> QED
        BY <3>1, <3>2 DEF CallsOK
    <2>4. i <= m \/ (i > m /\ j <= m) \/ (i > m /\ j > m)
      BY <2>0
    <2> QED
      BY <2>1, <2>2, <2>3, <2>4, Zenon
  <1>7. \A c, d : Before(c, d)' <=> Before(c, d)
    BY <1>1, SameInput
  <1>8. ASSUME NEW i \in DOMAIN calls', NEW j \in DOMAIN calls', j < i PROVE Before(calls[j], calls[i])'
    <2>1. Before(calls'[j], calls'[i])
      BY <1>1, <1>4, <1>6, <1>8
    <2> QED
      BY <1>7, <2>1 DEF Before
  <1> QED
    BY <1>8 DEF CallsOK

LEMMA DoesCalls ==
  ASSUME TypeOK, CallsOK, calls # <<>>, NEW r, NEW cs \in Seq(CallToks(Here)), Does(r, cs),
         \A i, j \in DOMAIN cs : j < i => Before(cs[j], cs[i]),
         \A j \in DOMAIN cs, d \in CallToks(Here) : Before(Head(calls), d) => Before(cs[j], d)
  PROVE  CallsOK'
  BY TurnsIt, TurnCalls

LEMMA TurnPending ==
  ASSUME TypeOK, calls # <<>>, NEW r, NEW cs \in Seq(CallToks(Here)), Turns(r, cs), NEW k
  PROVE  /\ Pending(k)' <=> Has(cs, k) \/ Has(Tail(calls), k)
         /\ Pending(k) <=> Head(calls).k = k \/ Has(Tail(calls), k)
  <1>1. calls \in Seq(CallToks(Here)) /\ Tail(calls) \in Seq(CallToks(Here)) /\ calls' = cs \o Tail(calls)
    BY HereFacts DEF Turns
  <1>2. Has(cs \o Tail(calls), k) <=> Has(cs, k) \/ Has(Tail(calls), k)
    BY <1>1, HasJoin
  <1>3. Has(calls, k) <=> Head(calls).k = k \/ Has(Tail(calls), k)
    BY <1>1, HasFirst
  <1>4. Pending(k)' <=> Has(calls', k)
    BY DEF Pending, Has
  <1> QED
    BY <1>1, <1>2, <1>3, <1>4 DEF Pending

LEMMA DoesPending ==
  ASSUME TypeOK, calls # <<>>, NEW r, NEW cs \in Seq(CallToks(Here)), Does(r, cs), NEW k
  PROVE  /\ Pending(k)' <=> Has(cs, k) \/ Has(Tail(calls), k)
         /\ Pending(k) <=> Head(calls).k = k \/ Has(Tail(calls), k)
  BY TurnsIt, TurnPending

\* What comes after the call at hand.
LEMMA BeforeTail ==
  ASSUME TypeOK, CallsOK, calls # <<>>, NEW k, Has(Tail(calls), k)
  PROVE  \E d \in CallToks(Here) : d.k = k /\ Before(Head(calls), d)
  <1>1. calls \in Seq(CallToks(Here))
    BY HereFacts
  <1>2. PICK i \in DOMAIN Tail(calls) : Tail(calls)[i].k = k
    BY DEF Has
  <1>3. i + 1 \in DOMAIN calls /\ 1 \in DOMAIN calls /\ 1 < i + 1 /\ Tail(calls)[i] = calls[i + 1]
        /\ Head(calls) = calls[1] /\ calls[i + 1] \in CallToks(Here)
    BY <1>1
  <1>4. Before(calls[1], calls[i + 1])
    BY <1>3 DEF CallsOK
  <1> QED
    BY <1>2, <1>3, <1>4

LEMMA TurnStyles ==
  ASSUME TypeOK, StylesOK, calls # <<>>, NEW r, NEW cs \in Seq(CallToks(Here)), Turns(r, cs),
         ~Has(cs, "endstyle"), ~Has(cs, "endlink"), Head(calls).k \notin {"endstyle", "endlink"},
         r.styles = rend.styles, r.barrier = rend.barrier
  PROVE  StylesOK'
  <1>1. (Pending("endstyle")' <=> Pending("endstyle")) /\ (Pending("endlink")' <=> Pending("endlink"))
    BY TurnPending
  <1>2. rend' = r /\ Substitutes' = Substitutes
    BY SameInput DEF Turns
  <1> QED
    BY <1>1, <1>2 DEF StylesOK, StylesHold

LEMMA DoesStyles ==
  ASSUME TypeOK, StylesOK, calls # <<>>, NEW r, NEW cs \in Seq(CallToks(Here)), Does(r, cs),
         ~Has(cs, "endstyle"), ~Has(cs, "endlink"), Head(calls).k \notin {"endstyle", "endlink"},
         r.styles = rend.styles, r.barrier = rend.barrier
  PROVE  StylesOK'
  BY TurnsIt, TurnStyles

\* How deep the calls are that a call makes.
LEMMA TurnDepth ==
  ASSUME TypeOK, DepthOK, calls # <<>>, NEW r, NEW cs \in Seq(CallToks(Here)), Turns(r, cs),
         ~Substitutes => \A i \in DOMAIN cs : Shallow(cs[i])
  PROVE  DepthOK'
  <1>1. calls' = cs \o Tail(calls) /\ Substitutes' = Substitutes
    BY SameInput DEF Turns
  <1>2. calls \in Seq(CallToks(Here))
    BY HereFacts
  <1>3. ASSUME ~Substitutes, NEW i \in DOMAIN (cs \o Tail(calls)) PROVE Shallow((cs \o Tail(calls))[i])
    <2>1. \/ i \in DOMAIN cs /\ (cs \o Tail(calls))[i] = cs[i]
          \/ \E j \in DOMAIN calls : (cs \o Tail(calls))[i] = calls[j]
      <3>1. CASE i \in DOMAIN cs
        BY <1>2, <3>1
      <3>2. CASE i \notin DOMAIN cs
        <4>1. i - Len(cs) \in DOMAIN Tail(calls) /\ (cs \o Tail(calls))[i] = Tail(calls)[i - Len(cs)]
          BY <1>2, <3>2
        <4>2. (i - Len(cs)) + 1 \in DOMAIN calls /\ Tail(calls)[i - Len(cs)] = calls[(i - Len(cs)) + 1]
          BY <1>2, <4>1
        <4> QED
          BY <4>1, <4>2
      <3> QED
        BY <3>1, <3>2
    <2> QED
      BY <1>3, <2>1 DEF DepthOK
  <1> QED
    BY <1>1, <1>3 DEF DepthOK, Shallow

LEMMA DoesDepth ==
  ASSUME TypeOK, DepthOK, calls # <<>>, NEW r, NEW cs \in Seq(CallToks(Here)), Does(r, cs),
         ~Substitutes => \A i \in DOMAIN cs : Shallow(cs[i])
  PROVE  DepthOK'
  BY TurnsIt, TurnDepth

\* The parts of the invariant that every call leaves alone.

LEMMA DoesRest ==
  ASSUME IInv, calls # <<>>, NEW r \in Rends, \A i \in DOMAIN r.lits : Len(r.lits[i]) = 3,
         r.err \in {"", "ReturnNothing"} \/ (Substitutes /\ r.err \in Substituting),
         NEW cs \in Seq(CallToks(Here)), Does(r, cs),
         ~Substitutes => \A i \in DOMAIN cs : Shallow(cs[i])
  PROVE  TypeOK' /\ SubsOK' /\ HeaderOK' /\ DepthOK' /\ FailsAsKnown' /\ Substitutes' = Substitutes
  <1>1. TypeOK' /\ HeaderOK' /\ DepthOK'
    BY DoesType, DoesHeader, DoesDepth DEF IInv
  <1>2. SubsOK' /\ Substitutes' = Substitutes
    BY DoesSame DEF IInv
  <1>3. FailsAsKnown'
    BY FailsSame DEF IInv, Does
  <1> QED
    BY <1>1, <1>2, <1>3

-----------------------------------------------------------------------------
(* Calls that only write.                                                  *)

(* What the renderer's own operations leave alone. *)
Alike(r, q) ==
  /\ r.stack = q.stack /\ r.styles = q.styles /\ r.barrier = q.barrier /\ r.lits = q.lits
  /\ r.err = q.err /\ r.floor = q.floor /\ r.leak = q.leak /\ r.blocks = q.blocks
  /\ r.title = q.title /\ r.mode = q.mode
Says(s) == [i \in DOMAIN s |-> <<"t", s[i]>>]

LEMMA ResFacts ==
  ASSUME NEW r \in Rends, NEW h \in Seq(Html)
  PROVE  [r EXCEPT !.res = h] \in Rends /\ Alike([r EXCEPT !.res = h], r) /\ [r EXCEPT !.res = h].res = h
  BY DEF Rends, Alike

LEMMA SaysFacts ==
  ASSUME NEW s \in Seq(Strings)
  PROVE  Says(s) \in Seq(Html) /\ Len(Says(s)) = Len(s) /\ \A i \in 1 .. Len(s) : Says(s)[i] = <<"t", s[i]>>
  <1>1. \A i \in 1 .. Len(s) : <<"t", s[i]>> \in Html
    BY DEF Html
  <1> QED
    BY <1>1 DEF Says

LEMMA PutFacts ==
  ASSUME NEW r \in Rends, NEW w \in Strings
  PROVE  /\ Put(r, w) \in Rends /\ Alike(Put(r, w), r) /\ Put(r, w).res = Append(r.res, <<"t", w>>)
         /\ Open(r, w) \in Rends /\ Alike(Open(r, w), r) /\ Open(r, w).res = Append(r.res, <<"+", w>>)
         /\ Close(r, w) \in Rends /\ Alike(Close(r, w), r) /\ Close(r, w).res = Append(r.res, <<"-", w>>)
  <1>1. <<"t", w>> \in Html /\ <<"+", w>> \in Html /\ <<"-", w>> \in Html /\ r.res \in Seq(Html)
    BY DEF Html, Rends
  <1>2. \A x \in Html : Append(r.res, x) \in Seq(Html)
    BY <1>1
  <1> QED
    BY <1>1, <1>2, ResFacts DEF Put, Open, Close

LEMMA PlainFacts ==
  ASSUME NEW r \in Rends, NEW s \in Seq(Strings)
  PROVE  Plain(r, s) \in Rends /\ Alike(Plain(r, s), r) /\ Plain(r, s).res = r.res \o Says(s)
  <1>1. r.res \o Says(s) \in Seq(Html)
    BY SaysFacts DEF Rends
  <1>2. Plain(r, s) = [r EXCEPT !.res = r.res \o Says(s)]
    BY DEF Plain, Says
  <1> QED
    BY <1>1, <1>2, ResFacts

LEMMA AlikeFacts ==
  ASSUME NEW r \in Rends, NEW q \in Rends, NEW p \in Rends
  PROVE  Alike(r, r) /\ (Alike(r, q) /\ Alike(q, p) => Alike(r, p))
  BY DEF Alike

LEMMA NoneFacts ==
  ASSUME NEW A
  PROVE  <<>> \in Seq(A) /\ Len(<<>>) = 0 /\ DOMAIN <<>> = {} /\ \A k : ~Has(<<>>, k)
  <1>1. <<>> \in Seq(A) /\ Len(<<>>) = 0 /\ DOMAIN <<>> = {}
    OBVIOUS
  <1> QED
    BY <1>1 DEF Has

LEMMA StepStill ==
  ASSUME NEW a, NEW b
  PROVE  /\ Step(a, <<"t", "">>, b) <=> b = a
         /\ Step(a, <<"in", "">>, b) <=> a # <<>> /\ b = a
         /\ <<"t", "">>[1] = "t" /\ <<"in", "">>[1] = "in"
  BY DEF Step

(* Calls after which the same elements are open. *)
LEMMA StillFirst ==
  ASSUME TypeOK, StackOK, calls # <<>>, Head(calls).k \notin {"begin", "end", "title"}
  PROVE  /\ Mark(Head(calls)) \in {<<"t", "">>, <<"in", "">>}
         /\ Step(rend.stack, Mark(Head(calls)), rend.stack)
         /\ Mark(Head(calls))[1] = "in" => rend.stack # <<>>
  <1>1. calls \o queue \in Seq(Tokens(Here)) /\ calls \o queue # <<>> /\ Head(calls \o queue) = Head(calls)
    BY HereFacts
  <1>2. Goes(rend.stack, calls \o queue, <<>>)
    BY DEF StackOK, Goes
  <1>3. PICK c \in Stacks : Step(rend.stack, Mark(Head(calls)), c)
    BY <1>1, <1>2, GoesFirst
  <1>4. Mark(Head(calls)) \in {<<"t", "">>, <<"in", "">>}
    BY DEF Mark
  <1> DEFINE m == Mark(Head(calls))
             a == rend.stack
  <1>7. Step(a, m, c) /\ m \in {<<"t", "">>, <<"in", "">>}
    BY <1>3, <1>4
  <1> HIDE DEF m, a
  <1>8. Step(a, m, a) /\ (m[1] = "in" => a # <<>>)
    <2>1. CASE m = <<"t", "">>
      <3>1. Step(a, <<"t", "">>, a)
        BY StepStill
      <3>2. m[1] = "t" /\ "t" # "in"
        BY <2>1, StepStill
      <3> QED
        BY <2>1, <3>1, <3>2
    <2>2. CASE m = <<"in", "">>
      <3>1. Step(a, <<"in", "">>, c)
        BY <1>7, <2>2
      <3>2. a # <<>> /\ Step(a, <<"in", "">>, a)
        BY <3>1, StepStill
      <3> QED
        BY <2>2, <3>2
    <2> QED
      BY <1>7, <2>1, <2>2
  <1> QED
    BY <1>7, <1>8 DEF m, a

LEMMA TurnStill ==
  ASSUME TypeOK, StackOK, calls # <<>>, Head(calls).k \notin {"begin", "end", "title"},
         NEW r \in Rends, r.stack = rend.stack, NEW cs \in Seq(CallToks(Here)), Turns(r, cs),
         \A i \in DOMAIN cs : \/ Mark(cs[i])[1] = "t"
                              \/ Mark(cs[i])[1] = "in" /\ Mark(Head(calls))[1] = "in"
  PROVE  StackOK'
  <1>1. /\ Step(rend.stack, Mark(Head(calls)), rend.stack)
        /\ Mark(Head(calls))[1] = "in" => rend.stack # <<>>
    BY StillFirst
  <1>2. rend.stack \in Stacks /\ cs \in Seq(Tokens(Here))
    BY HereFacts, SeqMonotonic
  <1>3. \A i \in 1 .. Len(cs) : Idle(Mark(cs[i]), rend.stack)
    BY <1>1 DEF Idle
  <1>4. Goes(r.stack, cs, rend.stack)
    BY <1>2, <1>3, GoesIdle
  <1> QED
    BY <1>1, <1>2, <1>4, TurnStack

LEMMA DoesStill ==
  ASSUME TypeOK, StackOK, calls # <<>>, Head(calls).k \notin {"begin", "end", "title"},
         NEW r \in Rends, r.stack = rend.stack, NEW cs \in Seq(CallToks(Here)), Does(r, cs),
         \A i \in DOMAIN cs : \/ Mark(cs[i])[1] = "t"
                              \/ Mark(cs[i])[1] = "in" /\ Mark(Head(calls))[1] = "in"
  PROVE  StackOK'
  BY TurnsIt, TurnStill

\* A call that only writes, and makes no others.

LEMMA DoesWrite ==
  ASSUME IInv, calls # <<>>, Head(calls).k \notin {"begin", "end", "title", "endstyle", "endlink"},
         NEW r \in Rends, r.stack = rend.stack, r.styles = rend.styles, r.barrier = rend.barrier,
         \A i \in DOMAIN r.lits : Len(r.lits[i]) = 3,
         r.err \in {"", "ReturnNothing"}, Does(r, <<>>)
  PROVE  IInv'
  <1> DEFINE cs == <<>>
  <1>1. cs \in Seq(CallToks(Here)) /\ DOMAIN cs = {} /\ ~Has(cs, "endstyle") /\ ~Has(cs, "endlink")
    BY NoneFacts
  <1>2. Does(r, cs)
    OBVIOUS
  <1> HIDE DEF cs
  <1>3. StackOK' /\ CallsOK' /\ StylesOK'
    BY <1>1, <1>2, DoesStill, DoesCalls, DoesStyles DEF IInv
  <1>4. TypeOK' /\ SubsOK' /\ HeaderOK' /\ DepthOK' /\ FailsAsKnown'
    BY <1>1, <1>2, DoesRest
  <1> QED
    BY <1>3, <1>4 DEF IInv

\* A call that goes on as others.

LEMMA DoesMore ==
  ASSUME IInv, calls # <<>>, Head(calls).k \notin {"begin", "end", "title", "endstyle", "endlink"},
         NEW r \in Rends, r.stack = rend.stack, r.styles = rend.styles, r.barrier = rend.barrier,
         \A i \in DOMAIN r.lits : Len(r.lits[i]) = 3,
         r.err \in {"", "ReturnNothing"}, NEW cs \in Seq(CallToks(Here)), Does(r, cs),
         \A i \in DOMAIN cs : /\ \/ Mark(cs[i])[1] = "t"
                                 \/ Mark(cs[i])[1] = "in" /\ Mark(Head(calls))[1] = "in"
                              /\ cs[i].k \notin {"endstyle", "endlink"},
         \A i, j \in DOMAIN cs : j < i => Before(cs[j], cs[i]),
         \A j \in DOMAIN cs, d \in CallToks(Here) : Before(Head(calls), d) => Before(cs[j], d),
         ~Substitutes => \A i \in DOMAIN cs : Shallow(cs[i])
  PROVE  IInv'
  <1>1. ~Has(cs, "endstyle") /\ ~Has(cs, "endlink")
    BY DEF Has
  <1>3. TypeOK' /\ SubsOK' /\ HeaderOK' /\ DepthOK' /\ FailsAsKnown'
    BY DoesRest
  <1>5. StackOK'
    BY DoesStill DEF IInv
  <1>6. CallsOK'
    BY DoesCalls DEF IInv
  <1>7. StylesOK'
    BY <1>1, DoesStyles DEF IInv
  <1> QED
    BY <1>3, <1>5, <1>6, <1>7 DEF IInv

LEMMA HeadIsFirst ==
  ASSUME NEW A, NEW q \in Seq(A), q # <<>>
  PROVE  1 \in DOMAIN q /\ Head(q) = q[1]
  OBVIOUS

LEMMA CallFacts ==
  ASSUME IInv, NEW kinds, Calling(kinds)
  PROVE  /\ calls # <<>> /\ Cl \in CallToks(Here) /\ Cl = Head(calls) /\ Cl.k \in kinds
         /\ Cl.txt \in Seq(Strings) /\ Cl.kid \in Seq(Here) /\ Cl.el \in Strings
         /\ Cl.lvl \in Nat /\ (~Substitutes => Shallow(Cl))
         /\ rend \in Rends /\ rend.err = "" /\ \A i \in DOMAIN rend.lits : Len(rend.lits[i]) = 3
         /\ ~done /\ ~loop.on
  <1>1. calls # <<>> /\ Head(calls).k \in kinds /\ rend.err = "" /\ ~done
    BY DEF Calling
  <1>2. Head(calls) \in CallToks(Here)
    <2>1. calls \in Seq(CallToks(Here))
      BY HereFacts DEF IInv
    <2> QED
      BY <1>1, <2>1, HeadAndTail
  <1>3. ~Substitutes => Shallow(Head(calls))
    <2>1. calls \in Seq(CallToks(Here)) /\ calls # <<>>
      BY <1>1, HereFacts DEF IInv
    <2>2. 1 \in DOMAIN calls /\ Head(calls) = calls[1]
      BY <2>1, HeadIsFirst
    <2>3. ~Substitutes => Shallow(calls[1])
      BY <2>2 DEF IInv, DepthOK
    <2> QED
      BY <2>2, <2>3
  <1> QED
    BY <1>1, <1>2, <1>3 DEF Cl, CallToks, Tokens, IInv, TypeOK

LEMMA InlinePlainKeeps == ASSUME IInv, InlinePlain PROVE IInv'
  <1>1. /\ calls # <<>> /\ Head(calls).k \in {"plain", "quote"} /\ Cl.txt \in Seq(Strings)
        /\ rend \in Rends /\ rend.err = "" /\ \A i \in DOMAIN rend.lits : Len(rend.lits[i]) = 3
    BY CallFacts DEF InlinePlain, Cl
  <1> DEFINE r == Plain(rend, Cl.txt)
  <1>2. r \in Rends /\ Alike(r, rend)
    BY <1>1, PlainFacts
  <1>3. Does(r, <<>>)
    BY DEF InlinePlain
  <1> HIDE DEF r
  <1> QED
    BY <1>1, <1>2, <1>3, DoesWrite DEF Alike

LEMMA InlineCodeKeeps == ASSUME IInv, InlineCode PROVE IInv'
  <1>1. /\ calls # <<>> /\ Head(calls).k \in {"(("} /\ Cl.txt \in Seq(Strings)
        /\ rend \in Rends /\ rend.err = "" /\ \A i \in DOMAIN rend.lits : Len(rend.lits[i]) = 3
    BY CallFacts DEF InlineCode, Cl
  <1> DEFINE r == IF Contains(rend.styles, "code") THEN Plain(rend, Cl.txt)
                  ELSE Close(Plain(Open(rend, "code"), Cl.txt), "code")
  <1>2. r \in Rends /\ Alike(r, rend)
    <2>1. "code" \in Strings
      BY DEF Strings, Fonts
    <2> DEFINE o == Open(rend, "code")
               p == Plain(o, Cl.txt)
               c == Close(p, "code")
    <2>2. o \in Rends /\ Alike(o, rend)
      BY <1>1, <2>1, PutFacts
    <2> HIDE DEF o
    <2>3. p \in Rends /\ Alike(p, o)
      BY <1>1, <2>2, PlainFacts
    <2> HIDE DEF p
    <2>4. c \in Rends /\ Alike(c, p)
      BY <2>1, <2>3, PutFacts
    <2> HIDE DEF c
    <2>5. Alike(c, rend)
      BY <2>2, <2>3, <2>4 DEF Alike
    <2>6. Plain(rend, Cl.txt) \in Rends /\ Alike(Plain(rend, Cl.txt), rend)
      BY <1>1, PlainFacts
    <2>7. r = IF Contains(rend.styles, "code") THEN Plain(rend, Cl.txt) ELSE c
      BY DEF c, p, o
    <2> QED
      BY <2>4, <2>5, <2>6, <2>7
  <1>3. Does(r, <<>>)
    BY DEF InlineCode
  <1> HIDE DEF r
  <1> QED
    BY <1>1, <1>2, <1>3, DoesWrite DEF Alike

-----------------------------------------------------------------------------
(* Marks: what UnwindInline() does.                                        *)

LEMMA FirstFacts ==
  ASSUME NEW r \in Rends, NEW e, Contains(r.styles, e)
  PROVE  /\ First(r, e) \in 1 .. Len(r.styles) /\ r.styles[First(r, e)] = e
         /\ \A i \in 1 .. Len(r.styles) : r.styles[i] = e => First(r, e) <= i
  <1> DEFINE S == {i \in DOMAIN r.styles : r.styles[i] = e}
  <1>1. r.styles \in Seq(Fonts)
    BY DEF Rends
  <1>2. DOMAIN r.styles = 1 .. Len(r.styles) /\ Len(r.styles) \in Nat
    BY <1>1
  <1>3. S \subseteq Nat /\ S # {}
    BY <1>2 DEF Contains
  <1>4. Min(S) \in S /\ \A x \in S : Min(S) <= x
    BY <1>3, MinFacts
  <1> QED
    BY <1>2, <1>4 DEF First

\* The starts that UnwindInline() turns back, one by one.
Turned(h, x) ==
  LET at == {i \in DOMAIN h : h[i] = <<"+", x>>}
  IN IF x \notin {"em", "strong", "code"} \/ at = {}
     THEN Append(h, <<"-", x>>)
     ELSE [h EXCEPT ![Max(at)] = <<"t", MarkOf(x)>>]

LEMMA MarkOfType ==
  ASSUME NEW x \in {"em", "strong", "code"}
  PROVE  MarkOf(x) \in Strings
  <1>1. \E m \in Marks : Styled(m) = x
    <2>1. Styled("*") = "em" /\ Styled("~~") = "strong" /\ Styled("_") = "code"
      BY DEF Styled
    <2> QED
      BY <2>1 DEF Marks
  <1>2. MarkOf(x) \in Marks
    BY <1>1 DEF MarkOf
  <1> QED
    BY <1>2, Plainly

LEMMA TurnedType ==
  ASSUME NEW h \in Seq(Html), NEW x \in Fonts
  PROVE  Turned(h, x) \in Seq(Html)
  <1> DEFINE at == {i \in DOMAIN h : h[i] = <<"+", x>>}
  <1>1. x \in Strings
    BY Plainly
  <1>2. CASE x \notin {"em", "strong", "code"} \/ at = {}
    <2>1. <<"-", x>> \in Html
      BY <1>1 DEF Html
    <2>2. Append(h, <<"-", x>>) \in Seq(Html)
      BY <2>1
    <2> QED
      BY <1>2, <2>2 DEF Turned
  <1>3. CASE ~ (x \notin {"em", "strong", "code"} \/ at = {})
    <2>1. <<"t", MarkOf(x)>> \in Html
      BY <1>3, MarkOfType DEF Html
    <2>2. [h EXCEPT ![Max(at)] = <<"t", MarkOf(x)>>] \in Seq(Html)
      <3>1. at \subseteq Nat /\ at # {} /\ Len(h) \in Nat /\ (\A i \in at : i <= Len(h)) /\ DOMAIN h = 1 .. Len(h)
        BY <1>3
      <3>2. Max(at) \in at
        BY <3>1, MaxFacts
      <3>3. Max(at) \in 1 .. Len(h)
        BY <3>1, <3>2
      <3> DEFINE m == Max(at)
                 x1 == <<"t", MarkOf(x)>>
      <3>4. m \in 1 .. Len(h) /\ x1 \in Html
        BY <2>1, <3>3
      <3> HIDE DEF m, x1
      <3>5. [h EXCEPT ![m] = x1] \in Seq(Html)
        BY <3>4, ExceptSeq
      <3> QED
        BY <3>5 DEF m, x1
    <2> QED
      BY <1>3, <2>2 DEF Turned
  <1> QED
    BY <1>2, <1>3

LEMMA UnwindSteps ==
  ASSUME NEW r \in Rends, NEW e, Contains(r.styles, e)
  PROVE  \E f \in [0 .. First(r, e) - 1 -> Seq(Html)] :
            /\ f[0] = r.res
            /\ \A i \in 1 .. First(r, e) - 1 : f[i] = Turned(f[i - 1], r.styles[i])
            /\ UnwindInline(r, e) = Close([StylesBut(r, First(r, e)) EXCEPT !.res = f[First(r, e) - 1]], e)
  <1> DEFINE n == First(r, e)
             Back(h, x) ==
               LET at == {i \in DOMAIN h : h[i] = <<"+", x>>}
               IN IF x \notin {"em", "strong", "code"} \/ at = {}
                  THEN Append(h, <<"-", x>>)
                  ELSE [h EXCEPT ![Max(at)] = <<"t", MarkOf(x)>>]
             back[i \in 0 .. n - 1] == IF i = 0 THEN r.res ELSE Back(back[i - 1], r.styles[i])
             Eq(f) == f = [i \in 0 .. n - 1 |-> IF i = 0 THEN r.res ELSE Back(f[i - 1], r.styles[i])]
             F == [i \in 1 .. n - 1 |-> [h \in Seq(Html) |-> Turned(h, r.styles[i])]]
  <1>1. UnwindInline(r, e) = Close([StylesBut(r, n) EXCEPT !.res = back[n - 1]], e)
    BY DEF UnwindInline
  <1>u. back = CHOOSE f : Eq(f)
    OBVIOUS
  <1>b. \A h, x : Back(h, x) = Turned(h, x)
    BY DEF Turned
  <1> HIDE DEF back, Back
  <1>0. /\ n \in Nat /\ n >= 1 /\ n - 1 \in Nat /\ r.res \in Seq(Html)
        /\ \A i \in 1 .. n - 1 : r.styles[i] \in Fonts
    <2>1. n \in 1 .. Len(r.styles) /\ r.styles \in Seq(Fonts) /\ r.res \in Seq(Html)
      BY FirstFacts DEF Rends
    <2> HIDE DEF n
    <2> QED
      BY <2>1
  <1>2. F \in [1 .. n - 1 -> [Seq(Html) -> Seq(Html)]]
    BY <1>0, TurnedType
  <1>f. \A i \in 1 .. n - 1, h \in Seq(Html) : F[i][h] = Turned(h, r.styles[i])
    OBVIOUS
  <1> HIDE DEF F, n
  <1>3. PICK g \in Iterates(n - 1, Seq(Html), r.res, F) : TRUE
    BY <1>0, <1>2, Recursion
  <1>4. g \in [0 .. n - 1 -> Seq(Html)] /\ g[0] = r.res /\ \A i \in 1 .. n - 1 : g[i] = F[i][g[i - 1]]
    BY <1>3 DEF Iterates
  <1>5. \A i \in 0 .. n - 1 : i # 0 => i \in 1 .. n - 1 /\ i - 1 \in 0 .. n - 1
    BY <1>0
  <1>6. Eq(g)
    <2>1. ASSUME NEW i \in 0 .. n - 1 PROVE g[i] = IF i = 0 THEN r.res ELSE Back(g[i - 1], r.styles[i])
      BY <1>4, <1>5, <1>f, <1>b
    <2> QED
      BY <1>4, <2>1
  <1>7. Eq(back)
    <2> HIDE DEF Eq
    <2> QED
      BY <1>6, <1>u
  <1> DEFINE P == {i \in Nat : i <= n - 1 => back[i] = g[i]}
  <1>8. \A i \in 0 .. n - 1 : back[i] = IF i = 0 THEN r.res ELSE Turned(back[i - 1], r.styles[i])
    BY <1>7, <1>b
  <1>9. 0 \in P
    <2>1. 0 \in 0 .. n - 1
      BY <1>0
    <2> QED
      BY <1>4, <1>8, <2>1
  <1>10. ASSUME NEW i \in Nat, i \in P PROVE i + 1 \in P
    <2> SUFFICES ASSUME i + 1 <= n - 1 PROVE back[i + 1] = g[i + 1]
      OBVIOUS
    <2>1. i + 1 \in 0 .. n - 1 /\ i + 1 \in 1 .. n - 1 /\ (i + 1) - 1 = i /\ i \in 0 .. n - 1 /\ i + 1 # 0 /\ i <= n - 1
      BY <1>0
    <2>2. back[i + 1] = Turned(back[i], r.styles[i + 1])
      BY <1>8, <2>1
    <2>3. g[i + 1] = Turned(g[i], r.styles[i + 1])
      BY <1>4, <1>f, <2>1
    <2> QED
      BY <1>10, <2>1, <2>2, <2>3
  <1>11. back[n - 1] = g[n - 1]
    <2>1. Nat \subseteq P
      <3> HIDE DEF P
      <3> QED
        BY <1>9, <1>10, SetInduction
    <2> QED
      BY <1>0, <2>1
  <1>12. UnwindInline(r, e) = Close([StylesBut(r, n) EXCEPT !.res = g[n - 1]], e)
    BY <1>1, <1>11
  <1>13. \A i \in 1 .. n - 1 : g[i] = Turned(g[i - 1], r.styles[i])
    BY <1>4, <1>5, <1>f
  <1> QED
    BY <1>4, <1>12, <1>13 DEF n

LEMMA LenNone == Len(<<>>) = 0
  OBVIOUS

LEMMA StylesButFacts ==
  ASSUME NEW r \in Rends, NEW n \in 0 .. Len(r.styles)
  PROVE  LET s == StylesBut(r, n)
         IN /\ s \in Rends /\ s.styles = Rest(r.styles, n) /\ s.res = r.res
            /\ s.stack = r.stack /\ s.barrier = r.barrier /\ s.lits = r.lits /\ s.err = r.err
            /\ s.floor = r.floor /\ s.blocks = r.blocks /\ s.title = r.title /\ s.mode = r.mode
            /\ s.leak = (r.leak \/ Len(r.styles) - n < r.floor)
  <1>1. r.styles \in Seq(Fonts) /\ r.leak \in BOOLEAN
    BY DEF Rends
  <1>2. Rest(r.styles, n) \in Seq(Fonts)
    BY <1>1, RestFacts
  <1>3. StylesBut(r, n) = [r EXCEPT !.styles = Rest(r.styles, n), !.leak = r.leak \/ Len(r.styles) - n < r.floor]
    BY DEF StylesBut
  <1>4. (r.leak \/ Len(r.styles) - n < r.floor) \in BOOLEAN
    OBVIOUS
  <1> DEFINE v == Rest(r.styles, n)
             b == r.leak \/ Len(r.styles) - n < r.floor
             s == [r EXCEPT !.styles = v, !.leak = b]
  <1>5. v \in Seq(Fonts) /\ b \in BOOLEAN /\ StylesBut(r, n) = s
    BY <1>2, <1>3, <1>4
  <1> HIDE DEF v, b
  <1>6. s \in Rends
    BY <1>5 DEF Rends
  <1>7. s.styles = v /\ s.leak = b
    BY DEF Rends
  <1>8. /\ s.res = r.res /\ s.stack = r.stack /\ s.barrier = r.barrier /\ s.lits = r.lits /\ s.err = r.err
        /\ s.floor = r.floor /\ s.blocks = r.blocks /\ s.title = r.title /\ s.mode = r.mode
    BY DEF Rends
  <1> HIDE DEF s
  <1> QED
    BY <1>5, <1>6, <1>7, <1>8 DEF v, b

LEMMA UnwindFacts ==
  ASSUME NEW r \in Rends, NEW e \in Fonts, Contains(r.styles, e)
  PROVE  LET u == UnwindInline(r, e)
             n == First(r, e)
         IN /\ u \in Rends /\ u.styles = Rest(r.styles, n) /\ n \in 1 .. Len(r.styles)
            /\ u.stack = r.stack /\ u.barrier = r.barrier /\ u.lits = r.lits /\ u.err = r.err
            /\ u.floor = r.floor /\ u.blocks = r.blocks /\ u.title = r.title /\ u.mode = r.mode
            /\ u.leak = (r.leak \/ Len(r.styles) - n < r.floor)
            /\ \E f \in [0 .. n - 1 -> Seq(Html)] :
                  /\ f[0] = r.res
                  /\ \A i \in 1 .. n - 1 : f[i] = Turned(f[i - 1], r.styles[i])
                  /\ u.res = Append(f[n - 1], <<"-", e>>)
  <1> DEFINE n == First(r, e)
             s == StylesBut(r, n)
  <1>1. n \in 1 .. Len(r.styles) /\ n \in 0 .. Len(r.styles) /\ n - 1 \in 0 .. n - 1
    <2>1. n \in 1 .. Len(r.styles)
      BY FirstFacts
    <2> HIDE DEF n
    <2> QED
      BY <2>1
  <1>2. /\ s \in Rends /\ s.styles = Rest(r.styles, n) /\ s.res = r.res
        /\ s.stack = r.stack /\ s.barrier = r.barrier /\ s.lits = r.lits /\ s.err = r.err
        /\ s.floor = r.floor /\ s.blocks = r.blocks /\ s.title = r.title /\ s.mode = r.mode
        /\ s.leak = (r.leak \/ Len(r.styles) - n < r.floor)
    BY <1>1, StylesButFacts
  <1>3. PICK f \in [0 .. n - 1 -> Seq(Html)] :
            /\ f[0] = r.res
            /\ \A i \in 1 .. n - 1 : f[i] = Turned(f[i - 1], r.styles[i])
            /\ UnwindInline(r, e) = Close([s EXCEPT !.res = f[n - 1]], e)
    BY UnwindSteps
  <1> HIDE DEF n, s
  <1> DEFINE t == [s EXCEPT !.res = f[n - 1]]
  <1>4. t \in Rends /\ Alike(t, s) /\ t.res = f[n - 1] /\ t.styles = s.styles
    <2>1. f[n - 1] \in Seq(Html)
      BY <1>1, <1>3
    <2> QED
      BY <1>2, <2>1, ResFacts DEF Alike
  <1> HIDE DEF t
  <1>5. Close(t, e) \in Rends /\ Alike(Close(t, e), t) /\ Close(t, e).res = Append(t.res, <<"-", e>>)
    BY <1>4, Plainly, PutFacts
  <1>6. UnwindInline(r, e) = Close(t, e)
    BY <1>3 DEF t
  <1> DEFINE u == UnwindInline(r, e)
  <1>7. /\ u \in Rends /\ Alike(u, t) /\ u.res = Append(f[n - 1], <<"-", e>>)
    BY <1>4, <1>5, <1>6
  <1> HIDE DEF u
  <1>8. /\ u.styles = Rest(r.styles, n)
        /\ u.stack = r.stack /\ u.barrier = r.barrier /\ u.lits = r.lits /\ u.err = r.err
        /\ u.floor = r.floor /\ u.blocks = r.blocks /\ u.title = r.title /\ u.mode = r.mode
        /\ u.leak = (r.leak \/ Len(r.styles) - n < r.floor)
    BY <1>2, <1>4, <1>7 DEF Alike
  <1>9. \E g \in [0 .. n - 1 -> Seq(Html)] :
                  /\ g[0] = r.res
                  /\ \A i \in 1 .. n - 1 : g[i] = Turned(g[i - 1], r.styles[i])
                  /\ u.res = Append(g[n - 1], <<"-", e>>)
    BY <1>3, <1>7
  <1> QED
    BY <1>1, <1>7, <1>8, <1>9 DEF u, n

\* What becomes of the styles when a mark is met.
FontStep(r, q, e) ==
  \/ \E w \in Strings : q = Put(r, w)
  \/ /\ ~BlockedStyle(r, e) /\ Contains(r.styles, e) /\ q = UnwindInline(r, e)
  \/ /\ ~Contains(r.styles, e) /\ q = StartStyle(r, e)

LEMMA StartStyleFacts ==
  ASSUME NEW r \in Rends, NEW e \in Fonts
  PROVE  LET q == StartStyle(r, e)
         IN /\ q \in Rends /\ q.styles = <<e>> \o r.styles /\ q.res = Append(r.res, <<"+", e>>)
            /\ q.stack = r.stack /\ q.barrier = r.barrier /\ q.lits = r.lits /\ q.err = r.err
            /\ q.floor = r.floor /\ q.blocks = r.blocks /\ q.title = r.title /\ q.mode = r.mode
            /\ q.leak = r.leak
  <1>1. r.styles \in Seq(Fonts)
    BY DEF Rends
  <1>2. <<e>> \o r.styles \in Seq(Fonts)
    BY <1>1, ConsFacts
  <1> DEFINE o == Open(r, e)
  <1>3. o \in Rends /\ Alike(o, r) /\ o.res = Append(r.res, <<"+", e>>)
    BY Plainly, PutFacts
  <1>4. StartStyle(r, e) = [o EXCEPT !.styles = <<e>> \o o.styles]
    BY DEF StartStyle
  <1> HIDE DEF o
  <1>5. StartStyle(r, e) = [o EXCEPT !.styles = <<e>> \o r.styles]
    BY <1>3, <1>4 DEF Alike
  <1> QED
    BY <1>2, <1>3, <1>5 DEF Rends, Alike

LEMMA InlineFontFacts ==
  ASSUME NEW r \in Rends, NEW m \in Marks, NEW text, NEW last
  PROVE  Styled(m) \in {"em", "strong", "code"} /\ FontStep(r, InlineFont(r, m, text, last), Styled(m))
  <1> DEFINE e == Styled(m)
  <1>1. e \in {"em", "strong", "code"}
    BY DEF Styled, Marks
  <1>2. m \in Strings
    BY Plainly
  <1>3. CASE BlockedStyle(r, e) \/ m \in r.off
    <2>1. InlineFont(r, m, text, last) = Put(r, m)
      BY <1>3 DEF InlineFont
    <2> QED
      BY <1>1, <1>2, <2>1 DEF FontStep
  <1>4. CASE ~BlockedStyle(r, e) /\ m \notin r.off /\ Contains(r.styles, e)
    <2>1. InlineFont(r, m, text, last) = UnwindInline(r, e)
      BY <1>4 DEF InlineFont
    <2> QED
      BY <1>1, <1>4, <2>1 DEF FontStep
  <1>5. CASE ~BlockedStyle(r, e) /\ m \notin r.off /\ ~Contains(r.styles, e)
    <2>1. InlineFont(r, m, text, last) = Put(r, m) \/ InlineFont(r, m, text, last) = StartStyle(r, e)
      BY <1>5 DEF InlineFont, StartStyle
    <2> QED
      BY <1>1, <1>2, <1>5, <2>1 DEF FontStep
  <1> QED
    BY <1>3, <1>4, <1>5

LEMMA FontStepType ==
  ASSUME NEW r \in Rends, NEW e \in Fonts, NEW q, FontStep(r, q, e)
  PROVE  /\ q \in Rends
         /\ q.stack = r.stack /\ q.barrier = r.barrier /\ q.lits = r.lits /\ q.err = r.err
         /\ q.floor = r.floor /\ q.blocks = r.blocks /\ q.title = r.title /\ q.mode = r.mode
  <1>1. CASE \E w \in Strings : q = Put(r, w)
    BY <1>1, PutFacts DEF Alike
  <1>2. CASE ~BlockedStyle(r, e) /\ Contains(r.styles, e) /\ q = UnwindInline(r, e)
    BY <1>2, UnwindFacts
  <1>3. CASE ~Contains(r.styles, e) /\ q = StartStyle(r, e)
    BY <1>3, StartStyleFacts
  <1> QED
    BY <1>1, <1>2, <1>3 DEF FontStep

LEMMA FontStyles ==
  ASSUME TypeOK, StylesOK, calls # <<>>, NEW r, NEW cs \in Seq(CallToks(Here)), Does(r, cs),
         ~Has(cs, "endstyle"), ~Has(cs, "endlink"), Head(calls).k \notin {"endstyle", "endlink"},
         NEW e \in {"em", "strong", "code"}, FontStep(rend, r, e)
  PROVE  StylesOK'
  <1> SUFFICES ASSUME ~Substitutes PROVE StylesHold'
    <2>1. Substitutes' <=> Substitutes
      BY SameInput DEF Does
    <2> QED
      BY <2>1 DEF StylesOK
  <1> DEFINE st == rend.styles
  <1>0. rend \in Rends /\ st \in Seq(Fonts) /\ e \in Fonts /\ rend' = r /\ e # "big"
        /\ Len(st) \in Nat /\ DOMAIN st = 1 .. Len(st)
    <2>1. rend \in Rends /\ rend.styles \in Seq(Fonts)
      BY DEF TypeOK, Rends
    <2> QED
      BY <2>1 DEF Fonts, Does
  <1>1. (Pending("endstyle")' <=> Pending("endstyle")) /\ (Pending("endlink")' <=> Pending("endlink"))
    BY DoesPending
  <1>2. r.barrier = rend.barrier
    BY <1>0, FontStepType
  <1>s. /\ \A i, j \in DOMAIN st : st[i] = st[j] => i = j
        /\ Pending("endstyle") <=> Contains(st, "big")
        /\ Pending("endstyle") =>
             \A i, j \in DOMAIN st, m \in DOMAIN rend.barrier :
                st[i] = "big" /\ i <= j => Contains(rend.barrier[m], st[j])
        /\ Len(rend.barrier) = (IF Pending("endstyle") THEN 1 ELSE 0) + (IF Pending("endlink") THEN 1 ELSE 0)
    BY DEF StylesOK, StylesHold
  <1>3. CASE \E w \in Strings : r = Put(rend, w)
    <2>1. r.styles = rend.styles
      BY <1>0, <1>3, PutFacts DEF Alike
    <2> QED
      BY <1>1, <1>2, <1>s, <2>1, <1>0 DEF StylesHold
  <1>4. CASE ~Contains(st, e) /\ r = StartStyle(rend, e)
    <2> DEFINE t == r.styles
    <2>1. t = <<e>> \o st
      BY <1>0, <1>4, StartStyleFacts
    <2>2. /\ t \in Seq(Fonts) /\ Len(t) = Len(st) + 1 /\ t[1] = e
          /\ \A k \in 1 .. Len(st) : t[k + 1] = st[k]
      BY <1>0, <2>1, ConsFacts
    <2> HIDE DEF st, t
    <2>3. DOMAIN t = 1 .. Len(st) + 1
      BY <2>2
    <2>4. ASSUME NEW i \in DOMAIN t PROVE i = 1 \/ (i - 1 \in DOMAIN st /\ t[i] = st[i - 1])
      <3> SUFFICES ASSUME i # 1 PROVE i - 1 \in DOMAIN st /\ t[i] = st[i - 1]
        OBVIOUS
      <3>1. i - 1 \in 1 .. Len(st) /\ (i - 1) + 1 = i
        BY <1>0, <2>3
      <3> QED
        BY <1>0, <2>2, <3>1
    <2>5. \A k \in DOMAIN st : st[k] # e
      BY <1>0, <1>4 DEF Contains, st
    <2>6. \A i, j \in DOMAIN t : t[i] = t[j] => i = j
      <3> SUFFICES ASSUME NEW i \in DOMAIN t, NEW j \in DOMAIN t, t[i] = t[j] PROVE i = j
        OBVIOUS
      <3>1. i \in Nat /\ j \in Nat
        BY <2>3
      <3>2. CASE i = 1
        BY <2>2, <2>4, <2>5, <3>2
      <3>3. CASE j = 1
        BY <2>2, <2>4, <2>5, <3>3
      <3>4. CASE i # 1 /\ j # 1
        <4>1. st[i - 1] = st[j - 1] /\ i - 1 \in DOMAIN st /\ j - 1 \in DOMAIN st
          BY <2>4, <3>4
        <4>2. i - 1 = j - 1
          BY <1>s, <4>1
        <4> QED
          BY <3>1, <4>2
      <3> QED
        BY <3>2, <3>3, <3>4
    <2>7. Contains(t, "big") <=> Contains(st, "big")
      <3>1. ASSUME NEW i \in 1 .. Len(t), t[i] = "big" PROVE \E k \in 1 .. Len(st) : st[k] = "big"
        <4>1. i \in DOMAIN t /\ i # 1
          BY <1>0, <2>2, <3>1
        <4> QED
          BY <1>0, <2>4, <3>1, <4>1
      <3>2. ASSUME NEW k \in 1 .. Len(st), st[k] = "big" PROVE \E i \in 1 .. Len(t) : t[i] = "big"
        <4>1. k + 1 \in 1 .. Len(t)
          BY <1>0, <2>2
        <4> QED
          BY <2>2, <3>2, <4>1
      <3> QED
        BY <3>1, <3>2 DEF Contains
    <2>8. ASSUME Pending("endstyle"), NEW i \in DOMAIN t, NEW j \in DOMAIN t, NEW m \in DOMAIN rend.barrier,
                 t[i] = "big", i <= j
          PROVE  Contains(rend.barrier[m], t[j])
      <3>1. i # 1 /\ i \in Nat /\ j \in Nat /\ i >= 1
        BY <1>0, <2>2, <2>3, <2>8
      <3>2. j # 1
        BY <2>8, <3>1
      <3>3. st[i - 1] = "big" /\ t[j] = st[j - 1] /\ i - 1 \in DOMAIN st /\ j - 1 \in DOMAIN st /\ i - 1 <= j - 1
        BY <2>4, <2>8, <3>1, <3>2
      <3> QED
        BY <1>s, <2>8, <3>3
    <2> QED
      BY <1>0, <1>1, <1>2, <1>s, <2>6, <2>7, <2>8 DEF StylesHold, t
  <1>5. CASE ~BlockedStyle(rend, e) /\ Contains(st, e) /\ r = UnwindInline(rend, e)
    <2> DEFINE t == r.styles
               n == First(rend, e)
    <2>1. t = Rest(st, n) /\ n \in 1 .. Len(st) /\ st[n] = e
      BY <1>0, <1>5, UnwindFacts, FirstFacts
    <2> HIDE DEF n
    <2>2. /\ t \in Seq(Fonts) /\ Len(t) = Len(st) - n
          /\ \A k \in 1 .. Len(st) - n : t[k] = st[n + k]
      <3> HIDE DEF st, t
      <3>1. n \in 0 .. Len(st)
        BY <1>0, <2>1
      <3>2. /\ Rest(st, n) \in Seq(Fonts) /\ Len(Rest(st, n)) = Len(st) - n
            /\ \A k \in 1 .. Len(st) - n : Rest(st, n)[k] = st[n + k]
        BY <1>0, <3>1, RestFacts
      <3> QED
        BY <2>1, <3>2
    <2> HIDE DEF st, t
    <2>3. DOMAIN t = 1 .. Len(st) - n /\ n \in Nat
      BY <2>1, <2>2
    <2>4. ASSUME NEW i \in DOMAIN t PROVE n + i \in DOMAIN st /\ t[i] = st[n + i] /\ i \in Nat
      BY <1>0, <2>1, <2>2, <2>3
    <2>5. ASSUME Pending("endstyle"), NEW i \in DOMAIN st, st[i] = "big" PROVE i > n
      <3> SUFFICES ASSUME ~ (i > n) PROVE FALSE
        OBVIOUS
      <3>1. i <= n /\ n \in DOMAIN st
        BY <1>0, <2>1
      <3>2. rend.barrier \in Seq(Seq(Fonts)) /\ Len(rend.barrier) >= 1
        BY <1>0, <1>s, <2>5 DEF Rends
      <3>3. Len(rend.barrier) \in DOMAIN rend.barrier /\ rend.barrier # <<>>
        <4> DEFINE b == rend.barrier
        <4>1. b \in Seq(Seq(Fonts)) /\ Len(b) >= 1
          BY <3>2
        <4> HIDE DEF b
        <4>2. DOMAIN b = 1 .. Len(b) /\ b # <<>>
          <5>1. DOMAIN b = 1 .. Len(b)
            BY <4>1
          <5>2. Len(b) # 0
            BY <4>1
          <5>3. b # <<>>
            BY <5>2, LenNone, Zenon
          <5> QED
            BY <5>1, <5>3
        <4>3. Len(b) \in DOMAIN b /\ b # <<>>
          BY <4>1, <4>2
        <4> QED
          BY <4>3 DEF b
      <3>4. Contains(rend.barrier[Len(rend.barrier)], st[n])
        BY <1>s, <2>5, <3>1, <3>3
      <3> QED
        BY <1>5, <2>1, <3>3, <3>4 DEF BlockedStyle, Last
    <2>6. \A i, j \in DOMAIN t : t[i] = t[j] => i = j
      <3> SUFFICES ASSUME NEW i \in DOMAIN t, NEW j \in DOMAIN t, t[i] = t[j] PROVE i = j
        OBVIOUS
      <3>1. n + i = n + j /\ i \in Nat /\ j \in Nat
        BY <1>s, <2>4
      <3> QED
        BY <2>3, <3>1
    <2>7. Pending("endstyle") <=> Contains(t, "big")
      <3>1. ASSUME NEW i \in 1 .. Len(t), t[i] = "big" PROVE Contains(st, "big")
        <4>1. i \in DOMAIN t
          BY <2>2
        <4> QED
          BY <1>0, <2>4, <3>1, <4>1 DEF Contains
      <3>2. ASSUME Pending("endstyle") PROVE \E i \in 1 .. Len(t) : t[i] = "big"
        <4>1. PICK k \in 1 .. Len(st) : st[k] = "big"
          BY <1>s, <3>2 DEF Contains
        <4>2. k > n
          BY <1>0, <2>5, <3>2, <4>1
        <4>3. k - n \in 1 .. Len(st) - n /\ n + (k - n) = k
          BY <1>0, <2>3, <4>2
        <4> QED
          BY <2>2, <4>1, <4>3
      <3> QED
        BY <1>s, <3>1, <3>2 DEF Contains
    <2>8. ASSUME Pending("endstyle"), NEW i \in DOMAIN t, NEW j \in DOMAIN t, NEW m \in DOMAIN rend.barrier,
                 t[i] = "big", i <= j
          PROVE  Contains(rend.barrier[m], t[j])
      <3>1. n + i \in DOMAIN st /\ n + j \in DOMAIN st /\ t[i] = st[n + i] /\ t[j] = st[n + j] /\ n + i <= n + j
        BY <2>3, <2>4, <2>8
      <3> QED
        BY <1>s, <2>8, <3>1
    <2> QED
      BY <1>0, <1>1, <1>2, <1>s, <2>6, <2>7, <2>8 DEF StylesHold, t
  <1> QED
    BY <1>3, <1>4, <1>5 DEF FontStep

-----------------------------------------------------------------------------
(* Texts: handle_text().                                                   *)

LEMMA DoesFont ==
  ASSUME IInv, calls # <<>>, Head(calls).k \notin {"begin", "end", "title", "endstyle", "endlink"},
         NEW r, NEW e \in {"em", "strong", "code"}, FontStep(rend, r, e),
         NEW cs \in Seq(CallToks(Here)), Does(r, cs), rend.err = "",
         \A i \in DOMAIN cs : /\ \/ Mark(cs[i])[1] = "t"
                                 \/ Mark(cs[i])[1] = "in" /\ Mark(Head(calls))[1] = "in"
                              /\ cs[i].k \notin {"endstyle", "endlink"},
         \A i, j \in DOMAIN cs : j < i => Before(cs[j], cs[i]),
         \A j \in DOMAIN cs, d \in CallToks(Here) : Before(Head(calls), d) => Before(cs[j], d),
         ~Substitutes => \A i \in DOMAIN cs : Shallow(cs[i])
  PROVE  IInv'
  <1>0. rend \in Rends /\ e \in Fonts /\ \A i \in DOMAIN rend.lits : Len(rend.lits[i]) = 3
    BY DEF IInv, TypeOK, Fonts
  <1>r. r \in Rends /\ r.stack = rend.stack /\ r.lits = rend.lits /\ r.err = ""
    <2>1. rend \in Rends /\ e \in Fonts /\ FontStep(rend, r, e)
      BY <1>0
    <2>2. r \in Rends /\ r.stack = rend.stack /\ r.lits = rend.lits /\ r.err = rend.err
      BY <2>1, FontStepType
    <2> QED
      BY <2>2
  <1>1. ~Has(cs, "endstyle") /\ ~Has(cs, "endlink")
    BY DEF Has
  <1>3. TypeOK' /\ SubsOK' /\ HeaderOK' /\ DepthOK' /\ FailsAsKnown'
    BY <1>0, <1>r, DoesRest
  <1>5. StackOK'
    BY <1>r, DoesStill DEF IInv
  <1>6. CallsOK'
    BY DoesCalls DEF IInv
  <1>7. StylesOK'
    BY <1>1, FontStyles DEF IInv
  <1> QED
    BY <1>3, <1>5, <1>6, <1>7 DEF IInv

\* Calls that are not deep.
LEMMA ShallowFacts ==
  ASSUME NEW c
  PROVE  /\ c.k \notin {"text", "ltext", "{{", "[["} => Shallow(c)
         /\ c.k = "ltext" /\ c.lvl \in {0, 1, 2} => Shallow(c)
         /\ c.k = "[[" /\ c.lvl \in {0, 1} => Shallow(c)
         /\ c.k \in {"text", "{{"} /\ c.lvl = 0 => Shallow(c)
  <1>1. c.k \notin {"text", "ltext", "{{", "[["} => Shallow(c)
    BY DEF Shallow
  <1>2. ASSUME c.k = "ltext", c.lvl \in {0, 1, 2} PROVE Shallow(c)
    <2>1. c.lvl <= 2
      BY <1>2
    <2> QED
      BY <1>2, <2>1 DEF Shallow
  <1>3. ASSUME c.k = "[[", c.lvl \in {0, 1} PROVE Shallow(c)
    <2>1. c.lvl <= 1
      BY <1>3
    <2> QED
      BY <1>3, <2>1 DEF Shallow
  <1>4. ASSUME c.k = "text", c.lvl = 0 PROVE Shallow(c)
    BY <1>4 DEF Shallow
  <1>5. ASSUME c.k = "{{", c.lvl = 0 PROVE Shallow(c)
    BY <1>5 DEF Shallow
  <1> QED
    BY <1>1, <1>2, <1>3, <1>4, <1>5

LEMMA ContainsRest ==
  ASSUME NEW s \in Seq(Strings), NEW m \in 0 .. Len(s), NEW x, Contains(Rest(s, m), x)
  PROVE  Contains(s, x)
  <1>1. /\ Len(Rest(s, m)) = Len(s) - m /\ Len(s) \in Nat
        /\ \A i \in 1 .. Len(s) - m : Rest(s, m)[i] = s[m + i] /\ m + i \in 1 .. Len(s)
    BY RestFacts
  <1> QED
    BY <1>1 DEF Contains

\* The text of the call at hand from the m-th word on.
LEMMA GoesOn ==
  ASSUME IInv, Calling({"text", "ltext"}), NEW m \in 0 .. Len(Cl.txt), NEW l \in Strings
  PROVE  LET t == [Cl EXCEPT !.txt = Rest(Cl.txt, m), !.el = l]
         IN /\ t \in CallToks(Here) /\ t.k = Cl.k /\ Mark(t) = <<"in", "">> /\ Mark(Cl) = <<"in", "">>
            /\ \A d \in CallToks(Here) : Before(Cl, d) => Before(t, d)
            /\ ~Substitutes => Shallow(t)
  <1> DEFINE t == [Cl EXCEPT !.txt = Rest(Cl.txt, m), !.el = l]
  <1>1. Cl \in CallToks(Here) /\ Cl.k \in {"text", "ltext"} /\ Cl.txt \in Seq(Strings)
        /\ (~Substitutes => Shallow(Cl))
    BY CallFacts
  <1>2. Rest(Cl.txt, m) \in Seq(Strings) /\ (Len(Cl.txt) <= 1 => Len(Rest(Cl.txt, m)) <= 1)
    BY <1>1, RestFacts
  <1>3. t.k = Cl.k /\ t.txt = Rest(Cl.txt, m) /\ t.lvl = Cl.lvl /\ t \in Tokens(Here)
    BY <1>1, <1>2 DEF CallToks, Tokens
  <1> HIDE DEF t
  <1>4. t \in CallToks(Here)
    BY <1>1, <1>3 DEF CallToks, Opener
  <1>5. Mark(t) = <<"in", "">> /\ Mark(Cl) = <<"in", "">>
    BY <1>1, <1>3 DEF Mark
  <1>6. ASSUME NEW d, Before(Cl, d) PROVE Before(t, d)
    <2>1. \A x : Contains(Rest(Cl.txt, m), x) => Contains(Cl.txt, x)
      BY <1>1, ContainsRest
    <2> QED
      BY <1>1, <1>3, <1>6, <2>1 DEF Before
  <1>7. ~Substitutes => Shallow(t)
    <2>1. \A x : Contains(Rest(Cl.txt, m), x) => Contains(Cl.txt, x)
      BY <1>1, ContainsRest
    <2> QED
      BY <1>1, <1>2, <1>3, <2>1 DEF Shallow
  <1> QED
    BY <1>3, <1>4, <1>5, <1>6, <1>7 DEF t

LEMMA ClosesFacts ==
  ASSUME NEW typ, NEW s \in Seq(Strings), s # <<>>, Closes(typ, s) # 0
  PROVE  LET n == Closes(typ, s)
         IN /\ n \in 3 .. Len(s) /\ s[1] \in Opener /\ (typ = "ltext" => s[1] \in LimitedText)
            /\ s[n] = Closer(s[1]) /\ \A j \in 3 .. n - 1 : s[j] # Closer(s[1])
  <1> DEFINE at == {j \in 3 .. Len(s) : s[j] = Closer(s[1])}
  <1>1. s[1] \in Opener /\ (typ = "ltext" => s[1] \in LimitedText) /\ at # {} /\ Closes(typ, s) = Min(at)
    BY DEF Closes
  <1>2. at \subseteq Nat
    OBVIOUS
  <1>3. Min(at) \in at /\ \A x \in at : Min(at) <= x
    BY <1>1, <1>2, MinFacts
  <1> DEFINE n == Min(at)
  <1>4. n \in 3 .. Len(s) /\ s[n] = Closer(s[1])
    BY <1>3
  <1>5. ASSUME NEW j \in 3 .. n - 1 PROVE s[j] # Closer(s[1])
    <2>1. j \in 3 .. Len(s) /\ j < n /\ j \in Nat /\ n \in Nat
      <3> HIDE DEF n
      <3>1. Len(s) \in Nat
        OBVIOUS
      <3> QED
        BY <1>4, <3>1
    <2> QED
      BY <1>3, <2>1
  <1> QED
    BY <1>1, <1>4, <1>5

\* What is in a bracket.
LEMMA BracketFacts ==
  ASSUME IInv, Calling({"text", "ltext"}), Cl.txt # <<>>, Closes(Cl.k, Cl.txt) # 0
  PROVE  LET s == Cl.txt
             n == Closes(Cl.k, s)
             t == [Text(s[1], SubSeq(s, 2, n - 1)) EXCEPT !.lvl = Cl.lvl]
         IN /\ n \in 0 .. Len(s) /\ s[n] \in Strings
            /\ t \in CallToks(Here) /\ t.k \in Opener
            /\ \A d \in CallToks(Here) : Before(Cl, d) => Before(t, d)
            /\ ~Substitutes => Shallow(t)
  <1> DEFINE s == Cl.txt
             n == Closes(Cl.k, s)
             b == SubSeq(s, 2, n - 1)
             u == Text(s[1], b)
             t == [u EXCEPT !.lvl = Cl.lvl]
  <1>1. Cl \in CallToks(Here) /\ Cl.k \in {"text", "ltext"} /\ s \in Seq(Strings)
        /\ Cl.lvl \in Nat /\ (~Substitutes => Shallow(Cl))
    BY CallFacts
  <1>2. /\ n \in 3 .. Len(s) /\ s[1] \in Opener /\ (Cl.k = "ltext" => s[1] \in LimitedText)
        /\ s[n] = Closer(s[1]) /\ \A j \in 3 .. n - 1 : s[j] # Closer(s[1])
    BY <1>1, ClosesFacts
  <1> HIDE DEF n, s
  <1>3. Len(s) \in Nat /\ n \in Nat /\ n \in 0 .. Len(s) /\ n \in 1 .. Len(s) /\ n - 1 \in 0 .. Len(s) /\ s[n] \in Strings
    BY <1>1, <1>2
  <1>m. n - 2 \in Nat /\ n - 2 # 0 /\ n >= 3 /\ n <= Len(s)
        /\ \A i \in 1 .. n - 2 : i + 1 \in 2 .. n - 1 /\ i + 1 \in 1 .. Len(s) /\ (i # 1 => i + 1 \in 3 .. n - 1)
    BY <1>2, <1>3
  <1>4. b \in Seq(Strings) /\ Len(b) = n - 2 /\ \A i \in 1 .. n - 2 : b[i] = s[i + 1]
    BY <1>1, <1>2, <1>3
  <1> HIDE DEF b
  <1>5. b # <<>>
    BY <1>m, <1>4, LenNone, Zenon
  <1>6. \A i \in 2 .. Len(b) : b[i] # Closer(s[1])
    <2> SUFFICES ASSUME NEW i \in 2 .. n - 2 PROVE b[i] # Closer(s[1])
      BY <1>4
    <2>1. i \in 1 .. n - 2 /\ i + 1 \in 3 .. n - 1
      BY <1>3
    <2> QED
      BY <1>2, <1>4, <2>1
  <1>c. s[1] = "{{" => Closer(s[1]) = "}}"
    BY DEF Closer
  <1>7. t \in Tokens(Here) /\ t.k = s[1] /\ t.txt = b /\ t.lvl = Cl.lvl
    <2>1. s[1] \in CallKinds
      BY <1>2 DEF CallKinds
    <2>2. u \in Tokens(Here) /\ u.k = s[1] /\ u.txt = b
      BY <1>4, <2>1, TextType
    <2> HIDE DEF u
    <2> QED
      BY <1>1, <2>2 DEF Tokens
  <1> HIDE DEF t
  <1>8. t \in CallToks(Here)
    BY <1>2, <1>5, <1>6, <1>c, <1>7 DEF CallToks, CallKinds, Opener
  <1>9. ASSUME NEW d, Before(Cl, d) PROVE Before(t, d)
    <2>1. ASSUME d.k = "endstyle", ~Substitutes PROVE t.k \in {"((", "quote", "[["} /\ (t.k = "[[" => ~Contains(t.txt, "}}"))
      <3>1. CASE Cl.k = "ltext"
        BY <1>2, <1>7, <3>1 DEF LimitedText
      <3>2. CASE Cl.k = "text"
        <4>1. ~Contains(s, "}}")
          BY <1>9, <2>1, <3>2 DEF Before, s
        <4>2. s[1] # "{{"
          <5> SUFFICES ASSUME s[1] = "{{" PROVE FALSE
            OBVIOUS
          <5>1. s[n] = "}}"
            BY <1>2 DEF Closer
          <5> QED
            BY <1>3, <4>1, <5>1 DEF Contains
        <4>3. ~Contains(b, "}}")
          <5> SUFFICES ASSUME NEW i \in 1 .. Len(b), b[i] = "}}" PROVE FALSE
            BY DEF Contains
          <5>1. i + 1 \in 1 .. Len(s) /\ s[i + 1] = "}}"
            <6>1. i \in 1 .. n - 2
              BY <1>4
            <6> QED
              BY <1>m, <1>4, <6>1
          <5> QED
            BY <4>1, <5>1 DEF Contains
        <4> QED
          BY <1>2, <1>7, <4>2, <4>3 DEF Opener
      <3> QED
        BY <1>1, <3>1, <3>2
    <2>2. d.k \in Links => t.k \in {"((", "quote"}
      <3>1. d.k \in Links => Cl.k = "ltext"
        BY <1>1, <1>9 DEF Before
      <3> QED
        BY <1>2, <1>7, <3>1 DEF LimitedText
    <2>3. t.k # "title"
      BY <1>2, <1>7 DEF Opener
    <2> QED
      BY <2>1, <2>2, <2>3 DEF Before
  <1>10. ~Substitutes => Shallow(t)
    <2> SUFFICES ASSUME ~Substitutes PROVE Shallow(t)
      OBVIOUS
    <2>1. CASE Cl.k = "ltext"
      <3>1. t.k \in {"((", "quote"}
        BY <1>2, <1>7, <2>1 DEF LimitedText
      <3> QED
        BY <3>1, ShallowFacts
    <2>2. CASE Cl.k = "text"
      <3>1. Cl.lvl = 0 \/ (Cl.lvl = 1 /\ ~Contains(s, "}}"))
        <4>1. ~(Len(s) <= 1)
          BY <1>3, <1>m
        <4> QED
          BY <1>1, <2>2, <4>1 DEF Shallow, s
      <3>2. s[1] = "{{" => Cl.lvl = 0
        <4> SUFFICES ASSUME s[1] = "{{" PROVE Contains(s, "}}")
          BY <3>1
        <4>1. s[n] = "}}" /\ n \in 1 .. Len(s)
          BY <1>2, <1>3, <1>c
        <4> QED
          BY <4>1 DEF Contains
      <3>3. s[1] = "((" \/ s[1] = "quote" \/ s[1] = "{{" \/ s[1] = "[["
        BY <1>2 DEF Opener
      <3>4. CASE s[1] \in {"((", "quote"}
        BY <1>7, <3>4, ShallowFacts
      <3>5. CASE s[1] = "{{"
        BY <1>7, <3>2, <3>5, ShallowFacts
      <3>6. CASE s[1] = "[["
        <4>1. t.k = "[[" /\ t.lvl \in {0, 1}
          BY <1>7, <3>1, <3>6
        <4> QED
          BY <4>1, ShallowFacts
      <3> QED
        BY <3>3, <3>4, <3>5, <3>6
    <2> QED
      BY <1>1, <2>1, <2>2
  <1> QED
    BY <1>2, <1>3, <1>7, <1>8, <1>9, <1>10 DEF t, u, b, n, s

LEMMA OneFacts ==
  ASSUME NEW A, NEW t \in A
  PROVE  <<t>> \in Seq(A) /\ DOMAIN <<t>> = {1} /\ <<t>>[1] = t /\ Len(<<t>>) = 1
  OBVIOUS

Two(t, u) == <<t, u>>
LEMMA TwoFacts ==
  ASSUME NEW A, NEW t \in A, NEW u \in A
  PROVE  Two(t, u) \in Seq(A) /\ DOMAIN Two(t, u) = {1, 2} /\ Two(t, u)[1] = t /\ Two(t, u)[2] = u
  BY DEF Two
LEMMA TwoCalls ==
  ASSUME NEW t, NEW u, t \in CallToks(Here), u \in CallToks(Here)
  PROVE  /\ Two(t, u) \in Seq(CallToks(Here)) /\ DOMAIN Two(t, u) = {1, 2}
         /\ Two(t, u)[1] = t /\ Two(t, u)[2] = u
  BY TwoFacts

LEMMA NumberFacts ==
  /\ \A i, j \in {1} : ~(j < i)
  /\ \A i, j \in {1, 2} : j < i => i = 2 /\ j = 1
  OBVIOUS

\* What DoesMore asks of one call, and of two.
Follows(t) ==
  /\ t \in CallToks(Here) /\ t.k \notin {"endstyle", "endlink"}
  /\ Mark(t)[1] = "t" \/ (Mark(t)[1] = "in" /\ Mark(Head(calls))[1] = "in")
  /\ \A d \in CallToks(Here) : Before(Head(calls), d) => Before(t, d)
  /\ ~Substitutes => Shallow(t)

\* The renderer, but for what is written.
Still(r) ==
  /\ r \in Rends /\ r.stack = rend.stack /\ r.styles = rend.styles /\ r.barrier = rend.barrier
  /\ \A i \in DOMAIN r.lits : Len(r.lits[i]) = 3
  /\ r.err \in {"", "ReturnNothing"}
LEMMA DoesOne ==
  ASSUME IInv, calls # <<>>, Head(calls).k \notin {"begin", "end", "title", "endstyle", "endlink"},
         NEW r, Still(r), NEW t, Follows(t), Does(r, <<t>>)
  PROVE  IInv'
  <1> DEFINE cs == <<t>>
  <1>1. cs \in Seq(CallToks(Here)) /\ DOMAIN cs = {1} /\ cs[1] = t
    BY OneFacts DEF Follows
  <1>2. Does(r, cs)
    OBVIOUS
  <1> HIDE DEF cs
  <1>3. \A i \in DOMAIN cs : /\ \/ Mark(cs[i])[1] = "t"
                                \/ Mark(cs[i])[1] = "in" /\ Mark(Head(calls))[1] = "in"
                             /\ cs[i].k \notin {"endstyle", "endlink"}
    BY <1>1 DEF Follows
  <1>4. \A i, j \in DOMAIN cs : j < i => Before(cs[j], cs[i])
    <2>1. \A i, j \in DOMAIN cs : ~(j < i)
      BY <1>1, NumberFacts, Zenon
    <2> QED
      BY <2>1
  <1>5. \A j \in DOMAIN cs, d \in CallToks(Here) : Before(Head(calls), d) => Before(cs[j], d)
    BY <1>1 DEF Follows
  <1>6. ~Substitutes => \A i \in DOMAIN cs : Shallow(cs[i])
    BY <1>1 DEF Follows
  <1> QED
    BY <1>1, <1>2, <1>3, <1>4, <1>5, <1>6, DoesMore DEF Still

LEMMA DoesTwo ==
  ASSUME IInv, calls # <<>>, Head(calls).k \notin {"begin", "end", "title", "endstyle", "endlink"},
         NEW r, Still(r), NEW t, Follows(t), NEW u, Follows(u), Before(t, u), Does(r, <<t, u>>)
  PROVE  IInv'
  <1> DEFINE cs == Two(t, u)
  <1>0. t \in CallToks(Here) /\ u \in CallToks(Here)
    BY DEF Follows
  <1>1. cs \in Seq(CallToks(Here)) /\ DOMAIN cs = {1, 2} /\ cs[1] = t /\ cs[2] = u
    BY <1>0, TwoCalls
  <1>2. Does(r, cs)
    BY DEF Two
  <1> HIDE DEF cs
  <1>3. \A i \in DOMAIN cs : /\ \/ Mark(cs[i])[1] = "t"
                                \/ Mark(cs[i])[1] = "in" /\ Mark(Head(calls))[1] = "in"
                             /\ cs[i].k \notin {"endstyle", "endlink"}
    BY <1>1 DEF Follows
  <1>4. \A i, j \in DOMAIN cs : j < i => Before(cs[j], cs[i])
    <2>1. \A i, j \in DOMAIN cs : j < i => i = 2 /\ j = 1
      BY <1>1, NumberFacts, Zenon
    <2> QED
      BY <1>1, <2>1
  <1>5. \A j \in DOMAIN cs, d \in CallToks(Here) : Before(Head(calls), d) => Before(cs[j], d)
    BY <1>1 DEF Follows
  <1>6. ~Substitutes => \A i \in DOMAIN cs : Shallow(cs[i])
    BY <1>1 DEF Follows
  <1> QED
    BY <1>1, <1>2, <1>3, <1>4, <1>5, <1>6, DoesMore DEF Still

LEMMA DoesFontOne ==
  ASSUME IInv, calls # <<>>, Head(calls).k \notin {"begin", "end", "title", "endstyle", "endlink"},
         NEW r, NEW e \in {"em", "strong", "code"}, FontStep(rend, r, e), rend.err = "",
         NEW t, Follows(t), Does(r, <<t>>)
  PROVE  IInv'
  <1> DEFINE cs == <<t>>
  <1>1. cs \in Seq(CallToks(Here)) /\ DOMAIN cs = {1} /\ cs[1] = t
    BY OneFacts DEF Follows
  <1>2. Does(r, cs)
    OBVIOUS
  <1> HIDE DEF cs
  <1>3. \A i \in DOMAIN cs : /\ \/ Mark(cs[i])[1] = "t"
                                \/ Mark(cs[i])[1] = "in" /\ Mark(Head(calls))[1] = "in"
                             /\ cs[i].k \notin {"endstyle", "endlink"}
    BY <1>1 DEF Follows
  <1>4. \A i, j \in DOMAIN cs : j < i => Before(cs[j], cs[i])
    <2>1. \A i, j \in DOMAIN cs : ~(j < i)
      BY <1>1, NumberFacts, Zenon
    <2> QED
      BY <2>1
  <1>5. \A j \in DOMAIN cs, d \in CallToks(Here) : Before(Head(calls), d) => Before(cs[j], d)
    BY <1>1 DEF Follows
  <1>6. ~Substitutes => \A i \in DOMAIN cs : Shallow(cs[i])
    BY <1>1 DEF Follows
  <1> QED
    BY <1>1, <1>2, <1>3, <1>4, <1>5, <1>6, DoesFont

\* One turn of the loop writes something, or meets a mark, and goes on after it;
\* or it has found a bracket.
TextStep(r, q, t) ==
  \/ q = r \/ (\E s \in Seq(Strings) : q = Plain(r, s)) \/ (\E w \in Strings : q = Put(r, w))
  \/ \E e \in {"em", "strong", "code"} : FontStep(r, q, e)
Bracket ==
  [Text(Cl.txt[1], SubSeq(Cl.txt, 2, Closes(Cl.k, Cl.txt) - 1)) EXCEPT !.lvl = Cl.lvl]
LEMMA HandleTextSteps ==
  ASSUME IInv, HandleText
  PROVE  /\ Calling({"text", "ltext"})
         /\ \/ Does(rend, <<>>)
            \/ \E t : Follows(t) /\ t.k = Cl.k /\ Before(Bracket, t) /\ Follows(Bracket)
                      /\ Bracket.k \in Opener /\ Does(rend, <<Bracket, t>>)
            \/ \E t, r : Follows(t) /\ t.k = Cl.k /\ TextStep(rend, r, t) /\ Does(r, <<t>>)
  <1> DEFINE s == Cl.txt
             n == Closes(Cl.k, s)
             Going(m, l) == [Cl EXCEPT !.txt = Rest(s, m), !.el = l]
  <1>1. /\ Calling({"text", "ltext"}) /\ Cl \in CallToks(Here) /\ Cl.k \in {"text", "ltext"} /\ s \in Seq(Strings)
        /\ rend \in Rends /\ Cl.el \in Strings /\ Cl = Head(calls)
    BY CallFacts DEF HandleText
  <1>2. ASSUME NEW m \in 0 .. Len(s), NEW l \in Strings
        PROVE  Follows(Going(m, l)) /\ Going(m, l).k = Cl.k
    <2>1. /\ Going(m, l) \in CallToks(Here) /\ Going(m, l).k = Cl.k
          /\ Mark(Going(m, l)) = <<"in", "">> /\ Mark(Cl) = <<"in", "">>
          /\ \A d \in CallToks(Here) : Before(Cl, d) => Before(Going(m, l), d)
          /\ ~Substitutes => Shallow(Going(m, l))
      BY <1>1, GoesOn
    <2> HIDE DEF Going
    <2>2. Mark(Going(m, l))[1] = "in" /\ Mark(Cl)[1] = "in"
      BY <2>1, StepStill
    <2> QED
      BY <1>1, <2>1, <2>2 DEF Follows
  <1>3. CASE s = <<>> /\ Does(rend, <<>>)
    BY <1>1, <1>3
  <1>4. CASE s # <<>> /\ n # 0 /\ Does(rend, <<[Text(s[1], SubSeq(s, 2, n - 1)) EXCEPT !.lvl = Cl.lvl], Going(n, s[n])>>)
    <2>1. /\ n \in 0 .. Len(s) /\ s[n] \in Strings
          /\ Bracket \in CallToks(Here) /\ Bracket.k \in Opener
          /\ \A d \in CallToks(Here) : Before(Cl, d) => Before(Bracket, d)
          /\ ~Substitutes => Shallow(Bracket)
      BY <1>1, <1>4, BracketFacts DEF Bracket
    <2>2. Follows(Going(n, s[n])) /\ Going(n, s[n]).k = Cl.k
      BY <1>2, <2>1
    <2>3. Follows(Bracket)
      <3>1. Mark(Cl) = <<"in", "">>
        BY <1>1 DEF Mark
      <3>2. Mark(Bracket) \in {<<"in", "">>, <<"t", "">>}
        BY <2>1 DEF Mark, Opener
      <3>3. Mark(Cl)[1] = "in" /\ Mark(Bracket)[1] \in {"in", "t"}
        <4> DEFINE m == Mark(Bracket)
        <4>1. m \in {<<"in", "">>, <<"t", "">>}
          BY <3>2
        <4> HIDE DEF m
        <4>2. m[1] \in {"in", "t"}
          BY <4>1, StepStill
        <4> QED
          BY <3>1, <4>2, StepStill DEF m
      <3>4. Bracket.k \notin {"endstyle", "endlink"}
        BY <2>1 DEF Opener
      <3> QED
        BY <1>1, <2>1, <3>3, <3>4 DEF Follows
    <2>4. Before(Bracket, Going(n, s[n]))
      <3> DEFINE t == Going(n, s[n])
      <3>1. t.k \in {"text", "ltext"}
        BY <1>1, <2>2
      <3> HIDE DEF t
      <3>2. Before(Bracket, t)
        BY <2>1, <3>1 DEF Before, Links, Opener
      <3> QED
        BY <3>2 DEF t
    <2>5. Does(rend, <<Bracket, Going(n, s[n])>>)
      BY <1>4 DEF Bracket
    <2>6. Bracket.k \in Opener
      BY <2>1
    <2> HIDE DEF Going
    <2> QED
      BY <1>1, <2>2, <2>3, <2>4, <2>5, <2>6
  <1>5. CASE s # <<>> /\ s[1] \notin Marks /\ Does(Put(rend, s[1]), <<Going(1, s[1])>>)
    <2>1. 1 \in 0 .. Len(s) /\ s[1] \in Strings
      BY <1>1, <1>5
    <2>2. Follows(Going(1, s[1])) /\ Going(1, s[1]).k = Cl.k
      BY <1>2, <2>1
    <2> HIDE DEF Going
    <2>3. TextStep(rend, Put(rend, s[1]), Going(1, s[1]))
      BY <2>1 DEF TextStep
    <2> QED
      BY <1>1, <1>5, <2>2, <2>3
  <1>6. CASE s # <<>> /\ FindStopword(rend, s) /\ Does(Plain(rend, SubSeq(s, 1, 2)), <<Going(2, Cl.el)>>)
    <2>1. 2 \in 0 .. Len(s) /\ SubSeq(s, 1, 2) \in Seq(Strings)
      <3>1. Len(s) > 1 /\ Len(s) \in Nat
        BY <1>1, <1>6 DEF FindStopword
      <3> HIDE DEF s
      <3>2. 2 \in 0 .. Len(s)
        BY <3>1
      <3> QED
        BY <1>1, <3>2, RestFacts
    <2>2. Follows(Going(2, Cl.el)) /\ Going(2, Cl.el).k = Cl.k
      BY <1>1, <1>2, <2>1
    <2> HIDE DEF Going
    <2>3. TextStep(rend, Plain(rend, SubSeq(s, 1, 2)), Going(2, Cl.el))
      BY <2>1 DEF TextStep
    <2> QED
      BY <1>1, <1>6, <2>2, <2>3
  <1>7. CASE s # <<>> /\ s[1] \in Marks /\ Does(InlineFont(rend, s[1], Tail(s), Cl.el), <<Going(1, s[1])>>)
    <2>1. 1 \in 0 .. Len(s) /\ s[1] \in Strings
      BY <1>1, <1>7
    <2>2. Follows(Going(1, s[1])) /\ Going(1, s[1]).k = Cl.k
      BY <1>2, <2>1
    <2> HIDE DEF Going
    <2>3. \E e \in {"em", "strong", "code"} : FontStep(rend, InlineFont(rend, s[1], Tail(s), Cl.el), e)
      BY <1>1, <1>7, InlineFontFacts
    <2>4. TextStep(rend, InlineFont(rend, s[1], Tail(s), Cl.el), Going(1, s[1]))
      BY <2>3 DEF TextStep
    <2> QED
      BY <1>1, <1>7, <2>2, <2>4
  <1>8. \/ s = <<>> /\ Does(rend, <<>>)
        \/ s # <<>> /\ n # 0 /\ Does(rend, <<[Text(s[1], SubSeq(s, 2, n - 1)) EXCEPT !.lvl = Cl.lvl], Going(n, s[n])>>)
        \/ s # <<>> /\ s[1] \notin Marks /\ Does(Put(rend, s[1]), <<Going(1, s[1])>>)
        \/ s # <<>> /\ FindStopword(rend, s) /\ Does(Plain(rend, SubSeq(s, 1, 2)), <<Going(2, Cl.el)>>)
        \/ s # <<>> /\ s[1] \in Marks /\ Does(InlineFont(rend, s[1], Tail(s), Cl.el), <<Going(1, s[1])>>)
    BY Zenon DEF HandleText
  <1> QED
    BY <1>3, <1>4, <1>5, <1>6, <1>7, <1>8, Zenon

LEMMA HandleTextKeeps == ASSUME IInv, HandleText PROVE IInv'
  <1>1. /\ Calling({"text", "ltext"})
        /\ \/ Does(rend, <<>>)
           \/ \E t : Follows(t) /\ t.k = Cl.k /\ Before(Bracket, t) /\ Follows(Bracket)
                     /\ Does(rend, <<Bracket, t>>)
           \/ \E t, r : Follows(t) /\ t.k = Cl.k /\ TextStep(rend, r, t) /\ Does(r, <<t>>)
    BY HandleTextSteps
  <1>2. /\ calls # <<>> /\ Head(calls).k \in {"text", "ltext"}
        /\ rend \in Rends /\ rend.err = "" /\ \A i \in DOMAIN rend.lits : Len(rend.lits[i]) = 3
    BY <1>1, CallFacts DEF Cl
  <1>3. CASE Does(rend, <<>>)
    BY <1>2, <1>3, DoesWrite
  <1>4. ASSUME NEW t, Follows(t), Before(Bracket, t), Follows(Bracket), Does(rend, <<Bracket, t>>)
        PROVE  IInv'
    BY <1>2, <1>4, DoesTwo DEF Still
  <1>5. ASSUME NEW t, NEW r, Follows(t), TextStep(rend, r, t), Does(r, <<t>>)
        PROVE  IInv'
    <2>1. CASE r = rend
      BY <1>2, <1>5, <2>1, DoesOne DEF Still
    <2>2. CASE \E s \in Seq(Strings) : r = Plain(rend, s)
      <3>1. r \in Rends /\ Alike(r, rend)
        BY <1>2, <2>2, PlainFacts
      <3> QED
        BY <1>2, <1>5, <3>1, DoesOne DEF Alike, Still
    <2>3. CASE \E w \in Strings : r = Put(rend, w)
      <3>1. r \in Rends /\ Alike(r, rend)
        BY <1>2, <2>3, PutFacts
      <3> QED
        BY <1>2, <1>5, <3>1, DoesOne DEF Alike, Still
    <2>4. CASE \E e \in {"em", "strong", "code"} : FontStep(rend, r, e)
      BY <1>2, <1>5, <2>4, DoesFontOne
    <2> QED
      BY <1>5, <2>1, <2>2, <2>3, <2>4, Zenon DEF TextStep
  <1> QED
    BY <1>1, <1>3, <1>4, <1>5, Zenon

-----------------------------------------------------------------------------
(* Beginnings, ends and blocks.                                            *)

LEMMA EndsFacts ==
  ASSUME NEW s \in Seq(Strings)
  PROVE  /\ Ends(s) \in Seq(Html) /\ Len(Ends(s)) = Len(s)
         /\ \A i \in 1 .. Len(s) : Ends(s)[i] = <<"-", s[i]>>
  <1>1. Len(s) \in Nat /\ DOMAIN s = 1 .. Len(s) /\ \A i \in 1 .. Len(s) : s[i] \in Strings
    OBVIOUS
  <1>2. \A i \in 1 .. Len(s) : <<"-", s[i]>> \in Html
    BY <1>1 DEF Html
  <1>3. Ends(s) = [i \in 1 .. Len(s) |-> <<"-", s[i]>>]
    BY <1>1 DEF Ends
  <1> QED
    BY <1>1, <1>2, <1>3

LEMMA StylesType ==
  ASSUME NEW r \in Rends
  PROVE  /\ r.styles \in Seq(Strings) /\ r.styles \in Seq(Fonts) /\ r.stack \in Seq(Elements) /\ r.stack \in Stacks
         /\ r.res \in Seq(Html) /\ r.barrier \in Seq(Seq(Fonts)) /\ r.floor \in Nat
  <1>1. r.styles \in Seq(Fonts) /\ r.stack \in Seq(Elements) /\ r.res \in Seq(Html)
        /\ r.barrier \in Seq(Seq(Fonts)) /\ r.floor \in Nat
    BY DEF Rends
  <1>2. r.styles \in Seq(Strings) /\ r.stack \in Seq(Strings)
    BY <1>1, Plainly, SeqMonotonic
  <1> QED
    BY <1>1, <1>2 DEF Stacks

LEMMA CloseStylesFacts ==
  ASSUME NEW r \in Rends
  PROVE  LET c == CloseStyles(r)
         IN /\ c \in Rends /\ c.res = r.res \o Ends(r.styles) /\ c.styles = <<>>
            /\ c.stack = r.stack /\ c.barrier = r.barrier /\ c.lits = r.lits /\ c.err = r.err
            /\ c.floor = r.floor /\ c.leak = r.leak /\ c.blocks = r.blocks /\ c.title = r.title
            /\ c.mode = r.mode
  <1>1. Ends(r.styles) \in Seq(Html) /\ r.res \in Seq(Html)
    BY EndsFacts, StylesType
  <1>2. r.res \o Ends(r.styles) \in Seq(Html)
    BY <1>1
  <1> DEFINE h == r.res \o Ends(r.styles)
  <1>3. CloseStyles(r) = [r EXCEPT !.res = h, !.styles = <<>>]
    BY DEF CloseStyles
  <1>4. h \in Seq(Html)
    BY <1>2
  <1> HIDE DEF h
  <1>5. <<>> \in Seq(Fonts)
    BY NoneFacts
  <1> QED
    BY <1>3, <1>4, <1>5 DEF Rends, h

LEMMA FrontType ==
  ASSUME NEW S, NEW s \in Seq(S)
  PROVE  Front(s) \in Seq(S) /\ (s # <<>> => s = Append(Front(s), Last(s)) /\ Len(Front(s)) = Len(s) - 1 /\ Last(s) \in S)
  <1>1. CASE s = <<>>
    <2>1. Len(s) = 0
      BY <1>1, LenNone
    <2>2. Front(s) = <<>>
      <3>1. Front(s) = SubSeq(s, 1, 0 - 1)
        BY <2>1 DEF Front
      <3> QED
        BY <1>1, <3>1
    <2> QED
      BY <1>1, <2>2, NoneFacts
  <1>2. CASE s # <<>>
    <2>1. Len(s) \in Nat /\ Len(s) >= 1 /\ DOMAIN s = 1 .. Len(s) /\ \A i \in 1 .. Len(s) : s[i] \in S
      BY <1>2, HeadAndTail
    <2>2. Len(s) - 1 \in 0 .. Len(s)
      BY <2>1
    <2>3. /\ SubSeq(s, 1, Len(s) - 1) \in Seq(S) /\ Len(SubSeq(s, 1, Len(s) - 1)) = Len(s) - 1
          /\ \A i \in 1 .. Len(s) - 1 : SubSeq(s, 1, Len(s) - 1)[i] = s[i]
      BY <2>2, RestFacts
    <2> DEFINE f == Front(s)
               l == Last(s)
    <2>4. f \in Seq(S) /\ Len(f) = Len(s) - 1 /\ \A i \in 1 .. Len(s) - 1 : f[i] = s[i]
      BY <2>3 DEF Front
    <2>5. l = s[Len(s)] /\ l \in S
      BY <2>1 DEF Last
    <2> HIDE DEF f, l
    <2>6. Append(f, l) \in Seq(S) /\ Len(Append(f, l)) = Len(s)
      <3>1. f \in Seq(S) /\ l \in S
        BY <2>4, <2>5
      <3>2. Append(f, l) \in Seq(S) /\ Len(Append(f, l)) = Len(f) + 1
        BY <3>1
      <3> QED
        BY <2>1, <2>4, <3>2
    <2>7. \A i \in 1 .. Len(s) : Append(f, l)[i] = s[i]
      BY <2>1, <2>4, <2>5
    <2>8. s = Append(f, l)
      BY <2>6, <2>7, SeqEqual
    <2> QED
      BY <2>4, <2>5, <2>8 DEF f, l
  <1> QED
    BY <1>1, <1>2

LEMMA AddBlockFacts ==
  ASSUME NEW r \in Rends, NEW what \in Whats
  PROVE  LET b == AddBlock(r, what)
         IN /\ b \in Rends /\ b.res = <<>> /\ b.blocks = Append(r.blocks, [what |-> what, html |-> r.res])
            /\ b.stack = r.stack /\ b.styles = r.styles /\ b.barrier = r.barrier /\ b.lits = r.lits
            /\ b.err = r.err /\ b.floor = r.floor /\ b.leak = r.leak /\ b.title = r.title /\ b.mode = r.mode
  <1> DEFINE bs == Append(r.blocks, [what |-> what, html |-> r.res])
  <1>1. r.blocks \in Seq([what : Whats, html : Seq(Html)]) /\ r.res \in Seq(Html)
    BY DEF Rends
  <1>2. bs \in Seq([what : Whats, html : Seq(Html)])
    BY <1>1
  <1>3. AddBlock(r, what) = [r EXCEPT !.blocks = bs, !.res = <<>>]
    BY DEF AddBlock
  <1> HIDE DEF bs
  <1>4. <<>> \in Seq(Html)
    BY NoneFacts
  <1> QED
    BY <1>2, <1>3, <1>4 DEF Rends, bs

\* r as it is, with a block pushed or not.
Blocked(b, r, what) ==
  \/ b \in Rends /\ Alike(b, r) /\ b.res = r.res
  \/ b = AddBlock(r, what)
LEMMA PushFacts ==
  ASSUME NEW r \in Rends, NEW what
  PROVE  /\ Blocked(PushBlock(r, what), r, what) /\ Blocked(PushBlank(r), r, "blank")
         /\ Blocked(ForceBlock(r, what), r, what)
  <1>1. [r EXCEPT !.pushing = FALSE] \in Rends /\ Alike([r EXCEPT !.pushing = FALSE], r)
        /\ [r EXCEPT !.pushing = FALSE].res = r.res
    BY DEF Rends, Alike
  <1>2. r \in Rends /\ Alike(r, r)
    BY AlikeFacts
  <1> QED
    BY <1>1, <1>2 DEF PushBlock, PushBlank, ForceBlock, Blocked

LEMMA BlockedFacts ==
  ASSUME NEW r \in Rends, NEW what \in Whats, NEW b, Blocked(b, r, what)
  PROVE  /\ b \in Rends
         /\ b.stack = r.stack /\ b.styles = r.styles /\ b.barrier = r.barrier /\ b.lits = r.lits
         /\ b.err = r.err /\ b.floor = r.floor /\ b.leak = r.leak /\ b.title = r.title /\ b.mode = r.mode
         /\ \/ b.res = r.res /\ b.blocks = r.blocks
            \/ b.res = <<>> /\ b.blocks = Append(r.blocks, [what |-> what, html |-> r.res])
  BY AddBlockFacts DEF Blocked, Alike
LEMMA BlockedSame ==
  ASSUME NEW r \in Rends, NEW what \in Whats, NEW b, Blocked(b, r, what)
  PROVE  /\ b \in Rends
         /\ b.stack = r.stack /\ b.styles = r.styles /\ b.barrier = r.barrier /\ b.lits = r.lits
         /\ b.err = r.err /\ b.floor = r.floor /\ b.leak = r.leak /\ b.title = r.title /\ b.mode = r.mode
  <1>1. CASE b \in Rends /\ Alike(b, r)
    BY <1>1 DEF Alike
  <1>2. CASE b = AddBlock(r, what)
    BY <1>2, AddBlockFacts
  <1> QED
    BY <1>1, <1>2 DEF Blocked

LEMMA HandleBeginFacts ==
  ASSUME NEW r \in Rends, NEW e \in Elements
  PROVE  LET b == HandleBegin(r, e)
         IN /\ b \in Rends /\ b.res = Append(r.res, <<"+", e>>) /\ b.stack = <<e>> \o r.stack
            /\ b.styles = r.styles /\ b.barrier = r.barrier /\ b.lits = r.lits /\ b.err = r.err
            /\ b.floor = r.floor /\ b.leak = (r.leak \/ r.styles # <<>>)
            /\ b.blocks = r.blocks /\ b.title = r.title /\ b.mode = r.mode
  <1>1. e \in Strings
    BY Plainly
  <1> DEFINE o == Open(r, e)
             st == <<e>> \o r.stack
  <1>2. o \in Rends /\ Alike(o, r) /\ o.res = Append(r.res, <<"+", e>>)
    BY <1>1, PutFacts
  <1>3. st \in Seq(Elements)
    BY StylesType, ConsFacts
  <1>4. HandleBegin(r, e) = [o EXCEPT !.spos = IF r.stack = <<>> THEN Len(r.res) ELSE @, !.stack = st,
                                      !.leak = @ \/ r.styles # <<>>]
    <2>1. o.stack = r.stack
      BY <1>2 DEF Alike
    <2> QED
      BY <2>1 DEF HandleBegin
  <1>5. Len(r.res) \in Nat
    BY StylesType
  <1> HIDE DEF o, st
  <1>6. o.leak = r.leak /\ o.leak \in BOOLEAN
    BY <1>2 DEF Alike, Rends
  <1> DEFINE l == (o.leak \/ r.styles # <<>>)
             n == IF r.stack = <<>> THEN Len(r.res) ELSE o.spos
  <1>7. l \in BOOLEAN /\ n \in Nat
    BY <1>2, <1>5 DEF Rends
  <1>8. HandleBegin(r, e) = [o EXCEPT !.spos = n, !.stack = st, !.leak = l]
    BY <1>4
  <1>9. l = (r.leak \/ r.styles # <<>>)
    BY <1>6
  <1> HIDE DEF l, n
  <1>10. [o EXCEPT !.spos = n, !.stack = st, !.leak = l] \in Rends
    BY <1>2, <1>3, <1>7 DEF Rends
  <1>11. LET b == [o EXCEPT !.spos = n, !.stack = st, !.leak = l]
         IN /\ b.stack = st /\ b.leak = l /\ b.res = o.res
            /\ b.styles = o.styles /\ b.barrier = o.barrier /\ b.lits = o.lits /\ b.err = o.err
            /\ b.floor = o.floor /\ b.blocks = o.blocks /\ b.title = o.title /\ b.mode = o.mode
    BY <1>2 DEF Rends
  <1> QED
    BY <1>2, <1>8, <1>9, <1>10, <1>11 DEF Alike, st

LEMMA HandleEndFacts ==
  ASSUME NEW r \in Rends, NEW e \in Elements, NEW what \in Whats, r.stack # <<>>, Head(r.stack) = e
  PROVE  LET u == HandleEndAs(r, e, what)
             h == r.res \o Ends(r.styles)
         IN /\ u \in Rends /\ u.stack = Tail(r.stack) /\ u.styles = <<>>
            /\ u.barrier = r.barrier /\ u.lits = r.lits /\ u.err = r.err
            /\ u.floor = r.floor /\ u.leak = r.leak /\ u.title = r.title /\ u.mode = r.mode
            /\ h \in Seq(Html)
            /\ \/ u.res = Front(h) /\ Last(h) = <<"+", e>> /\ u.blocks = r.blocks /\ e \in {"p", "blockquote"}
               \/ u.res = Append(h, <<"-", e>>) /\ u.blocks = r.blocks
               \/ /\ u.res = <<>> /\ Tail(r.stack) = <<>>
                  /\ u.blocks = Append(r.blocks, [what |-> what, html |-> Append(h, <<"-", e>>)])
  <1> DEFINE h == r.res \o Ends(r.styles)
             d == CloseStyles(r)
             c == [d EXCEPT !.stack = Tail(@)]
  <1>1. e \in Strings
    BY Plainly
  <1>2. /\ d \in Rends /\ d.res = h /\ d.styles = <<>>
        /\ d.stack = r.stack /\ d.barrier = r.barrier /\ d.lits = r.lits /\ d.err = r.err
        /\ d.floor = r.floor /\ d.leak = r.leak /\ d.blocks = r.blocks /\ d.title = r.title /\ d.mode = r.mode
    BY CloseStylesFacts
  <1>3. r.stack[1] = e /\ Tail(r.stack) \in Seq(Elements)
    BY StylesType, HeadAndTail
  <1>4. HandleEndAs(r, e, what) =
          (IF Last(c.res) = <<"+", e>> /\ e \in {"p", "blockquote"} THEN [c EXCEPT !.res = Front(@)]
           ELSE IF c.stack = <<>> THEN PushBlock(Close(c, e), what) ELSE Close(c, e))
    BY <1>3 DEF HandleEndAs
  <1> HIDE DEF d, h
  <1>5. /\ c \in Rends /\ c.res = h /\ c.styles = <<>> /\ c.stack = Tail(r.stack)
        /\ c.barrier = r.barrier /\ c.lits = r.lits /\ c.err = r.err
        /\ c.floor = r.floor /\ c.leak = r.leak /\ c.blocks = r.blocks /\ c.title = r.title /\ c.mode = r.mode
    BY <1>2, <1>3 DEF Rends
  <1> HIDE DEF c
  <1>6. h \in Seq(Html)
    BY <1>5, StylesType
  <1>7. CASE Last(c.res) = <<"+", e>> /\ e \in {"p", "blockquote"}
    <2>1. Front(h) \in Seq(Html)
      BY <1>6, FrontType
    <2>2. HandleEndAs(r, e, what) = [c EXCEPT !.res = Front(h)]
      BY <1>4, <1>5, <1>7
    <2> DEFINE f == Front(h)
    <2>3. f \in Seq(Html) /\ HandleEndAs(r, e, what) = [c EXCEPT !.res = f]
      BY <2>1, <2>2
    <2> HIDE DEF f
    <2>4. LET u == [c EXCEPT !.res = f] IN u \in Rends /\ Alike(u, c) /\ u.res = f
      BY <1>5, <2>3, ResFacts
    <2> QED
      BY <1>5, <1>6, <1>7, <2>3, <2>4 DEF Alike, h, f
  <1>8. CASE ~(Last(c.res) = <<"+", e>> /\ e \in {"p", "blockquote"})
    <2> DEFINE k == Close(c, e)
               u == HandleEndAs(r, e, what)
    <2>1. k \in Rends /\ Alike(k, c) /\ k.res = Append(h, <<"-", e>>)
      BY <1>1, <1>5, PutFacts
    <2>2. u = IF c.stack = <<>> THEN PushBlock(k, what) ELSE k
      BY <1>4, <1>8
    <2> HIDE DEF k, u
    <2>3. Blocked(PushBlock(k, what), k, what)
      BY <2>1, PushFacts
    <2>4. CASE c.stack = <<>>
      <3>1. Blocked(u, k, what)
        BY <2>2, <2>3, <2>4
      <3>2. /\ u \in Rends
            /\ u.stack = k.stack /\ u.styles = k.styles /\ u.barrier = k.barrier /\ u.lits = k.lits
            /\ u.err = k.err /\ u.floor = k.floor /\ u.leak = k.leak /\ u.title = k.title /\ u.mode = k.mode
            /\ \/ u.res = k.res /\ u.blocks = k.blocks
               \/ u.res = <<>> /\ u.blocks = Append(k.blocks, [what |-> what, html |-> k.res])
        BY <2>1, <3>1, BlockedFacts
      <3> QED
        BY <1>5, <1>6, <2>1, <2>4, <3>2 DEF Alike, h, u
    <2>5. CASE c.stack # <<>>
      <3>1. u = k
        BY <2>2, <2>5
      <3> QED
        BY <1>5, <1>6, <2>1, <3>1 DEF Alike, h, u
    <2> QED
      BY <2>4, <2>5
  <1> QED
    BY <1>7, <1>8

LEMMA ContainsNone == \A x : ~Contains(<<>>, x)
  BY LenNone DEF Contains

LEMMA DoesShift ==
  ASSUME IInv, calls # <<>>, Head(calls).k \notin {"endstyle", "endlink"},
         NEW r \in Rends, r.barrier = rend.barrier, \A i \in DOMAIN r.lits : Len(r.lits[i]) = 3,
         r.err \in {"", "ReturnNothing"}, Does(r, <<>>),
         Step(rend.stack, Mark(Head(calls)), r.stack),
         ~Substitutes => r.styles = rend.styles \/ (r.styles = <<>> /\ ~Has(Tail(calls), "endstyle"))
  PROVE  IInv'
  <1> DEFINE cs == <<>>
  <1>1. cs \in Seq(CallToks(Here)) /\ DOMAIN cs = {} /\ \A k : ~Has(cs, k)
    BY NoneFacts
  <1>2. Does(r, cs) /\ Goes(r.stack, cs, r.stack) /\ r.stack \in Stacks
    BY StylesType, GoesNone
  <1> HIDE DEF cs
  <1>3. TypeOK' /\ SubsOK' /\ HeaderOK' /\ DepthOK' /\ FailsAsKnown' /\ Substitutes' = Substitutes
    BY <1>1, <1>2, DoesRest
  <1>4. StackOK'
    BY <1>1, <1>2, DoesStack DEF IInv
  <1>5. CallsOK'
    BY <1>1, <1>2, DoesCalls DEF IInv
  <1>6. StylesOK'
    <2>1. CASE r.styles = rend.styles
      BY <1>1, <1>2, <2>1, DoesStyles DEF IInv
    <2>2. CASE r.styles = <<>> /\ ~Has(Tail(calls), "endstyle")
      <3>1. /\ Pending("endstyle")' <=> Has(cs, "endstyle") \/ Has(Tail(calls), "endstyle")
            /\ Pending("endstyle") <=> Head(calls).k = "endstyle" \/ Has(Tail(calls), "endstyle")
        BY <1>1, <1>2, DoesPending DEF IInv
      <3>2. /\ Pending("endlink")' <=> Has(cs, "endlink") \/ Has(Tail(calls), "endlink")
            /\ Pending("endlink") <=> Head(calls).k = "endlink" \/ Has(Tail(calls), "endlink")
        BY <1>1, <1>2, DoesPending DEF IInv
      <3>3. ~Pending("endstyle")' /\ ~Pending("endstyle") /\ (Pending("endlink")' <=> Pending("endlink"))
        BY <1>1, <2>2, <3>1, <3>2
      <3>4. rend' = r
        BY DEF Does
      <3>5. DOMAIN rend'.styles = {} /\ ~Contains(rend'.styles, "big")
        <4>1. rend'.styles = <<>>
          BY <2>2, <3>4
        <4>2. DOMAIN <<>> = {} /\ ~Contains(<<>>, "big")
          BY ContainsNone, NoneFacts
        <4> QED
          BY <4>1, <4>2
      <3>6. rend'.barrier = rend.barrier
        BY <3>4
      <3> QED
        BY <1>3, <3>3, <3>5, <3>6 DEF StylesOK, StylesHold, IInv
    <2>3. CASE Substitutes
      BY <1>3, <2>3 DEF StylesOK
    <2> QED
      BY <2>1, <2>2, <2>3
  <1> QED
    BY <1>3, <1>4, <1>5, <1>6 DEF IInv

LEMMA BeginsKeeps == ASSUME IInv, Begins PROVE IInv'
  <1>1. /\ Calling({"begin"}) /\ calls # <<>> /\ Cl \in CallToks(Here) /\ Cl = Head(calls) /\ Cl.k \in {"begin"}
        /\ rend \in Rends /\ rend.err = "" /\ \A i \in DOMAIN rend.lits : Len(rend.lits[i]) = 3
    BY CallFacts DEF Begins
  <1>2. Cl.k = "begin" /\ Cl.el \in Elements /\ Mark(Cl) = <<"+", Cl.el>>
    BY <1>1 DEF CallToks, Mark
  <1> DEFINE r == HandleBegin(rend, Cl.el)
  <1>3. Does(r, <<>>)
    BY DEF Begins
  <1>4. /\ r \in Rends /\ r.stack = <<Cl.el>> \o rend.stack
        /\ r.styles = rend.styles /\ r.barrier = rend.barrier /\ r.lits = rend.lits /\ r.err = rend.err
    BY <1>1, <1>2, HandleBeginFacts
  <1> HIDE DEF r
  <1>5. Step(rend.stack, Mark(Head(calls)), r.stack)
    BY <1>1, <1>2, <1>4, StylesType, StepBegin
  <1>6. Head(calls).k \notin {"endstyle", "endlink"}
    BY <1>1, <1>2
  <1> QED
    BY <1>1, <1>3, <1>4, <1>5, <1>6, DoesShift

\* What the call at hand finds open.
LEMMA CallStep ==
  ASSUME TypeOK, StackOK, calls # <<>>
  PROVE  \E c \in Stacks : Step(rend.stack, Mark(Head(calls)), c)
  <1> DEFINE q == calls \o queue
  <1>1. q \in Seq(Tokens(Here)) /\ calls \in Seq(Tokens(Here)) /\ queue \in Seq(Tokens(Here))
    BY HereFacts
  <1>2. q # <<>> /\ Head(q) = Head(calls)
    BY <1>1
  <1>3. Goes(rend.stack, q, <<>>)
    BY DEF StackOK, Goes
  <1> HIDE DEF q
  <1>4. \E c \in Stacks : Step(rend.stack, Mark(Head(q)), c)
    BY <1>1, <1>2, <1>3, GoesFirst
  <1> QED
    BY <1>2, <1>4

LEMMA MinusStep ==
  ASSUME NEW a, NEW e, NEW c, Step(a, <<"-", e>>, c)
  PROVE  a # <<>> /\ Head(a) = e /\ c = Tail(a)
  BY DEF Step

LEMMA EndsShift ==
  ASSUME IInv, calls # <<>>, Head(calls).k \in {"end", "title"}, rend.err = "",
         NEW e \in Elements, Mark(Head(calls)) = <<"-", e>>,
         NEW what \in Whats
  PROVE  /\ rend.stack # <<>> /\ Head(rend.stack) = e
         /\ ~Substitutes => ~Has(Tail(calls), "endstyle")
         /\ LET u == HandleEndAs(rend, e, what)
            IN /\ u \in Rends /\ Step(rend.stack, Mark(Head(calls)), u.stack) /\ u.styles = <<>>
               /\ u.barrier = rend.barrier /\ u.lits = rend.lits /\ u.err = rend.err
  <1>1. PICK c \in Stacks : Step(rend.stack, Mark(Head(calls)), c)
    BY CallStep DEF IInv
  <1>2. rend.stack # <<>> /\ Head(rend.stack) = e /\ c = Tail(rend.stack)
    BY <1>1, MinusStep
  <1>3. ~Substitutes => ~Has(Tail(calls), "endstyle")
    <2>1. SUFFICES ASSUME ~Substitutes, Has(Tail(calls), "endstyle") PROVE FALSE
      OBVIOUS
    <2>2. PICK d \in CallToks(Here) : d.k = "endstyle" /\ Before(Head(calls), d)
      BY <2>1, BeforeTail DEF IInv
    <2> QED
      BY <2>1, <2>2 DEF Before
  <1>4. rend \in Rends
    BY DEF IInv, TypeOK
  <1> DEFINE u == HandleEndAs(rend, e, what)
  <1>5. /\ u \in Rends /\ u.stack = Tail(rend.stack) /\ u.styles = <<>>
        /\ u.barrier = rend.barrier /\ u.lits = rend.lits /\ u.err = rend.err
    BY <1>2, <1>4, HandleEndFacts
  <1> HIDE DEF u
  <1> QED
    BY <1>1, <1>2, <1>3, <1>5 DEF u

LEMMA EndsItKeeps == ASSUME IInv, EndsIt PROVE IInv'
  <1>1. /\ Calling({"end"}) /\ calls # <<>> /\ Cl \in CallToks(Here) /\ Cl = Head(calls) /\ Cl.k \in {"end"}
        /\ rend \in Rends /\ rend.err = "" /\ \A i \in DOMAIN rend.lits : Len(rend.lits[i]) = 3
    BY CallFacts DEF EndsIt
  <1>2. Cl.k = "end" /\ Cl.el \in Elements /\ Mark(Cl) = <<"-", Cl.el>> /\ Cl.el \in Whats
    BY <1>1 DEF CallToks, Mark, Whats
  <1> DEFINE r == HandleEndAs(rend, Cl.el, Cl.el)
  <1>3. Does(r, <<>>)
    BY DEF EndsIt, HandleEnd
  <1>4. /\ r \in Rends /\ Step(rend.stack, Mark(Head(calls)), r.stack) /\ r.styles = <<>>
        /\ r.barrier = rend.barrier /\ r.lits = rend.lits /\ r.err = rend.err
        /\ ~Substitutes => ~Has(Tail(calls), "endstyle")
    BY <1>1, <1>2, EndsShift
  <1> HIDE DEF r
  <1>5. Head(calls).k \notin {"endstyle", "endlink"}
    BY <1>1, <1>2
  <1> QED
    BY <1>1, <1>3, <1>4, <1>5, DoesShift

LEMMA RestType ==
  ASSUME NEW S, NEW s \in Seq(S)
  PROVE  Rest(s, 1) \in Seq(S)
  <1>1. CASE s = <<>>
    <2>1. Len(s) = 0
      BY <1>1, LenNone
    <2>2. Rest(s, 1) = SubSeq(s, 2, 0)
      BY <2>1 DEF Rest
    <2>3. SubSeq(s, 2, 0) = <<>>
      BY <1>1
    <2> QED
      BY <2>2, <2>3, NoneFacts
  <1>2. CASE s # <<>>
    <2>1. 1 \in 0 .. Len(s)
      BY <1>2, HeadAndTail
    <2> QED
      BY <2>1, RestFacts
  <1> QED
    BY <1>1, <1>2

LEMMA EndsTitleKeeps == ASSUME IInv, EndsTitle PROVE IInv'
  <1>1. /\ Calling({"title"}) /\ calls # <<>> /\ Cl \in CallToks(Here) /\ Cl = Head(calls) /\ Cl.k \in {"title"}
        /\ rend \in Rends /\ rend.err = "" /\ \A i \in DOMAIN rend.lits : Len(rend.lits[i]) = 3
    BY CallFacts DEF EndsTitle
  <1>2. Cl.k = "title" /\ Mark(Cl) = <<"-", "h">> /\ "h" \in Elements /\ "title" \in Whats
    BY <1>1 DEF Mark, Whats, Elements
  <1> DEFINE u == HandleEndAs(rend, "h", "title")
             t == Rest(CloseStyles(rend).res, 1)
             r == [u EXCEPT !.title = t]
  <1>3. Does(r, <<>>)
    BY DEF EndsTitle
  <1>4. /\ u \in Rends /\ Step(rend.stack, Mark(Head(calls)), u.stack) /\ u.styles = <<>>
        /\ u.barrier = rend.barrier /\ u.lits = rend.lits /\ u.err = rend.err
        /\ ~Substitutes => ~Has(Tail(calls), "endstyle")
    BY <1>1, <1>2, EndsShift
  <1>5. t \in Seq(Html)
    <2> DEFINE c == CloseStyles(rend)
    <2>1. c \in Rends
      BY <1>1, CloseStylesFacts
    <2> HIDE DEF c
    <2>2. c.res \in Seq(Html)
      BY <2>1, StylesType
    <2> QED
      BY <2>2, RestType DEF c
  <1> HIDE DEF u, t
  <1>6. r \in Rends /\ r.stack = u.stack /\ r.styles = u.styles /\ r.barrier = u.barrier /\ r.lits = u.lits /\ r.err = u.err
    BY <1>4, <1>5 DEF Rends
  <1> HIDE DEF r
  <1>7. Head(calls).k \notin {"endstyle", "endlink"}
    BY <1>1, <1>2
  <1> QED
    BY <1>1, <1>3, <1>4, <1>6, <1>7, DoesShift

-----------------------------------------------------------------------------
(* Links, abbreviations and macros.                                        *)

LEMMA InlineFacts ==
  ASSUME NEW r \in Rends, NEW e \in Strings
  PROVE  /\ LET o == OpenInline(r, e)
            IN /\ o \in Rends /\ o.res = Append(r.res, <<"+", e>>) /\ o.floor = Len(r.styles)
               /\ o.stack = r.stack /\ o.styles = r.styles /\ o.barrier = r.barrier /\ o.lits = r.lits
               /\ o.err = r.err /\ o.leak = r.leak /\ o.blocks = r.blocks /\ o.title = r.title /\ o.mode = r.mode
         /\ LET c == CloseInline(r, e)
            IN /\ c \in Rends /\ c.res = Append(r.res, <<"-", e>>) /\ c.floor = 0
               /\ c.leak = (r.leak \/ Len(r.styles) # r.floor)
               /\ c.stack = r.stack /\ c.styles = r.styles /\ c.barrier = r.barrier /\ c.lits = r.lits
               /\ c.err = r.err /\ c.blocks = r.blocks /\ c.title = r.title /\ c.mode = r.mode
  <1>1. Len(r.styles) \in Nat /\ r.floor \in Nat
    BY StylesType
  <1> DEFINE p == Open(r, e)
             k == Close(r, e)
             n == Len(r.styles)
             l == (r.leak \/ n # r.floor)
  <1>2. /\ p \in Rends /\ Alike(p, r) /\ p.res = Append(r.res, <<"+", e>>)
        /\ k \in Rends /\ Alike(k, r) /\ k.res = Append(r.res, <<"-", e>>)
    BY PutFacts
  <1>3. l \in BOOLEAN /\ n \in Nat
    BY <1>1 DEF Rends
  <1>4. k.leak = r.leak
    BY <1>2 DEF Alike
  <1>5. OpenInline(r, e) = [p EXCEPT !.floor = n]
    BY DEF OpenInline
  <1>6. CloseInline(r, e) = [k EXCEPT !.floor = 0, !.leak = l]
    BY <1>4 DEF CloseInline
  <1> HIDE DEF p, k, n, l
  <1>7. LET o == [p EXCEPT !.floor = n]
        IN /\ o \in Rends /\ o.res = p.res /\ o.floor = n
           /\ o.stack = p.stack /\ o.styles = p.styles /\ o.barrier = p.barrier /\ o.lits = p.lits
           /\ o.err = p.err /\ o.leak = p.leak /\ o.blocks = p.blocks /\ o.title = p.title /\ o.mode = p.mode
    BY <1>2, <1>3 DEF Rends
  <1>8. LET c == [k EXCEPT !.floor = 0, !.leak = l]
        IN /\ c \in Rends /\ c.res = k.res /\ c.floor = 0 /\ c.leak = l
           /\ c.stack = k.stack /\ c.styles = k.styles /\ c.barrier = k.barrier /\ c.lits = k.lits
           /\ c.err = k.err /\ c.blocks = k.blocks /\ c.title = k.title /\ c.mode = k.mode
    BY <1>2, <1>3 DEF Rends
  <1> QED
    BY <1>2, <1>5, <1>6, <1>7, <1>8 DEF Alike, l, n

LEMMA BarrierFacts ==
  ASSUME NEW r \in Rends
  PROVE  /\ LET s == SetStyleBarrier(r)
            IN /\ s \in Rends /\ s.barrier = Append(r.barrier, r.styles) /\ s.res = r.res /\ s.floor = r.floor
               /\ s.stack = r.stack /\ s.styles = r.styles /\ s.lits = r.lits
               /\ s.err = r.err /\ s.leak = r.leak /\ s.blocks = r.blocks /\ s.title = r.title /\ s.mode = r.mode
         /\ LET c == ClearStyleBarrier(r)
            IN /\ c \in Rends /\ c.barrier = Front(r.barrier) /\ c.res = r.res /\ c.floor = r.floor
               /\ c.stack = r.stack /\ c.styles = r.styles /\ c.lits = r.lits
               /\ c.err = r.err /\ c.leak = r.leak /\ c.blocks = r.blocks /\ c.title = r.title /\ c.mode = r.mode
  <1> DEFINE a == Append(r.barrier, r.styles)
             f == Front(r.barrier)
  <1>1. r.barrier \in Seq(Seq(Fonts)) /\ r.styles \in Seq(Fonts)
    BY StylesType
  <1>2. a \in Seq(Seq(Fonts)) /\ f \in Seq(Seq(Fonts))
    <2> DEFINE F == Seq(Fonts)
    <2>1. r.barrier \in Seq(F) /\ r.styles \in F
      BY <1>1
    <2> HIDE DEF F
    <2>2. a \in Seq(F)
      BY <2>1
    <2>3. f \in Seq(F)
      BY <2>1, FrontType
    <2> QED
      BY <2>2, <2>3 DEF F
  <1>3. SetStyleBarrier(r) = [r EXCEPT !.barrier = a] /\ ClearStyleBarrier(r) = [r EXCEPT !.barrier = f]
    BY DEF SetStyleBarrier, ClearStyleBarrier
  <1> HIDE DEF a, f
  <1> DEFINE b == [r EXCEPT !.barrier = a]
             c == [r EXCEPT !.barrier = f]
  <1>4. b \in Rends /\ c \in Rends
    BY <1>2 DEF Rends
  <1>5. /\ b.barrier = a /\ b.res = r.res /\ b.floor = r.floor
        /\ b.stack = r.stack /\ b.styles = r.styles /\ b.lits = r.lits
        /\ b.err = r.err /\ b.leak = r.leak /\ b.blocks = r.blocks /\ b.title = r.title /\ b.mode = r.mode
    BY DEF Rends
  <1>6. /\ c.barrier = f /\ c.res = r.res /\ c.floor = r.floor
        /\ c.stack = r.stack /\ c.styles = r.styles /\ c.lits = r.lits
        /\ c.err = r.err /\ c.leak = r.leak /\ c.blocks = r.blocks /\ c.title = r.title /\ c.mode = r.mode
    BY DEF Rends
  <1> HIDE DEF b, c
  <1> QED
    BY <1>3, <1>4, <1>5, <1>6 DEF a, f, b, c

\* Three calls in one: what a handler writes and calls for keeps the rest, if
\* the styles are left right.
LEMMA DoesKeep ==
  ASSUME IInv, calls # <<>>, Head(calls).k \notin {"begin", "end", "title"},
         NEW r \in Rends, r.stack = rend.stack, \A i \in DOMAIN r.lits : Len(r.lits[i]) = 3,
         r.err \in {"", "ReturnNothing"} \/ (Substitutes /\ r.err \in Substituting),
         NEW cs \in Seq(CallToks(Here)), Does(r, cs),
         ~Substitutes => \A i \in DOMAIN cs : Shallow(cs[i]),
         \A i \in DOMAIN cs : \/ Mark(cs[i])[1] = "t"
                              \/ Mark(cs[i])[1] = "in" /\ Mark(Head(calls))[1] = "in",
         \A i, j \in DOMAIN cs : j < i => Before(cs[j], cs[i]),
         \A j \in DOMAIN cs, d \in CallToks(Here) : Before(Head(calls), d) => Before(cs[j], d),
         StylesOK'
  PROVE  IInv'
  <1>3. TypeOK' /\ SubsOK' /\ HeaderOK' /\ DepthOK' /\ FailsAsKnown'
    BY DoesRest
  <1>5. StackOK'
    BY DoesStill DEF IInv
  <1>6. CallsOK'
    BY DoesCalls DEF IInv
  <1> QED
    BY <1>3, <1>5, <1>6 DEF IInv

\* What only a substitution makes fail.
LEMMA FailType ==
  ASSUME NEW r \in Rends, NEW e \in Errors
  PROVE  /\ Fail(r, e) \in Rends /\ Fail(r, e).err = e
         /\ Fail(r, e).stack = r.stack /\ Fail(r, e).lits = r.lits
  BY DEF Fail, Rends

LEMMA FailKeeps ==
  ASSUME IInv, calls # <<>>, Head(calls).k \notin {"begin", "end", "title"},
         Substitutes, NEW e \in Substituting, Does(Fail(rend, e), <<>>)
  PROVE  IInv'
  <1> DEFINE r == Fail(rend, e)
             cs == <<>>
  <1>1. rend \in Rends /\ \A i \in DOMAIN rend.lits : Len(rend.lits[i]) = 3
    BY DEF IInv, TypeOK
  <1>2. /\ r \in Rends /\ r.stack = rend.stack /\ r.err = e
        /\ \A i \in DOMAIN r.lits : Len(r.lits[i]) = 3
    <2>1. e \in Errors
      BY DEF Errors
    <2> QED
      BY <1>1, <2>1, FailType
  <1>3. cs \in Seq(CallToks(Here)) /\ DOMAIN cs = {}
    BY NoneFacts
  <1>4. Does(r, cs)
    OBVIOUS
  <1> HIDE DEF r, cs
  <1>5. Substitutes'
    BY <1>4, SameInput DEF Does
  <1>6. StylesOK'
    BY <1>5 DEF StylesOK
  <1> QED
    BY <1>2, <1>3, <1>4, <1>6, DoesKeep

LEMMA EndsAbbrKeeps == ASSUME IInv, EndsAbbr PROVE IInv'
  <1>1. /\ calls # <<>> /\ Head(calls).k \in {"endabbr"}
        /\ rend \in Rends /\ rend.err = "" /\ \A i \in DOMAIN rend.lits : Len(rend.lits[i]) = 3
    BY CallFacts DEF EndsAbbr, Cl
  <1> DEFINE r == CloseInline(rend, "abbr")
  <1>2. "abbr" \in Strings
    BY DEF Strings
  <1>3. /\ r \in Rends /\ r.stack = rend.stack /\ r.styles = rend.styles /\ r.barrier = rend.barrier
        /\ r.lits = rend.lits /\ r.err = rend.err
    BY <1>1, <1>2, InlineFacts
  <1>4. Does(r, <<>>)
    BY DEF EndsAbbr
  <1> HIDE DEF r
  <1> QED
    BY <1>1, <1>3, <1>4, DoesWrite

LEMMA UnheardKeeps == ASSUME IInv, Unheard PROVE IInv'
  <1>1. /\ calls # <<>> /\ Head(calls).k \in {"{{"} /\ Cl.txt \in Seq(Strings)
        /\ rend \in Rends /\ rend.err = "" /\ \A i \in DOMAIN rend.lits : Len(rend.lits[i]) = 3
    BY CallFacts DEF Unheard, Cl
  <1>2. "{{" \in Strings /\ "}}" \in Strings /\ "{macro suppressed}" \in Strings
    BY DEF Strings, Opener
  <1> DEFINE a == Put(rend, "{{")
             b == Plain(a, Cl.txt)
             c == Put(b, "}}")
             d == Put(rend, "{macro suppressed}")
  <1>3. Does(c, <<>>) \/ Does(d, <<>>) \/ Does(rend, <<>>)
    BY DEF Unheard
  <1>4. a \in Rends /\ Alike(a, rend) /\ d \in Rends /\ Alike(d, rend)
    BY <1>1, <1>2, PutFacts
  <1> HIDE DEF a
  <1>5. b \in Rends /\ Alike(b, a)
    BY <1>1, <1>4, PlainFacts
  <1> HIDE DEF b
  <1>6. c \in Rends /\ Alike(c, b)
    BY <1>2, <1>5, PutFacts
  <1> HIDE DEF c, d
  <1>7. Alike(c, rend)
    BY <1>4, <1>5, <1>6 DEF Alike
  <1>8. ASSUME NEW r \in Rends, Alike(r, rend), Does(r, <<>>) PROVE IInv'
    BY <1>1, <1>8, DoesWrite DEF Alike
  <1> QED
    BY <1>1, <1>3, <1>4, <1>6, <1>7, <1>8, AlikeFacts

LEMMA TailFacts ==
  ASSUME NEW S, NEW s \in Seq(S), s # <<>>, NEW i \in 1 .. Len(Tail(s))
  PROVE  i + 1 \in 2 .. Len(s) /\ Tail(s)[i] = s[i + 1]
  OBVIOUS

LEMMA RunsFacts ==
  ASSUME IInv, NEW macros, Runs(macros)
  PROVE  /\ calls # <<>> /\ Cl = Head(calls) /\ Cl \in CallToks(Here) /\ Cl.k = "{{" /\ Cl.txt \in Seq(Strings)
         /\ Cl.txt # <<>> /\ \A i \in 2 .. Len(Cl.txt) : Cl.txt[i] # "}}"
         /\ Name \in Strings /\ Args \in Seq(Strings) /\ ~Contains(Args, "}}")
         /\ Cl.lvl \in Nat /\ (~Substitutes => Cl.lvl = 0)
         /\ rend \in Rends /\ rend.err = "" /\ \A i \in DOMAIN rend.lits : Len(rend.lits[i]) = 3
  <1>1. /\ calls # <<>> /\ Cl = Head(calls) /\ Cl \in CallToks(Here) /\ Cl.k \in {"{{"} /\ Cl.txt \in Seq(Strings)
        /\ rend \in Rends /\ rend.err = "" /\ \A i \in DOMAIN rend.lits : Len(rend.lits[i]) = 3
        /\ Cl.lvl \in Nat /\ (~Substitutes => Shallow(Cl))
    BY CallFacts DEF Runs
  <1>6. ~Substitutes => Cl.lvl = 0
    BY <1>1 DEF Shallow
  <1>2. Cl.txt # <<>> /\ \A i \in 2 .. Len(Cl.txt) : Cl.txt[i] # "}}"
    BY <1>1 DEF CallToks, Opener
  <1> DEFINE s == Cl.txt
  <1>3. s \in Seq(Strings) /\ s # <<>> /\ \A i \in 2 .. Len(s) : s[i] # "}}"
    BY <1>1, <1>2
  <1> HIDE DEF s
  <1>4. s[1] \in Strings /\ Tail(s) \in Seq(Strings)
    BY <1>3, HeadAndTail
  <1>5. ~Contains(Tail(s), "}}")
    <2>1. SUFFICES ASSUME NEW i \in 1 .. Len(Tail(s)) PROVE Tail(s)[i] # "}}"
      BY DEF Contains
    <2>2. i + 1 \in 2 .. Len(s) /\ Tail(s)[i] = s[i + 1]
      BY <1>3, TailFacts
    <2> QED
      BY <1>3, <2>2
  <1> QED
    BY <1>1, <1>2, <1>4, <1>5, <1>6 DEF s, Name, Args

LEMMA PutMacroKeeps == ASSUME IInv, PutMacro PROVE IInv'
  <1>1. /\ calls # <<>> /\ Cl = Head(calls) /\ Cl.k = "{{" /\ Name \in Strings
        /\ rend \in Rends /\ rend.err = "" /\ \A i \in DOMAIN rend.lits : Len(rend.lits[i]) = 3
    BY RunsFacts DEF PutMacro
  <1> DEFINE r == Put(rend, Name)
  <1>2. r \in Rends /\ Alike(r, rend)
    BY <1>1, PutFacts
  <1>3. Does(r, <<>>)
    BY DEF PutMacro
  <1> HIDE DEF r
  <1> QED
    BY <1>1, <1>2, <1>3, DoesWrite DEF Alike

LEMMA FeatFacts ==
  ASSUME NEW r \in Rends, NEW f \in SUBSET Feats
  PROVE  LET d == [r EXCEPT !.feats = @ \cup f]
         IN /\ d \in Rends /\ Alike(d, r) /\ d.res = r.res
            /\ LET n == Fail(d, "ReturnNothing")
               IN /\ n \in Rends /\ n.err = "ReturnNothing" /\ n.stack = r.stack /\ n.styles = r.styles
                  /\ n.barrier = r.barrier /\ n.lits = r.lits /\ n.floor = r.floor /\ n.leak = r.leak
                  /\ n.blocks = r.blocks /\ n.title = r.title /\ n.mode = r.mode /\ n.res = r.res
  <1> DEFINE g == r.feats \cup f
             d == [r EXCEPT !.feats = g]
  <1>1. g \in SUBSET Feats
    BY DEF Rends
  <1>2. [r EXCEPT !.feats = @ \cup f] = d
    OBVIOUS
  <1> HIDE DEF g
  <1>3. d \in Rends /\ Alike(d, r) /\ d.res = r.res
    BY <1>1 DEF Rends, Alike
  <1> HIDE DEF d
  <1>4. "ReturnNothing" \in Errors
    BY DEF Errors
  <1>5. LET n == Fail(d, "ReturnNothing")
        IN /\ n \in Rends /\ n.err = "ReturnNothing" /\ n.stack = d.stack /\ n.styles = d.styles
           /\ n.barrier = d.barrier /\ n.lits = d.lits /\ n.floor = d.floor /\ n.leak = d.leak
           /\ n.blocks = d.blocks /\ n.title = d.title /\ n.mode = d.mode /\ n.res = d.res
    BY <1>3, <1>4 DEF Rends, Fail
  <1> QED
    BY <1>2, <1>3, <1>5 DEF Alike

LEMMA CanCommentMacroKeeps == ASSUME IInv, CanCommentMacro PROVE IInv'
  <1>1. /\ calls # <<>> /\ Cl = Head(calls) /\ Cl.k = "{{"
        /\ rend \in Rends /\ rend.err = "" /\ \A i \in DOMAIN rend.lits : Len(rend.lits[i]) = 3
    BY RunsFacts DEF CanCommentMacro
  <1> DEFINE f == {"hascomments"} \cup IF rend.mode.reader THEN {"comments"} ELSE {}
             r == [rend EXCEPT !.feats = @ \cup f]
  <1>2. Does(r, <<>>)
    <2>1. CanComment(rend) = r
      BY <1>1 DEF CanComment, Rends
    <2> QED
      BY <2>1 DEF CanCommentMacro
  <1>3. f \in SUBSET Feats
    BY DEF Feats
  <1> HIDE DEF f
  <1>4. r \in Rends /\ Alike(r, rend)
    BY <1>1, <1>3, FeatFacts
  <1> HIDE DEF r
  <1> QED
    BY <1>1, <1>2, <1>4, DoesWrite DEF Alike

LEMMA RestrictedMacroKeeps == ASSUME IInv, RestrictedMacro PROVE IInv'
  <1>1. /\ calls # <<>> /\ Cl = Head(calls) /\ Cl.k = "{{"
        /\ rend \in Rends /\ rend.err = "" /\ \A i \in DOMAIN rend.lits : Len(rend.lits[i]) = 3
    BY RunsFacts DEF RestrictedMacro
  <1> DEFINE f == {"hasrestricted"}
             d == [rend EXCEPT !.feats = @ \cup f]
             n == Fail(d, "ReturnNothing")
  <1>2. Does(d, <<>>) \/ Does(n, <<>>)
    BY DEF RestrictedMacro, Restricted
  <1>3. f \in SUBSET Feats
    BY DEF Feats
  <1>4. /\ d \in Rends /\ Alike(d, rend)
        /\ n \in Rends /\ n.err = "ReturnNothing" /\ n.stack = rend.stack /\ n.styles = rend.styles
        /\ n.barrier = rend.barrier /\ n.lits = rend.lits
    BY <1>1, <1>3, FeatFacts
  <1> HIDE DEF f, d, n
  <1>5. ASSUME Does(d, <<>>) PROVE IInv'
    BY <1>1, <1>4, <1>5, DoesWrite DEF Alike
  <1>6. ASSUME Does(n, <<>>) PROVE IInv'
    BY <1>1, <1>4, <1>6, DoesWrite
  <1> QED
    BY <1>2, <1>5, <1>6

-----------------------------------------------------------------------------
(* Substitutions.                                                          *)

LEMMA RecursIn ==
  ASSUME NEW n \in Nat, NEW S, NEW a \in S, NEW F \in [1 .. n -> [S -> S]], NEW f,
         f = [i \in 0 .. n |-> f[i]], f[0] = a,
         \A i \in 1 .. n : f[i - 1] \in S => f[i] = F[i][f[i - 1]]
  PROVE  f \in Iterates(n, S, a, F)
  <1> DEFINE P == {i \in Nat : i <= n => f[i] \in S}
  <1>1. 0 \in P
    OBVIOUS
  <1>2. ASSUME NEW i \in Nat, i \in P PROVE i + 1 \in P
    <2> SUFFICES ASSUME i + 1 <= n PROVE f[i + 1] \in S
      OBVIOUS
    <2>1. i + 1 \in 1 .. n /\ (i + 1) - 1 = i /\ i <= n
      OBVIOUS
    <2>2. f[i] \in S
      BY <1>2, <2>1
    <2>3. f[i + 1] = F[i + 1][f[i]]
      BY <2>1, <2>2
    <2> QED
      BY <2>1, <2>2, <2>3
  <1>3. Nat \subseteq P
    <2> HIDE DEF P
    <2> QED
      BY <1>1, <1>2, SetInduction
  <1>4. \A i \in 0 .. n : f[i] \in S
    BY <1>3
  <1>5. f \in [0 .. n -> S]
    BY <1>4
  <1>6. \A i \in 1 .. n : i - 1 \in 0 .. n
    OBVIOUS
  <1>7. \A i \in 1 .. n : f[i] = F[i][f[i - 1]]
    BY <1>4, <1>6
  <1> QED
    BY <1>5, <1>7 DEF Iterates

LEMMA ReplacedType ==
  ASSUME NEW txt \in Seq(Strings), NEW p \in Strings \X Seq(Strings)
  PROVE  Replaced(txt, p) \in Seq(Strings)
  <1> DEFINE F == Seq(Strings)
             f == [j \in DOMAIN txt |-> IF txt[j] = p[1] THEN p[2] ELSE <<txt[j]>>]
  <1>1. ASSUME NEW j \in DOMAIN txt PROVE f[j] \in F
    <2>1. txt[j] \in Strings
      OBVIOUS
    <2>2. <<txt[j]>> \in Seq(Strings)
      BY <2>1, OneFacts
    <2> QED
      BY <2>2
  <1> HIDE DEF F
  <1>2. f \in Seq(F)
    <2>1. DOMAIN txt = 1 .. Len(txt) /\ Len(txt) \in Nat
      OBVIOUS
    <2> QED
      BY <1>1, <2>1
  <1> HIDE DEF f
  <1>3. FlattenSeq(f) \in Seq(Strings)
    BY <1>2, FlattenType DEF F
  <1> QED
    BY <1>3 DEF f, Replaced

LEMMA SubstitutedType ==
  ASSUME SubsOK, NEW txt \in Seq(Strings)
  PROVE  Substituted(txt) \in Seq(Strings) /\ (~Substitutes => Substituted(txt) = txt)
  <1> DEFINE n == Len(subs)
             S == Seq(Strings)
             after[i \in 0 .. Len(subs)] == IF i = 0 THEN txt ELSE Replaced(after[i - 1], subs[i])
             Eq(f) == f = [i \in 0 .. Len(subs) |-> IF i = 0 THEN txt ELSE Replaced(f[i - 1], subs[i])]
             F == [i \in 1 .. n |-> [s \in S |-> Replaced(s, subs[i])]]
  <1>1. Substituted(txt) = after[n]
    BY DEF Substituted
  <1>u. after = CHOOSE f : Eq(f)
    OBVIOUS
  <1> HIDE DEF after
  <1>0. n \in Nat /\ (\A i \in 1 .. n : subs[i] \in Strings \X Seq(Strings)) /\ (subs = <<>> => n = 0)
    <2>1. subs \in Seq(Strings \X Seq(Strings))
      BY DEF SubsOK
    <2> DEFINE P == Strings \X Seq(Strings)
    <2>2. subs \in Seq(P)
      BY <2>1
    <2> HIDE DEF P
    <2>3. n \in Nat /\ (\A i \in 1 .. n : subs[i] \in P) /\ (subs = <<>> => n = 0)
      BY <2>2, LenNone
    <2> QED
      BY <2>3 DEF P
  <1>b. \A f : Eq(f) <=> f = [i \in 0 .. n |-> IF i = 0 THEN txt ELSE Replaced(f[i - 1], subs[i])]
    OBVIOUS
  <1> HIDE DEF Eq
  <1>2. F \in [1 .. n -> [S -> S]]
    BY <1>0, ReplacedType
  <1>f. \A i \in 1 .. n, s \in S : F[i][s] = Replaced(s, subs[i])
    OBVIOUS
  <1>3. txt \in S
    OBVIOUS
  <1> HIDE DEF F, n, S
  <1>4. PICK g \in Iterates(n, S, txt, F) : TRUE
    BY <1>0, <1>2, <1>3, Recursion
  <1>5. g \in [0 .. n -> S] /\ g[0] = txt /\ \A i \in 1 .. n : g[i] = F[i][g[i - 1]]
    BY <1>4 DEF Iterates
  <1>6. \A i \in 0 .. n : i # 0 => i \in 1 .. n /\ i - 1 \in 0 .. n
    BY <1>0
  <1>7. Eq(g)
    <2>1. ASSUME NEW i \in 0 .. n PROVE g[i] = IF i = 0 THEN txt ELSE Replaced(g[i - 1], subs[i])
      BY <1>5, <1>6, <1>f
    <2>2. g = [i \in 0 .. n |-> IF i = 0 THEN txt ELSE Replaced(g[i - 1], subs[i])]
      BY <1>5, <2>1
    <2> QED
      BY <2>2, <1>b
  <1>8. Eq(after)
    BY <1>7, <1>u
  <1>9. after = [i \in 0 .. n |-> IF i = 0 THEN txt ELSE Replaced(after[i - 1], subs[i])]
    BY <1>8, <1>b
  <1>10. after[0] = txt
    <2>1. 0 \in 0 .. n
      BY <1>0
    <2> QED
      BY <1>9, <2>1
  <1>11. after \in Iterates(n, S, txt, F)
    <2>1. after = [i \in 0 .. n |-> after[i]]
      BY <1>9
    <2>2. \A i \in 1 .. n : after[i - 1] \in S => after[i] = F[i][after[i - 1]]
      <3>1. \A i \in 1 .. n : i \in 0 .. n /\ i # 0
        BY <1>0
      <3>2. \A i \in 1 .. n : after[i] = Replaced(after[i - 1], subs[i])
        BY <1>9, <3>1
      <3> QED
        BY <3>2, <1>f
    <2> QED
      BY <1>0, <1>2, <1>3, <1>10, <2>1, <2>2, RecursIn
  <1>12. after[n] \in S
    <2>1. n \in 0 .. n
      BY <1>0
    <2> QED
      BY <1>11, <2>1 DEF Iterates
  <1>13. ASSUME ~Substitutes PROVE after[n] = txt
    <2>1. n = 0
      BY <1>0, <1>13 DEF SubsOK
    <2> QED
      BY <1>10, <2>1
  <1> QED
    BY <1>1, <1>12, <1>13 DEF S

LEMMA LevelFacts ==
  ASSUME NEW A, NEW t \in CallToks(A), NEW lvl \in Nat
  PROVE  LET u == [t EXCEPT !.lvl = lvl]
         IN /\ u \in CallToks(A) /\ u.k = t.k /\ u.txt = t.txt /\ u.lvl = lvl
            /\ u.el = t.el /\ u.kid = t.kid
  <1> DEFINE u == [t EXCEPT !.lvl = lvl]
  <1>1. u \in Tokens(A) /\ u.k = t.k /\ u.txt = t.txt /\ u.lvl = lvl /\ u.el = t.el /\ u.kid = t.kid
    BY DEF CallToks, Tokens
  <1> HIDE DEF u
  <1>2. u \in CallToks(A)
    BY <1>1 DEF CallToks
  <1> QED
    BY <1>1, <1>2 DEF u

\* A call of handle_text(), after the substitutions.
LEMMA TextCallFacts ==
  ASSUME SubsOK, NEW k \in {"text", "ltext"}, NEW txt \in Seq(Strings), NEW lvl \in Nat
  PROVE  LET t == TextCall(k, txt, lvl)
         IN /\ t \in CallToks(Here) /\ t.k = k /\ t.txt \in Seq(Strings) /\ t.lvl = lvl
            /\ ~Substitutes => t.txt = txt
            /\ Mark(t) = <<"in", "">>
  <1> DEFINE s == Substituted(txt)
             u == Text(k, s)
  <1>1. s \in Seq(Strings) /\ (~Substitutes => s = txt)
    BY SubstitutedType
  <1>2. TextCall(k, txt, lvl) = [u EXCEPT !.lvl = lvl]
    BY DEF TextCall
  <1> HIDE DEF s
  <1>3. u.k = k /\ u.txt = s
    BY <1>1, TextType
  <1>4. u \in CallToks(Here)
    BY <1>1, TextType
  <1> HIDE DEF u
  <1> DEFINE t == TextCall(k, txt, lvl)
  <1>5. t \in CallToks(Here) /\ t.k = k /\ t.txt = s /\ t.lvl = lvl
    BY <1>2, <1>3, <1>4, LevelFacts
  <1> HIDE DEF t
  <1>6. Mark(t) = <<"in", "">>
    BY <1>5 DEF Mark
  <1> QED
    BY <1>1, <1>5, <1>6 DEF t

LEMMA NextLevel ==
  ASSUME NEW l \in Nat
  PROVE  l + 1 \in Nat /\ (l = 0 => l + 1 = 1) /\ (l <= 1 => l + 1 \in {1, 2})
  OBVIOUS

LEMMA InnerFacts ==
  ASSUME SubsOK, NEW k \in {"text", "ltext"}, NEW txt \in Seq(Strings), Cl.lvl \in Nat
  PROVE  LET t == InnerText(k, txt)
         IN /\ t \in CallToks(Here) /\ t.k = k /\ t.txt \in Seq(Strings)
            /\ Cl.lvl = 0 => t.lvl = 1
            /\ Cl.lvl <= 1 => t.lvl \in {1, 2}
            /\ ~Substitutes => t.txt = txt
            /\ Mark(t) = <<"in", "">>
  <1> DEFINE l == Cl.lvl
             m == l + 1
             t == TextCall(k, txt, m)
  <1>1. l \in Nat
    OBVIOUS
  <1> HIDE DEF l
  <1>2. m \in Nat /\ (l = 0 => m = 1) /\ (l <= 1 => m \in {1, 2})
    BY <1>1, NextLevel
  <1> HIDE DEF m
  <1>3. /\ t \in CallToks(Here) /\ t.k = k /\ t.txt \in Seq(Strings) /\ t.lvl = m
        /\ ~Substitutes => t.txt = txt
        /\ Mark(t) = <<"in", "">>
    BY <1>2, TextCallFacts
  <1>4. t = InnerText(k, txt)
    BY DEF InnerText, m, l
  <1> HIDE DEF t
  <1>5. /\ t \in CallToks(Here) /\ t.k = k /\ t.txt \in Seq(Strings)
        /\ l = 0 => t.lvl = 1
        /\ l <= 1 => t.lvl \in {1, 2}
        /\ ~Substitutes => t.txt = txt
        /\ Mark(t) = <<"in", "">>
    BY <1>2, <1>3
  <1> QED
    BY <1>4, <1>5 DEF l

LEMMA StillMark ==
  ASSUME NEW t, t.k \notin {"begin", "end", "title"}
  PROVE  Mark(t)[1] = "t" \/ Mark(t)[1] = "in"
  <1>1. Mark(t) = <<"t", "">> \/ Mark(t) = <<"in", "">>
    BY DEF Mark
  <1> QED
    BY <1>1, StepStill

InKinds == {"text", "ltext", "ptext", "iquote", "{{", "[["}
LEMMA InMark ==
  ASSUME NEW t, t.k \in InKinds
  PROVE  Mark(t)[1] = "in"
  <1>1. Mark(t) = <<"in", "">>
    BY DEF Mark, InKinds
  <1> QED
    BY <1>1, StepStill

LEMMA InHead ==
  ASSUME Head(calls).k \in InKinds
  PROVE  Mark(Head(calls))[1] = "in"
  BY InMark

LEMMA BeforeMacro ==
  ASSUME NEW c, c.k = "{{", NEW t, t.k # "title"
  PROVE  \A d : Before(c, d) => Before(t, d)
  BY DEF Before, Links

LEMMA FollowsMacro ==
  ASSUME Head(calls).k \in {"{{"}, NEW t, t \in CallToks(Here),
         t.k \notin {"begin", "end", "title", "endstyle", "endlink"}, ~Substitutes => Shallow(t)
  PROVE  Follows(t)
  <1>1. Mark(t)[1] = "t" \/ Mark(t)[1] = "in"
    BY StillMark
  <1>2. Mark(Head(calls))[1] = "in"
    <2>1. Head(calls).k \in InKinds
      BY DEF InKinds
    <2> QED
      BY <2>1, InHead
  <1>3. \A d : Before(Head(calls), d) => Before(t, d)
    BY BeforeMacro
  <1> QED
    BY <1>1, <1>2, <1>3 DEF Follows

LEMMA AbbrType ==
  ASSUME NEW args \in Seq(Strings)
  PROVE  Abbr(args) \in Seq(Strings)
  <1> DEFINE S == {Len(args) + 1} \cup {i \in DOMAIN args : args[i] = ":"}
  <1>1. S \subseteq Nat /\ Len(args) + 1 \in S /\ Len(args) \in Nat /\ DOMAIN args = 1 .. Len(args)
    OBVIOUS
  <1>2. \A i \in S : i \in 1 .. Len(args) + 1
    BY <1>1
  <1> HIDE DEF S
  <1>3. Min(S) \in S
    BY <1>1, MinFacts
  <1>4. Min(S) - 1 \in 0 .. Len(args)
    <2>1. Min(S) \in 1 .. Len(args) + 1
      BY <1>2, <1>3
    <2> QED
      BY <1>1, <2>1
  <1>5. Abbr(args) = SubSeq(args, 1, Min(S) - 1)
    BY DEF Abbr, S
  <1> QED
    BY <1>4, <1>5, RestFacts

LEMMA ShowAbbrKeeps == ASSUME IInv, ShowAbbr PROVE IInv'
  <1>1. /\ calls # <<>> /\ Cl = Head(calls) /\ Cl.k = "{{" /\ Args \in Seq(Strings)
        /\ Cl.lvl \in Nat /\ (~Substitutes => Cl.lvl = 0)
        /\ rend \in Rends /\ rend.err = "" /\ \A i \in DOMAIN rend.lits : Len(rend.lits[i]) = 3
    BY RunsFacts DEF ShowAbbr
  <1> DEFINE o == OpenInline(rend, "abbr")
             ab == Abbr(Args)
             r == [o EXCEPT !.abbrs = @ \cup {ab}]
             t == InnerText("ltext", ab)
             u == Text("endabbr", <<>>)
  <1>2. Does(r, <<t, u>>)
    BY DEF ShowAbbr
  <1>3. ab \in Seq(Strings)
    BY <1>1, AbbrType
  <1>4. "abbr" \in Strings
    BY DEF Strings
  <1>5. /\ o \in Rends /\ o.stack = rend.stack /\ o.styles = rend.styles /\ o.barrier = rend.barrier
        /\ o.lits = rend.lits /\ o.err = rend.err
    BY <1>1, <1>4, InlineFacts
  <1> HIDE DEF o, ab
  <1>6. /\ t \in CallToks(Here) /\ t.k = "ltext" /\ u \in CallToks(Here) /\ u.k = "endabbr"
        /\ ~Substitutes => Shallow(t) /\ Shallow(u)
    <2>1. u \in CallToks(Here) /\ u.k = "endabbr"
      BY TextType, Plainly DEF Links
    <2> HIDE DEF u
    <2>2. SubsOK /\ Cl.lvl \in Nat
      BY <1>1 DEF IInv
    <2>3. t \in CallToks(Here) /\ t.k = "ltext" /\ (Cl.lvl = 0 => t.lvl = 1)
      BY <1>3, <2>2, InnerFacts
    <2> HIDE DEF t
    <2>4. ASSUME ~Substitutes PROVE Shallow(t) /\ Shallow(u)
      <3>1. t.lvl \in {0, 1, 2}
        BY <1>1, <2>3, <2>4
      <3> QED
        BY <2>1, <2>3, <3>1, ShallowFacts
    <2> QED
      BY <2>1, <2>3, <2>4
  <1> HIDE DEF t, u
  <1>7. /\ r \in Rends /\ r.stack = o.stack /\ r.styles = o.styles /\ r.barrier = o.barrier
        /\ r.lits = o.lits /\ r.err = o.err
    BY <1>3, <1>5 DEF Rends
  <1> HIDE DEF r
  <1>8. Still(r)
    BY <1>1, <1>5, <1>7 DEF Still
  <1>9. Follows(t) /\ Follows(u)
    BY <1>1, <1>6, FollowsMacro
  <1>10. Before(t, u)
    BY <1>6 DEF Before
  <1> QED
    BY <1>1, <1>2, <1>7, <1>8, <1>9, <1>10, DoesTwo

Keeping(r) ==
  /\ r.stack = rend.stack /\ \A i \in DOMAIN r.lits : Len(r.lits[i]) = 3
  /\ r.err \in {"", "ReturnNothing"}
\* Two calls that are made in place of one.
LEMMA DoesPair ==
  ASSUME IInv, calls # <<>>, Head(calls).k \notin {"begin", "end", "title"},
         NEW r \in Rends, Keeping(r), NEW t \in CallToks(Here), NEW u \in CallToks(Here), Does(r, Two(t, u)),
         Mark(Head(calls))[1] = "in", t.k \notin {"begin", "end", "title"}, u.k \notin {"begin", "end", "title"},
         Before(t, u), ~Substitutes => Shallow(t) /\ Shallow(u),
         \A d \in CallToks(Here) : Before(Head(calls), d) => Before(t, d) /\ Before(u, d),
         StylesOK'
  PROVE  IInv'
  <1> DEFINE cs == Two(t, u)
  <1>1. cs \in Seq(CallToks(Here)) /\ DOMAIN cs = {1, 2} /\ cs[1] = t /\ cs[2] = u
    BY TwoCalls
  <1>2. Does(r, cs)
    OBVIOUS
  <1> HIDE DEF cs
  <1>3. \A i \in DOMAIN cs : \/ Mark(cs[i])[1] = "t"
                             \/ Mark(cs[i])[1] = "in" /\ Mark(Head(calls))[1] = "in"
    BY <1>1, StillMark
  <1>4. \A i, j \in DOMAIN cs : j < i => Before(cs[j], cs[i])
    <2>1. \A i, j \in DOMAIN cs : j < i => i = 2 /\ j = 1
      BY <1>1, NumberFacts, Zenon
    <2> QED
      BY <1>1, <2>1
  <1>5. \A j \in DOMAIN cs, d \in CallToks(Here) : Before(Head(calls), d) => Before(cs[j], d)
    BY <1>1
  <1>6. ~Substitutes => \A i \in DOMAIN cs : Shallow(cs[i])
    BY <1>1
  <1> QED
    BY <1>1, <1>2, <1>3, <1>4, <1>5, <1>6, DoesKeep DEF Keeping

LEMMA HasTwo ==
  ASSUME NEW A, NEW t \in A, NEW u \in A
  PROVE  \A k : Has(Two(t, u), k) <=> t.k = k \/ u.k = k
  <1>1. DOMAIN Two(t, u) = {1, 2} /\ Two(t, u)[1] = t /\ Two(t, u)[2] = u
    BY TwoFacts
  <1>2. SUFFICES ASSUME NEW k PROVE Has(Two(t, u), k) <=> t.k = k \/ u.k = k
    OBVIOUS
  <1>3. Has(Two(t, u), k) <=> \E i \in {1, 2} : Two(t, u)[i].k = k
    BY <1>1 DEF Has
  <1> QED
    BY <1>1, <1>3

LEMMA PendingTwo ==
  ASSUME IInv, calls # <<>>, NEW r, NEW t \in CallToks(Here), NEW u \in CallToks(Here), Does(r, Two(t, u)), NEW k
  PROVE  /\ Pending(k)' <=> t.k = k \/ u.k = k \/ Has(Tail(calls), k)
         /\ Pending(k) <=> Head(calls).k = k \/ Has(Tail(calls), k)
  <1>1. Two(t, u) \in Seq(CallToks(Here)) /\ (Has(Two(t, u), k) <=> t.k = k \/ u.k = k)
    BY TwoCalls, HasTwo
  <1> QED
    BY <1>1, DoesPending DEF IInv

\* No such call is left.
LEMMA NoneLeft ==
  ASSUME IInv, calls # <<>>, NEW k, \A d \in CallToks(Here) : d.k = k => ~Before(Head(calls), d)
  PROVE  ~Has(Tail(calls), k)
  BY BeforeTail DEF IInv

LEMMA ShowTextKeeps == ASSUME IInv, ShowText PROVE IInv'
  <1>1. /\ calls # <<>> /\ Cl = Head(calls) /\ Cl.k = "{{" /\ Args \in Seq(Strings) /\ ~Contains(Args, "}}")
        /\ Cl.lvl \in Nat /\ (~Substitutes => Cl.lvl = 0)
        /\ rend \in Rends /\ rend.err = "" /\ \A i \in DOMAIN rend.lits : Len(rend.lits[i]) = 3
    BY RunsFacts DEF ShowText
  <1> DEFINE s == StartStyle(rend, "big")
             r == SetStyleBarrier(s)
             t == InnerText("text", Args)
             u == Text("endstyle", <<>>)
  <1>2. Does(r, Two(t, u))
    BY DEF ShowText, Two
  <1>3. "big" \in Fonts
    BY DEF Fonts
  <1>4. /\ s \in Rends /\ s.styles = <<"big">> \o rend.styles /\ s.stack = rend.stack
        /\ s.barrier = rend.barrier /\ s.lits = rend.lits /\ s.err = rend.err
    BY <1>1, <1>3, StartStyleFacts
  <1> HIDE DEF s
  <1>5. /\ r \in Rends /\ r.barrier = Append(s.barrier, s.styles) /\ r.styles = s.styles /\ r.stack = s.stack
        /\ r.lits = s.lits /\ r.err = s.err
    BY <1>4, BarrierFacts
  <1>6. /\ t \in CallToks(Here) /\ t.k = "text" /\ u \in CallToks(Here) /\ u.k = "endstyle"
        /\ ~Substitutes => ~Contains(t.txt, "}}") /\ Shallow(t) /\ Shallow(u)
    <2>1. u \in CallToks(Here) /\ u.k = "endstyle"
      BY TextType, Plainly
    <2> HIDE DEF u
    <2>2. SubsOK /\ Cl.lvl \in Nat /\ Args \in Seq(Strings)
      BY <1>1 DEF IInv
    <2>3. /\ t \in CallToks(Here) /\ t.k = "text" /\ (Cl.lvl = 0 => t.lvl = 1)
          /\ ~Substitutes => t.txt = Args
      BY <2>2, InnerFacts
    <2> HIDE DEF t
    <2>4. ASSUME ~Substitutes PROVE ~Contains(t.txt, "}}") /\ Shallow(t) /\ Shallow(u)
      <3>1. t.lvl = 1 /\ ~Contains(t.txt, "}}")
        BY <1>1, <2>3, <2>4
      <3>2. Shallow(t)
        BY <2>3, <3>1 DEF Shallow
      <3> QED
        BY <2>1, <3>1, <3>2, ShallowFacts
    <2> QED
      BY <2>1, <2>3, <2>4
  <1> HIDE DEF t, u, r
  <1>7. ~Substitutes => ~Has(Tail(calls), "endstyle") /\ ~Has(Tail(calls), "endlink")
    BY <1>1, NoneLeft DEF Before, Links
  <1>8. ~Substitutes =>
          ~Pending("endstyle") /\ ~Pending("endlink") /\ Pending("endstyle")' /\ ~Pending("endlink")'
    BY <1>1, <1>2, <1>6, <1>7, PendingTwo
  <1>9. StylesOK'
    <2>s. SUFFICES ASSUME ~Substitutes PROVE StylesHold'
      <3>1. Substitutes' = Substitutes
        BY <1>2, SameInput DEF Does
      <3> QED
        BY <3>1 DEF StylesOK
    <2>1. rend' = r
      BY <1>2 DEF Does
    <2>2. /\ \A i, j \in DOMAIN rend.styles : rend.styles[i] = rend.styles[j] => i = j
          /\ ~Contains(rend.styles, "big") /\ Len(rend.barrier) = 0
      BY <2>s, <1>8 DEF IInv, StylesOK, StylesHold
    <2> DEFINE o == rend.styles
               n == <<"big">> \o o
    <2>3. o \in Seq(Fonts) /\ rend.barrier \in Seq(Seq(Fonts))
      BY <1>1, StylesType
    <2>4. n \in Seq(Fonts) /\ Len(n) = Len(o) + 1 /\ n[1] = "big" /\ \A k \in 1 .. Len(o) : n[k + 1] = o[k]
      BY <1>3, <2>3, ConsFacts
    <2>5. r.styles = n /\ r.barrier = Append(rend.barrier, n)
      BY <1>4, <1>5
    <2>6. rend.barrier = <<>>
      BY <2>2, <2>3, EmptySeq
    <2> DEFINE b == Append(rend.barrier, n)
    <2>7. Len(b) = 1 /\ DOMAIN b = {1} /\ b[1] = n
      <3> HIDE DEF n
      <3>1. b = <<n>>
        BY <2>6
      <3> HIDE DEF b
      <3> QED
        BY <3>1
    <2> HIDE DEF n, b
    <2>8. o \in Seq(Fonts) /\ Len(o) \in Nat /\ DOMAIN o = 1 .. Len(o) /\ DOMAIN n = 1 .. Len(n)
      BY <2>3, <2>4
    <2>9. \A k \in 1 .. Len(o) : o[k] # "big"
      BY <2>2 DEF Contains
    <2>10. \A i \in DOMAIN n : i = 1 \/ (i - 1 \in 1 .. Len(o) /\ n[i] = o[i - 1])
      <3>1. SUFFICES ASSUME NEW i \in DOMAIN n, i # 1 PROVE i - 1 \in 1 .. Len(o) /\ n[i] = o[i - 1]
        OBVIOUS
      <3>2. i - 1 \in 1 .. Len(o) /\ (i - 1) + 1 = i
        BY <2>4, <2>8, <3>1
      <3> QED
        BY <2>4, <3>2
    <2>11. \A i, j \in DOMAIN n : n[i] = n[j] => i = j
      <3>1. SUFFICES ASSUME NEW i \in DOMAIN n, NEW j \in DOMAIN n, n[i] = n[j] PROVE i = j
        OBVIOUS
      <3>2. CASE i = 1 \/ j = 1
        <4>1. n[1] = "big"
          BY <2>4
        <4>2. \A k \in DOMAIN n : k # 1 => n[k] # "big"
          BY <2>9, <2>10, Zenon
        <4> QED
          BY <3>1, <3>2, <4>1, <4>2, Zenon
      <3>3. CASE i # 1 /\ j # 1
        <4>1. i - 1 \in DOMAIN o /\ j - 1 \in DOMAIN o /\ o[i - 1] = o[j - 1]
          BY <2>8, <2>10, <3>1, <3>3
        <4>2. i - 1 = j - 1
          BY <2>2, <4>1
        <4> QED
          BY <2>8, <4>2
      <3> QED
        BY <3>2, <3>3
    <2>12. Contains(n, "big") /\ \A i \in DOMAIN n : Contains(n, n[i])
      <3>1. 1 \in DOMAIN n
        BY <2>4, <2>8
      <3> QED
        BY <2>4, <2>8, <3>1 DEF Contains
    <2> QED
      BY <2>s, <1>8, <2>1, <2>5, <2>7, <2>11, <2>12 DEF StylesHold, b
  <1>10. Mark(Head(calls))[1] = "in"
    <2>1. Head(calls).k \in InKinds
      BY <1>1 DEF InKinds
    <2> QED
      BY <2>1, InHead
  <1>11. Before(t, u)
    BY <1>1, <1>6 DEF Before, Links
  <1>12. \A d \in CallToks(Here) : Before(Head(calls), d) => Before(t, d) /\ Before(u, d)
    BY <1>1, <1>6, BeforeMacro
  <1>13. Keeping(r)
    BY <1>1, <1>4, <1>5 DEF Keeping
  <1>14. /\ Head(calls).k \notin {"begin", "end", "title"} /\ t.k \notin {"begin", "end", "title"}
         /\ u.k \notin {"begin", "end", "title"}
    BY <1>1, <1>6
  <1> QED
    BY <1>1, <1>2, <1>5, <1>6, <1>9, <1>10, <1>11, <1>12, <1>13, <1>14, DoesPair

LEMMA DomainFacts ==
  ASSUME NEW S, NEW s \in Seq(S)
  PROVE  DOMAIN s = 1 .. Len(s) /\ Len(s) \in Nat
  OBVIOUS

LEMMA EndStyleFacts ==
  ASSUME NEW r \in Rends, NEW e \in Fonts, Contains(r.styles, e)
  PROVE  LET u == EndStyle(r, e)
             n == First(r, e)
         IN /\ u \in Rends /\ u.styles = Rest(r.styles, n) /\ n \in 1 .. Len(r.styles)
            /\ u.res = r.res \o Ends(SubSeq(r.styles, 1, n))
            /\ u.stack = r.stack /\ u.barrier = r.barrier /\ u.lits = r.lits /\ u.err = r.err
            /\ u.floor = r.floor /\ u.blocks = r.blocks /\ u.title = r.title /\ u.mode = r.mode
            /\ u.leak = (r.leak \/ Len(r.styles) - n < r.floor)
  <1> DEFINE n == First(r, e)
             s == StylesBut(r, n)
             h == r.res \o Ends(SubSeq(r.styles, 1, n))
  <1>1. n \in 1 .. Len(r.styles) /\ n \in 0 .. Len(r.styles)
    <2>1. n \in 1 .. Len(r.styles)
      BY FirstFacts
    <2>2. Len(r.styles) \in Nat
      BY StylesType
    <2> HIDE DEF n
    <2> QED
      BY <2>1, <2>2
  <1>2. /\ s \in Rends /\ s.styles = Rest(r.styles, n) /\ s.res = r.res
        /\ s.stack = r.stack /\ s.barrier = r.barrier /\ s.lits = r.lits /\ s.err = r.err
        /\ s.floor = r.floor /\ s.blocks = r.blocks /\ s.title = r.title /\ s.mode = r.mode
        /\ s.leak = (r.leak \/ Len(r.styles) - n < r.floor)
    BY <1>1, StylesButFacts
  <1>3. h \in Seq(Html)
    <2>1. SubSeq(r.styles, 1, n) \in Seq(Strings)
      BY <1>1, StylesType, RestFacts
    <2>2. Ends(SubSeq(r.styles, 1, n)) \in Seq(Html) /\ r.res \in Seq(Html)
      BY <2>1, EndsFacts, StylesType
    <2> QED
      BY <2>2
  <1>4. EndStyle(r, e) = [s EXCEPT !.res = h]
    BY <1>2 DEF EndStyle
  <1> HIDE DEF s, h
  <1>5. LET u == [s EXCEPT !.res = h] IN u \in Rends /\ Alike(u, s) /\ u.res = h /\ u.styles = s.styles
    BY <1>2, <1>3, ResFacts DEF Alike
  <1> QED
    BY <1>1, <1>2, <1>4, <1>5 DEF Alike, h

\* Writing, without a call, that changes the styles too.
LEMMA DoesLast ==
  ASSUME IInv, calls # <<>>, Head(calls).k \notin {"begin", "end", "title"},
         NEW r \in Rends, Keeping(r), Does(r, <<>>), StylesOK'
  PROVE  IInv'
  <1> DEFINE cs == <<>>
  <1>1. cs \in Seq(CallToks(Here)) /\ DOMAIN cs = {}
    BY NoneFacts
  <1>2. Does(r, cs)
    OBVIOUS
  <1> HIDE DEF cs
  <1> QED
    BY <1>1, <1>2, DoesKeep DEF Keeping

LEMMA PendingLast ==
  ASSUME IInv, calls # <<>>, NEW r, Does(r, <<>>), NEW k
  PROVE  /\ Pending(k)' <=> Has(Tail(calls), k)
         /\ Pending(k) <=> Head(calls).k = k \/ Has(Tail(calls), k)
  <1> DEFINE cs == <<>>
  <1>1. cs \in Seq(CallToks(Here)) /\ ~Has(cs, k)
    BY NoneFacts
  <1>2. Does(r, cs)
    OBVIOUS
  <1> HIDE DEF cs
  <1> QED
    BY <1>1, <1>2, DoesPending DEF IInv

LEMMA EndsTextWell ==
  ASSUME IInv, EndsText, Contains(rend.styles, "big")
  PROVE  IInv'
  <1>1. /\ calls # <<>> /\ Head(calls).k \in {"endstyle"}
        /\ rend \in Rends /\ rend.err = "" /\ \A i \in DOMAIN rend.lits : Len(rend.lits[i]) = 3
    BY CallFacts DEF EndsText, Cl
  <1> DEFINE s == EndStyle(rend, "big")
             n == First(rend, "big")
             r == ClearStyleBarrier(s)
  <1>2. Does(r, <<>>)
    BY DEF EndsText
  <1>3. ~Substitutes => ~Has(Tail(calls), "endstyle") /\ ~Has(Tail(calls), "endlink")
    BY <1>1, NoneLeft DEF Before, Links
  <1>4. ~Substitutes =>
          Pending("endstyle") /\ ~Pending("endlink") /\ ~Pending("endstyle")' /\ ~Pending("endlink")'
    BY <1>1, <1>2, <1>3, PendingLast
  <1>5. "big" \in Fonts
    BY DEF Fonts
  <1>6. /\ s \in Rends /\ s.styles = Rest(rend.styles, n) /\ n \in 1 .. Len(rend.styles)
        /\ s.stack = rend.stack /\ s.barrier = rend.barrier /\ s.lits = rend.lits /\ s.err = rend.err
    BY <1>1, <1>5, EndStyleFacts
  <1>7. rend.styles[n] = "big"
    BY <1>1, <1>5, FirstFacts
  <1> HIDE DEF s, n
  <1>8. /\ r \in Rends /\ r.styles = s.styles /\ r.stack = s.stack /\ r.barrier = Front(s.barrier)
        /\ r.lits = s.lits /\ r.err = s.err
    BY <1>6, BarrierFacts
  <1> HIDE DEF r
  <1>9. StylesOK'
    <2>s. SUFFICES ASSUME ~Substitutes PROVE StylesHold'
      <3>1. Substitutes' = Substitutes
        BY <1>2, SameInput DEF Does
      <3> QED
        BY <3>1 DEF StylesOK
    <2>h. /\ Len(rend.barrier) = 1
          /\ \A i, j \in DOMAIN rend.styles : rend.styles[i] = rend.styles[j] => i = j
      BY <2>s, <1>4 DEF IInv, StylesOK, StylesHold
    <2>1. rend' = r
      BY <1>2 DEF Does
    <2> DEFINE o == rend.styles
               w == Rest(o, n)
    <2>2. o \in Seq(Fonts) /\ Len(o) \in Nat /\ DOMAIN o = 1 .. Len(o) /\ n \in 0 .. Len(o)
      <3>1. o \in Seq(Fonts) /\ n \in 1 .. Len(o)
        BY <1>1, <1>6, StylesType
      <3> HIDE DEF o
      <3> QED
        BY <3>1
    <2>3. w \in Seq(Fonts) /\ Len(w) = Len(o) - n /\ \A i \in 1 .. Len(o) - n : w[i] = o[n + i]
      BY <2>2, RestFacts
    <2>4. Len(r.barrier) = 0
      <3>1. rend.barrier \in Seq(Seq(Fonts))
        BY <1>1, StylesType
      <3>3. rend.barrier # <<>>
        BY <2>h, LenNone
      <3>2. Len(Front(rend.barrier)) = Len(rend.barrier) - 1
        BY <3>1, <3>3, FrontType
      <3> QED
        BY <2>h, <1>6, <1>8, <3>2
    <2>5. r.styles = w
      BY <1>6, <1>8
    <2> HIDE DEF w
    <2>6. DOMAIN w = 1 .. Len(o) - n
      BY <2>3
    <2>7. \A i \in 1 .. Len(o) - n : n + i \in DOMAIN o /\ n + i # n
      BY <2>2
    <2>8. \A i, j \in DOMAIN w : w[i] = w[j] => i = j
      <3>1. SUFFICES ASSUME NEW i \in DOMAIN w, NEW j \in DOMAIN w, w[i] = w[j] PROVE i = j
        OBVIOUS
      <3>2. n + i = n + j
        BY <2>h, <2>3, <2>6, <2>7, <3>1
      <3> QED
        BY <2>2, <2>6, <3>2
    <2>9. ~Contains(w, "big")
      <3>1. SUFFICES ASSUME NEW i \in 1 .. Len(w) PROVE w[i] # "big"
        BY DEF Contains
      <3>2. w[i] = o[n + i] /\ n + i \in DOMAIN o /\ n + i # n /\ n \in DOMAIN o
        BY <1>6, <2>2, <2>3, <2>7, <3>1
      <3> QED
        BY <2>h, <1>7, <3>2
    <2> QED
      BY <2>s, <1>4, <2>1, <2>4, <2>5, <2>8, <2>9 DEF StylesHold
  <1>10. Keeping(r)
    BY <1>1, <1>6, <1>8 DEF Keeping
  <1> QED
    BY <1>1, <1>2, <1>8, <1>9, <1>10, DoesLast

LEMMA EndsTextKeeps == ASSUME IInv, EndsText PROVE IInv'
  <1>1. CASE Contains(rend.styles, "big")
    BY <1>1, EndsTextWell
  <1>2. CASE ~Contains(rend.styles, "big")
    <2>1. calls # <<>> /\ Head(calls).k \in {"endstyle"}
      BY CallFacts DEF EndsText, Cl
    <2>2. Does(Fail(rend, "IndexError"), <<>>)
      BY <1>2 DEF EndsText
    <2>3. Substitutes
      <3>1. Pending("endstyle")
        <4>1. calls \in Seq(CallToks(Here))
          BY DEF IInv, TypeOK
        <4>2. 1 \in DOMAIN calls /\ Head(calls) = calls[1]
          BY <2>1, <4>1, HeadIsFirst
        <4> QED
          BY <2>1, <4>2 DEF Pending, Has
      <3> QED
        BY <1>2, <3>1 DEF IInv, StylesOK, StylesHold
    <2>4. "IndexError" \in Substituting
      BY DEF Substituting
    <2> QED
      BY <2>1, <2>2, <2>3, <2>4, FailKeeps
  <1> QED
    BY <1>1, <1>2

LEMMA EndsLinkKeeps == ASSUME IInv, EndsLink PROVE IInv'
  <1>1. /\ calls # <<>> /\ Head(calls).k \in {"endlink"}
        /\ rend \in Rends /\ rend.err = "" /\ \A i \in DOMAIN rend.lits : Len(rend.lits[i]) = 3
    BY CallFacts DEF EndsLink, Cl
  <1> DEFINE c == CloseInline(rend, "a")
             d == [c EXCEPT !.res = rend.res]
             s == IF rend.mode.links THEN c ELSE d
             r == ClearStyleBarrier(s)
  <1>2. Does(r, <<>>)
    BY DEF EndsLink
  <1>3. "a" \in Strings
    BY DEF Strings
  <1>4. /\ c \in Rends /\ c.stack = rend.stack /\ c.styles = rend.styles /\ c.barrier = rend.barrier
        /\ c.lits = rend.lits /\ c.err = rend.err
    BY <1>1, <1>3, InlineFacts
  <1> HIDE DEF c
  <1>5. d \in Rends /\ Alike(d, c)
    BY <1>1, <1>4, StylesType, ResFacts
  <1> HIDE DEF d
  <1>6. /\ s \in Rends /\ s.stack = rend.stack /\ s.styles = rend.styles /\ s.barrier = rend.barrier
        /\ s.lits = rend.lits /\ s.err = rend.err
    BY <1>4, <1>5 DEF Alike
  <1> HIDE DEF s
  <1>7. /\ r \in Rends /\ r.styles = s.styles /\ r.stack = s.stack /\ r.barrier = Front(s.barrier)
        /\ r.lits = s.lits /\ r.err = s.err
    BY <1>6, BarrierFacts
  <1> HIDE DEF r
  <1>8. ~Has(Tail(calls), "endlink")
    BY <1>1, NoneLeft DEF Before, Links
  <1>9. /\ Pending("endlink") /\ ~Pending("endlink")' /\ (Pending("endstyle") <=> Pending("endstyle")')
    BY <1>1, <1>2, <1>8, PendingLast
  <1>10. StylesOK'
    <2>s. SUFFICES ASSUME ~Substitutes PROVE StylesHold'
      <3>1. Substitutes' = Substitutes
        BY <1>2, SameInput DEF Does
      <3> QED
        BY <3>1 DEF StylesOK
    <2>1. rend' = r
      BY <1>2 DEF Does
    <2> DEFINE b == rend.barrier
               f == Front(b)
    <2>2. Len(b) = (IF Pending("endstyle") THEN 1 ELSE 0) + 1 /\ b \in Seq(Seq(Fonts))
      BY <2>s, <1>1, <1>9, StylesType DEF IInv, StylesOK, StylesHold
    <2>3. b # <<>> /\ Len(b) \in Nat
      BY <2>2, LenNone
    <2> HIDE DEF b
    <2>4. f \in Seq(Seq(Fonts)) /\ Len(f) = Len(b) - 1 /\ \A i \in 1 .. Len(b) - 1 : f[i] = b[i]
      <3>1. f = SubSeq(b, 1, Len(b) - 1) /\ Len(b) - 1 \in 0 .. Len(b)
        BY <2>2, <2>3 DEF Front
      <3> QED
        BY <2>2, <3>1, RestFacts
    <2>5. \A m \in DOMAIN f : m \in DOMAIN b /\ f[m] = b[m]
      <3>2. DOMAIN f = 1 .. Len(f) /\ DOMAIN b = 1 .. Len(b)
        BY <2>2, <2>4, DomainFacts, Zenon
      <3>1. DOMAIN f = 1 .. Len(b) - 1 /\ DOMAIN b = 1 .. Len(b)
        BY <2>4, <3>2
      <3> QED
        BY <2>3, <2>4, <3>1
    <2>6. Len(f) = (IF Pending("endstyle") THEN 1 ELSE 0)
      BY <2>2, <2>4
    <2>7. r.barrier = f /\ r.styles = rend.styles
      BY <1>6, <1>7 DEF b
    <2> HIDE DEF f
    <2> QED
      BY <2>s, <1>9, <2>1, <2>5, <2>6, <2>7 DEF IInv, StylesOK, StylesHold, b
  <1>11. Keeping(r)
    BY <1>1, <1>6, <1>7 DEF Keeping
  <1> QED
    BY <1>1, <1>2, <1>7, <1>10, <1>11, DoesLast

-----------------------------------------------------------------------------
(* [[...]].                                                                *)

LEMMA CutFacts ==
  ASSUME NEW s \in Seq(Strings), NEW i \in 1 .. Len(s)
  PROVE  SubSeq(s, 1, i - 1) \in Seq(Strings) /\ Rest(s, i) \in Seq(Strings)
  <1>1. i - 1 \in 0 .. Len(s) /\ i \in 0 .. Len(s)
    OBVIOUS
  <1> QED
    BY <1>1, RestFacts

LEMMA AppendFacts ==
  ASSUME NEW S, NEW s \in Seq(S), NEW x \in S
  PROVE  /\ Append(s, x) \in Seq(S) /\ Len(Append(s, x)) = Len(s) + 1
         /\ \A m \in DOMAIN Append(s, x) : (m \in DOMAIN s /\ Append(s, x)[m] = s[m]) \/ Append(s, x)[m] = x
  OBVIOUS

LEMMA NoneBefore ==
  ASSUME NEW s \in Seq(Strings), NEW i \in 1 .. Len(s)
  PROVE  /\ SubSeq(s, 1, i - 1) = <<>> => i = 1
         /\ Rest(s, i) = <<>> => i = Len(s)
  <1>1. i - 1 \in 0 .. Len(s) /\ i \in 0 .. Len(s) /\ Len(s) \in Nat
    OBVIOUS
  <1>2. Len(Rest(s, i)) = Len(s) - i
    BY <1>1, RestFacts
  <1>3. Len(SubSeq(s, 1, i - 1)) = i - 1
    BY <1>1, RestFacts
  <1>4. Len(<<>>) = 0
    OBVIOUS
  <1>5. SubSeq(s, 1, i - 1) = <<>> => i - 1 = 0
    BY <1>3, <1>4
  <1>6. Rest(s, i) = <<>> => Len(s) - i = 0
    BY <1>2, <1>4
  <1> QED
    BY <1>1, <1>5, <1>6

\* A link without a text has not much of a link.
LEMMA SplitLinkFacts ==
  ASSUME NEW r \in Rends, NEW s \in Seq(Strings)
  PROVE  /\ SplitLink(r, s).text \in Seq(Strings) /\ SplitLink(r, s).link \in Seq(Strings)
         /\ SplitLink(r, s).text = <<>> => Len(s) <= 1
  <1> DEFINE bar == {i \in DOMAIN s : s[i] = "|"}
             gap == {i \in DOMAIN s : s[i] \in Spaces}
             text == IF bar # {} THEN SubSeq(s, 1, Min(bar) - 1)
                     ELSE IF gap # {} THEN SubSeq(s, 1, Max(gap) - 1) ELSE <<>>
             link == IF bar # {} THEN Rest(s, Min(bar))
                     ELSE IF gap # {} THEN Rest(s, Max(gap)) ELSE s
             KnownText(l) == {p[1] : p \in {q \in r.known : q[2] = l}}
             KnownLink(t) == {p[2] : p \in {q \in r.known : q[1] = t}}
             S == Seq(Strings)
  <1>1. DOMAIN s = 1 .. Len(s) /\ Len(s) \in Nat
    OBVIOUS
  <1>2. bar \subseteq 1 .. Len(s) /\ gap \subseteq 1 .. Len(s)
    BY <1>1
  <1>3. r.known \subseteq (S \ {<<>>}) \X S
    BY DEF Rends
  <1>4. SplitLink(r, s) =
          CASE bar = {} /\ KnownLink(s) # {} -> [text |-> s, link |-> CHOOSE l \in KnownLink(s) : TRUE]
            [] bar # {} /\ text = <<>> /\ KnownText(link) # {} ->
                 [text |-> CHOOSE t \in KnownText(link) : TRUE, link |-> link]
            [] bar # {} /\ link = <<>> /\ KnownLink(text) # {} ->
                 [text |-> text, link |-> CHOOSE l \in KnownLink(text) : TRUE]
            [] OTHER -> [text |-> IF text = <<>> THEN link ELSE text, link |-> link]
    BY Zenon DEF SplitLink
  <1> HIDE DEF bar, gap
  <1>5. s \in S /\ <<>> \in S
    BY NoneFacts
  <1>6. ASSUME bar # {} PROVE Min(bar) \in 1 .. Len(s)
    <2>1. bar \subseteq Nat
      BY <1>2
    <2>2. Min(bar) \in bar
      BY <1>6, <2>1, MinFacts
    <2> QED
      BY <1>2, <2>2
  <1>7. ASSUME gap # {} PROVE Max(gap) \in 1 .. Len(s)
    <2>1. gap \subseteq Nat /\ \A x \in gap : x <= Len(s)
      BY <1>1, <1>2
    <2>2. Max(gap) \in gap
      BY <1>1, <1>7, <2>1, MaxFacts
    <2> QED
      BY <1>2, <2>2
  <1>8. text \in S /\ link \in S
    BY <1>5, <1>6, <1>7, CutFacts
  <1>14. ASSUME bar # {} PROVE text = <<>> /\ link = <<>> => Len(s) <= 1
    <2>1. Min(bar) \in 1 .. Len(s)
      BY <1>6, <1>14
    <2>2. /\ SubSeq(s, 1, Min(bar) - 1) = <<>> => Min(bar) = 1
          /\ Rest(s, Min(bar)) = <<>> => Min(bar) = Len(s)
      BY <2>1, NoneBefore
    <2> QED
      BY <1>1, <1>14, <2>2
  <1>15. ASSUME bar = {} PROVE text = <<>> /\ link = <<>> => Len(s) <= 1
    <2>1. CASE gap # {}
      <3>1. Max(gap) \in 1 .. Len(s)
        BY <1>7, <2>1
      <3>2. /\ SubSeq(s, 1, Max(gap) - 1) = <<>> => Max(gap) = 1
            /\ Rest(s, Max(gap)) = <<>> => Max(gap) = Len(s)
        BY <3>1, NoneBefore
      <3> QED
        BY <1>1, <1>15, <2>1, <3>2
    <2>2. CASE gap = {}
      BY <1>15, <2>2
    <2> QED
      BY <2>1, <2>2
  <1>16. text = <<>> /\ link = <<>> => Len(s) <= 1
    BY <1>14, <1>15
  <1>17. s = <<>> => Len(s) <= 1
    OBVIOUS
  <1> HIDE DEF S
  <1>9. \A l : KnownText(l) \subseteq S \ {<<>>} /\ KnownLink(l) \subseteq S
    BY <1>3
  <1> HIDE DEF text, link, KnownText, KnownLink
  <1>10. \A l : /\ KnownText(l) # {} => (CHOOSE t \in KnownText(l) : TRUE) \in S \ {<<>>}
                /\ KnownLink(l) # {} => (CHOOSE t \in KnownLink(l) : TRUE) \in S
    BY <1>9
  <1> DEFINE X == SplitLink(r, s)
             k1 == CHOOSE l \in KnownLink(s) : TRUE
             k2 == CHOOSE t \in KnownText(link) : TRUE
             k3 == CHOOSE l \in KnownLink(text) : TRUE
             t4 == IF text = <<>> THEN link ELSE text
  <1>12. \/ KnownLink(s) # {} /\ X = [text |-> s, link |-> k1]
         \/ KnownText(link) # {} /\ X = [text |-> k2, link |-> link]
         \/ KnownLink(text) # {} /\ X = [text |-> text, link |-> k3] /\ link = <<>>
         \/ X = [text |-> t4, link |-> link]
    BY <1>4
  <1>13. /\ KnownLink(s) # {} => k1 \in S
         /\ KnownText(link) # {} => k2 \in S \ {<<>>}
         /\ KnownLink(text) # {} => k3 \in S
         /\ t4 \in S
         /\ t4 = <<>> => text = <<>> /\ link = <<>>
    BY <1>8, <1>10
  <1> HIDE DEF X, k1, k2, k3, t4
  <1>11. X.text \in S /\ X.link \in S
    BY <1>5, <1>8, <1>12, <1>13
  <1>18. X.text = <<>> => s = <<>> \/ (text = <<>> /\ link = <<>>)
    BY <1>12, <1>13
  <1> QED
    BY <1>11, <1>16, <1>17, <1>18 DEF S, X

\* What a link starts with.
LinkStart(r, p) ==
  LET told == IF p.text # p.link /\ p.link # <<>>
              THEN [r EXCEPT !.known = @ \cup {<<p.text, p.link>>}] ELSE r
  IN IF r.mode.links THEN OpenInline(told, "a") ELSE [told EXCEPT !.floor = Len(r.styles)]
LEMMA LinkStartFacts ==
  ASSUME NEW r \in Rends, NEW p, p.text \in Seq(Strings), p.text # <<>>, p.link \in Seq(Strings)
  PROVE  LET q == LinkStart(r, p)
         IN /\ q \in Rends /\ q.stack = r.stack /\ q.styles = r.styles /\ q.barrier = r.barrier
            /\ q.lits = r.lits /\ q.err = r.err /\ q.leak = r.leak /\ q.blocks = r.blocks
            /\ q.title = r.title /\ q.mode = r.mode /\ q.floor = Len(r.styles)
            /\ q.res = IF r.mode.links THEN Append(r.res, <<"+", "a">>) ELSE r.res
  <1> DEFINE k == r.known \cup {<<p.text, p.link>>}
             t == [r EXCEPT !.known = k]
             told == IF p.text # p.link /\ p.link # <<>> THEN t ELSE r
             o == OpenInline(told, "a")
             n == Len(r.styles)
             f == [told EXCEPT !.floor = n]
  <1>1. k \in SUBSET ((Seq(Strings) \ {<<>>}) \X Seq(Strings))
    BY DEF Rends
  <1>2. told = IF p.text # p.link /\ p.link # <<>> THEN [r EXCEPT !.known = @ \cup {<<p.text, p.link>>}] ELSE r
    OBVIOUS
  <1>3. LinkStart(r, p) = IF r.mode.links THEN o ELSE f
    BY <1>2 DEF LinkStart
  <1> HIDE DEF k
  <1>4. t \in Rends /\ Alike(t, r) /\ t.res = r.res
    BY <1>1 DEF Rends, Alike
  <1> HIDE DEF t
  <1>5. told \in Rends /\ Alike(told, r) /\ told.res = r.res
    BY <1>4, AlikeFacts
  <1> HIDE DEF told
  <1>6. n \in Nat /\ "a" \in Strings
    <2>1. "a" \in Strings
      BY DEF Strings
    <2>2. r.styles \in Seq(Fonts)
      BY StylesType
    <2> QED
      BY <2>1, <2>2
  <1>7. /\ o \in Rends /\ o.stack = told.stack /\ o.styles = told.styles /\ o.barrier = told.barrier
        /\ o.lits = told.lits /\ o.err = told.err /\ o.leak = told.leak /\ o.blocks = told.blocks
        /\ o.title = told.title /\ o.mode = told.mode /\ o.floor = Len(told.styles)
        /\ o.res = Append(told.res, <<"+", "a">>)
    BY <1>5, <1>6, InlineFacts
  <1> HIDE DEF o, n
  <1>8. /\ f \in Rends /\ f.stack = told.stack /\ f.styles = told.styles /\ f.barrier = told.barrier
        /\ f.lits = told.lits /\ f.err = told.err /\ f.leak = told.leak /\ f.blocks = told.blocks
        /\ f.title = told.title /\ f.mode = told.mode /\ f.floor = n /\ f.res = told.res
    BY <1>5, <1>6 DEF Rends
  <1> HIDE DEF f
  <1>9. CASE r.mode.links
    BY <1>3, <1>5, <1>7, <1>9 DEF Alike
  <1>10. CASE ~r.mode.links
    BY <1>3, <1>5, <1>8, <1>10 DEF Alike, n
  <1> QED
    BY <1>9, <1>10

LEMMA BrLinkKeeps == ASSUME IInv, BrLink PROVE IInv'
  <1>1. /\ Calling({"[["}) /\ calls # <<>> /\ Cl = Head(calls) /\ Cl.k \in {"[["} /\ Cl.txt \in Seq(Strings)
        /\ rend \in Rends /\ rend.err = "" /\ \A i \in DOMAIN rend.lits : Len(rend.lits[i]) = 3
    BY CallFacts DEF BrLink
  <1> DEFINE p == SplitLink(rend, Cl.txt)
             r1 == Put(rend, "[[")
             t1 == InnerText("text", Cl.txt)
             u1 == Text("plain", <<"]]">>)
             r2 == Plain(rend, p.text)
             s == LinkStart(rend, p)
             r3 == SetStyleBarrier(s)
             t3 == InnerText("ltext", p.text)
             u3 == Text("endlink", <<>>)
  <1>2. \/ p.text = <<>> /\ Does(r1, <<t1, u1>>)
        \/ Does(r2, <<>>)
        \/ p.text # <<>> /\ Does(r3, Two(t3, u3))
    BY Zenon DEF BrLink, LinkStart, Two
  <1>3. /\ p.text \in Seq(Strings) /\ p.link \in Seq(Strings)
        /\ p.text = <<>> => Len(Cl.txt) <= 1
    BY <1>1, SplitLinkFacts
  <1>d. SubsOK /\ Cl.lvl \in Nat /\ (~Substitutes => Cl.lvl <= 1)
    <2>1. Calling({"[["}) /\ IInv
      BY DEF BrLink
    <2>2. Cl.lvl \in Nat /\ (~Substitutes => Shallow(Cl)) /\ Cl.k = "[["
      BY <2>1, <1>1, CallFacts
    <2> QED
      BY <2>1, <2>2 DEF IInv, Shallow
  <1> HIDE DEF p
  <1>4. Head(calls).k \in InKinds
    BY <1>1 DEF InKinds
  <1>5. Mark(Head(calls))[1] = "in"
    BY <1>4, InHead
  <1>6. ASSUME NEW d, Before(Head(calls), d)
        PROVE  /\ d.k \notin Links
               /\ d.k = "endstyle" /\ ~Substitutes => ~Contains(Cl.txt, "}}")
    BY <1>1, <1>6 DEF Before
  <1>7. ASSUME p.text = <<>>, Does(r1, <<t1, u1>>) PROVE IInv'
    <2>1. "[[" \in Strings /\ "]]" \in Strings
      BY DEF Strings, Opener
    <2>2. r1 \in Rends /\ Alike(r1, rend)
      BY <1>1, <2>1, PutFacts
    <2>3. t1 \in CallToks(Here)
      BY <1>1, <1>d, InnerFacts
    <2>4. t1.k = "text" /\ (~Substitutes => t1.txt = Cl.txt /\ t1.lvl \in {1, 2})
      BY <1>1, <1>d, InnerFacts
    <2>5. ~Substitutes => Shallow(t1)
      BY <1>3, <1>7, <2>4 DEF Shallow
    <2>6. u1 \in CallToks(Here) /\ u1.k = "plain"
      <3>1. <<"]]">> \in Seq(Strings)
        BY <2>1
      <3> QED
        BY <3>1, TextType
    <2> HIDE DEF t1, u1, r1
    <2>7. Follows(t1)
      <3>1. Mark(t1)[1] = "t" \/ Mark(t1)[1] = "in"
        BY <2>4, StillMark
      <3>2. \A d \in CallToks(Here) : Before(Head(calls), d) => Before(t1, d)
        BY <1>6, <2>4, <2>5 DEF Before
      <3> QED
        BY <1>5, <2>3, <2>4, <2>5, <3>1, <3>2 DEF Follows
    <2>8. Follows(u1)
      <3>1. Mark(u1)[1] = "t" \/ Mark(u1)[1] = "in"
        BY <2>6, StillMark
      <3>2. \A d \in CallToks(Here) : Before(Head(calls), d) => Before(u1, d)
        BY <1>6, <2>6 DEF Before
      <3>3. Shallow(u1)
        BY <2>6, ShallowFacts
      <3> QED
        BY <1>5, <2>6, <3>1, <3>2, <3>3 DEF Follows
    <2>9. Before(t1, u1)
      BY <2>4, <2>6 DEF Before, Links
    <2>10. Still(r1)
      BY <1>1, <2>2 DEF Still, Alike
    <2>11. Head(calls).k \notin {"begin", "end", "title", "endstyle", "endlink"}
      BY <1>1
    <2> QED
      BY <1>1, <1>7, <2>2, <2>7, <2>8, <2>9, <2>10, <2>11, DoesTwo
  <1>8. ASSUME Does(r2, <<>>) PROVE IInv'
    <2>1. r2 \in Rends /\ Alike(r2, rend)
      BY <1>1, <1>3, PlainFacts
    <2> HIDE DEF r2
    <2> QED
      BY <1>1, <1>8, <2>1, DoesWrite DEF Alike
  <1>9. ASSUME p.text # <<>>, Does(r3, Two(t3, u3)) PROVE IInv'
    <2>1. /\ s \in Rends /\ s.stack = rend.stack /\ s.styles = rend.styles /\ s.barrier = rend.barrier
          /\ s.lits = rend.lits /\ s.err = rend.err
      BY <1>1, <1>3, <1>9, LinkStartFacts
    <2> HIDE DEF s
    <2>2. /\ r3 \in Rends /\ r3.barrier = Append(s.barrier, s.styles) /\ r3.styles = s.styles /\ r3.stack = s.stack
          /\ r3.lits = s.lits /\ r3.err = s.err
      BY <2>1, BarrierFacts
    <2>3. t3 \in CallToks(Here)
      BY <1>3, <1>d, InnerFacts
    <2>4. t3.k = "ltext" /\ (~Substitutes => t3.lvl \in {1, 2})
      BY <1>3, <1>d, InnerFacts
    <2>5. u3 \in CallToks(Here) /\ u3.k = "endlink"
      BY TextType, Plainly DEF Links
    <2> HIDE DEF t3, u3, r3
    <2>6. ~Has(Tail(calls), "endlink")
      BY <1>1, <1>6, NoneLeft DEF Links
    <2>7. ~Pending("endlink") /\ Pending("endlink")' /\ (Pending("endstyle") <=> Pending("endstyle")')
      BY <1>1, <1>9, <2>3, <2>4, <2>5, <2>6, PendingTwo
    <2>8. StylesOK'
      <3>s. SUFFICES ASSUME ~Substitutes PROVE StylesHold'
        <4>1. Substitutes' = Substitutes
          BY <1>9, SameInput DEF Does
        <4> QED
          BY <4>1 DEF StylesOK
      <3>h. StylesHold
        BY <3>s DEF IInv, StylesOK
      <3>1. rend' = r3
        BY <1>9 DEF Does
      <3> DEFINE b == rend.barrier
                 o == rend.styles
                 a == Append(b, o)
      <3>2. Len(b) = (IF Pending("endstyle") THEN 1 ELSE 0)
        BY <2>7, <3>h DEF StylesHold
      <3>3. b \in Seq(Seq(Fonts)) /\ o \in Seq(Fonts)
        BY <1>1, StylesType
      <3> HIDE DEF b, o
      <3>4. Len(a) = Len(b) + 1 /\ \A m \in DOMAIN a : (m \in DOMAIN b /\ a[m] = b[m]) \/ a[m] = o
        BY <3>3, AppendFacts
      <3>5. r3.barrier = a /\ r3.styles = o
        BY <2>1, <2>2 DEF b, o
      <3> HIDE DEF a
      <3>6. o \in Seq(Fonts) => \A j \in DOMAIN o : Contains(o, o[j])
        BY DEF Contains
      <3>7. Len(a) = (IF Pending("endstyle") THEN 1 ELSE 0) + 1
        BY <3>2, <3>4
      <3> QED
        BY <2>7, <3>h, <3>1, <3>3, <3>4, <3>5, <3>6, <3>7 DEF StylesHold, b, o
    <2>9. Before(t3, u3)
      BY <2>4, <2>5 DEF Before
    <2>10. \A d \in CallToks(Here) : Before(Head(calls), d) => Before(t3, d) /\ Before(u3, d)
      BY <1>6, <2>4, <2>5 DEF Before
    <2>13. ~Substitutes => Shallow(t3) /\ Shallow(u3)
      <3>1. ~Substitutes => Shallow(t3)
        BY <2>4, ShallowFacts
      <3>2. Shallow(u3)
        BY <2>5, ShallowFacts
      <3> QED
        BY <3>1, <3>2
    <2>11. Keeping(r3)
      BY <1>1, <2>1, <2>2 DEF Keeping
    <2>12. /\ Head(calls).k \notin {"begin", "end", "title"} /\ t3.k \notin {"begin", "end", "title"}
           /\ u3.k \notin {"begin", "end", "title"}
      BY <1>1, <2>4, <2>5
    <2> QED
      BY <1>1, <1>5, <1>9, <2>2, <2>3, <2>5, <2>8, <2>9, <2>10, <2>11, <2>12, <2>13, DoesPair
  <1> QED
    BY <1>2, <1>7, <1>8, <1>9

-----------------------------------------------------------------------------
(* Lists that a macro writes.                                              *)

LEMMA GoesCons ==
  ASSUME NEW A, NEW t \in Tokens(A), NEW q \in Seq(Tokens(A)), NEW a \in Stacks, NEW b, NEW c \in Stacks,
         Step(a, Mark(t), c), Goes(c, q, b)
  PROVE  Goes(a, <<t>> \o q, b)
  <1>1. Goes(a, <<t>>, c)
    BY GoesOne
  <1>2. <<t>> \in Seq(Tokens(A))
    OBVIOUS
  <1> QED
    BY <1>1, <1>2, GoesJoin

LEMMA OneOf ==
  ASSUME NEW A, NEW a \in A
  PROVE  <<a>> \in Seq(A) /\ Len(<<a>>) = 1 /\ <<a>>[1] = a
  OBVIOUS

LEMMA JoinOnes ==
  ASSUME NEW A, NEW v \in Seq(A), NEW w \in Seq(A), Len(v) = 1, Len(w) = 1
  PROVE  v \o w \in Seq(A) /\ Len(v \o w) = 2 /\ (v \o w)[1] = v[1] /\ (v \o w)[2] = w[1]
  <1> DEFINE j == v \o w
  <1>1. /\ j \in Seq(A) /\ Len(j) = Len(v) + Len(w)
        /\ \A i \in 1 .. Len(v) : j[i] = v[i]
        /\ \A i \in 1 .. Len(w) : j[Len(v) + i] = w[i]
    BY JoinFacts
  <1> HIDE DEF j
  <1>2. 1 \in 1 .. Len(v) /\ 1 \in 1 .. Len(w) /\ Len(v) + 1 = 2
    OBVIOUS
  <1>3. Len(j) = 2 /\ j[1] = v[1] /\ j[2] = w[1]
    BY <1>1, <1>2
  <1> QED
    BY <1>1, <1>3 DEF j

LEMMA PairOf ==
  ASSUME NEW a, NEW b
  PROVE  Two(a, b) = <<a>> \o <<b>>
  <1> DEFINE A == {a, b}
             x == Two(a, b)
             y == <<a>> \o <<b>>
  <1>1. a \in A /\ b \in A
    OBVIOUS
  <1> HIDE DEF A
  <1>2. x \in Seq(A) /\ DOMAIN x = {1, 2} /\ x[1] = a /\ x[2] = b
    BY <1>1, TwoFacts
  <1>3. <<a>> \in Seq(A) /\ Len(<<a>>) = 1 /\ <<a>>[1] = a /\ <<b>> \in Seq(A) /\ Len(<<b>>) = 1 /\ <<b>>[1] = b
    BY <1>1, OneOf
  <1>4. y \in Seq(A) /\ Len(y) = 2 /\ y[1] = a /\ y[2] = b
    BY <1>3, JoinOnes
  <1> HIDE DEF x, y
  <1>5. DOMAIN y = {1, 2}
    BY <1>4
  <1>6. \A i \in DOMAIN x : x[i] = y[i]
    BY <1>2, <1>4
  <1>7. Len(x) = 2
    BY <1>2
  <1>8. \A i \in 1 .. Len(x) : x[i] = y[i]
    BY <1>2, <1>6, DomainFacts, Zenon
  <1>9. x = y
    BY <1>2, <1>4, <1>7, <1>8, SeqEqual
  <1> QED
    BY <1>9 DEF x, y

LEMMA Tuples ==
  ASSUME NEW a, NEW b, NEW c, NEW d, NEW e, NEW f, NEW g, NEW h
  PROVE  /\ <<a, b>> = <<a>> \o <<b>>
         /\ <<a, b, c>> = <<a>> \o <<b, c>>
         /\ <<a, b, c, d>> = <<a>> \o <<b, c, d>>
         /\ <<a, b, c, d, e>> = <<a>> \o <<b, c, d, e>>
         /\ <<a, b, c, d, e, f>> = <<a>> \o <<b, c, d, e, f>>
         /\ <<a, b, c, d, e, f, g>> = <<a>> \o <<b, c, d, e, f, g>>
         /\ <<a, b, c, d, e, f, g, h>> = <<a>> \o <<b, c, d, e, f, g, h>>
  <1>1. <<a, b>> = <<a>> \o <<b>>
    BY PairOf DEF Two
  <1>2. <<a, b, c>> = <<a>> \o <<b, c>>
    OBVIOUS
  <1>3. <<a, b, c, d>> = <<a>> \o <<b, c, d>>
    OBVIOUS
  <1>4. <<a, b, c, d, e>> = <<a>> \o <<b, c, d, e>>
    OBVIOUS
  <1>5. <<a, b, c, d, e, f>> = <<a>> \o <<b, c, d, e, f>>
    OBVIOUS
  <1>6. <<a, b, c, d, e, f, g>> = <<a>> \o <<b, c, d, e, f, g>>
    OBVIOUS
  <1>7. <<a, b, c, d, e, f, g, h>> = <<a>> \o <<b, c, d, e, f, g, h>>
    OBVIOUS
  <1> QED
    BY <1>1, <1>2, <1>3, <1>4, <1>5, <1>6, <1>7

\* Calls that begin and end elements, and those that go from one stack to another.
Elementary == {t \in CallToks(Here) : t.k \in {"begin", "end", "plain"}}
Passage(a, q, b) == q \in Seq(Elementary) /\ Goes(a, q, b)

LEMMA ElementaryFacts ==
  /\ Elementary \subseteq Tokens(Here) /\ Seq(Elementary) \subseteq Seq(Tokens(Here))
  /\ Seq(Elementary) \subseteq Seq(CallToks(Here))
  <1>1. Elementary \subseteq Tokens(Here) /\ Elementary \subseteq CallToks(Here)
    BY DEF Elementary, CallToks
  <1> QED
    BY <1>1, SeqMonotonic

LEMMA PassageCons ==
  ASSUME NEW t \in Elementary, NEW q, NEW a \in Stacks, NEW b, NEW c \in Stacks, Step(a, Mark(t), c), Passage(c, q, b)
  PROVE  Passage(a, <<t>> \o q, b)
  <1>1. q \in Seq(Elementary) /\ q \in Seq(Tokens(Here)) /\ t \in Tokens(Here) /\ Goes(c, q, b)
    BY ElementaryFacts DEF Passage
  <1>2. Goes(a, <<t>> \o q, b)
    BY <1>1, GoesCons
  <1>3. <<t>> \o q \in Seq(Elementary)
    BY <1>1, ConsFacts
  <1> QED
    BY <1>2, <1>3 DEF Passage

LEMMA PassageOne ==
  ASSUME NEW t \in Elementary, NEW a \in Stacks, NEW b \in Stacks, Step(a, Mark(t), b)
  PROVE  Passage(a, <<t>>, b)
  <1>1. t \in Tokens(Here)
    BY ElementaryFacts
  <1>2. Goes(a, <<t>>, b)
    BY <1>1, GoesOne
  <1> QED
    BY <1>2 DEF Passage

LEMMA PassageJoin ==
  ASSUME NEW p, NEW q, NEW a, NEW b, NEW c, Passage(a, p, c), Passage(c, q, b)
  PROVE  Passage(a, p \o q, b)
  <1>1. p \in Seq(Elementary) /\ q \in Seq(Elementary) /\ p \in Seq(Tokens(Here)) /\ q \in Seq(Tokens(Here))
        /\ Goes(a, p, c) /\ Goes(c, q, b)
    BY ElementaryFacts DEF Passage
  <1>2. p \o q \in Seq(Elementary)
    BY <1>1
  <1> QED
    BY <1>1, <1>2, GoesJoin DEF Passage

LEMMA ElementCalls ==
  ASSUME NEW e \in Elements
  PROVE  /\ Begin(e) \in Elementary /\ End(e) \in Elementary
         /\ \A a \in Stacks : Step(a, Mark(Begin(e)), <<e>> \o a) /\ Step(<<e>> \o a, Mark(End(e)), a)
                              /\ <<e>> \o a \in Stacks
  <1>1. /\ Begin(e) \in CallToks(Here) /\ End(e) \in CallToks(Here)
        /\ Mark(Begin(e)) = <<"+", e>> /\ Mark(End(e)) = <<"-", e>>
        /\ Begin(e).k = "begin" /\ End(e).k = "end"
    BY BeginEnd
  <1>2. e \in Strings
    BY Plainly
  <1> QED
    BY <1>1, <1>2, StepBegin, StepEnd DEF Elementary

ListCalls == <<Begin("ul"), Begin("li"), Text("plain", <<"page1">>), End("li"),
               Begin("li"), Text("plain", <<"page2">>), End("li"), End("ul")>>
LEMMA PlainCall ==
  ASSUME NEW w \in Strings
  PROVE  Text("plain", <<w>>) \in Elementary /\ \A a \in Stacks : Step(a, Mark(Text("plain", <<w>>)), a)
  <1>1. <<w>> \in Seq(Strings)
    OBVIOUS
  <1> DEFINE t == Text("plain", <<w>>)
  <1>2. t \in CallToks(Here) /\ t.k = "plain"
    BY <1>1, TextType
  <1> HIDE DEF t
  <1>3. Mark(t) = <<"t", "">>
    BY <1>2 DEF Mark
  <1>4. t \in Elementary
    BY <1>2 DEF Elementary
  <1>5. \A a \in Stacks : Step(a, Mark(t), a)
    <2>1. \A a \in Stacks : Step(a, <<"t", "">>, a)
      BY StepStill
    <2> QED
      BY <1>3, <2>1, Zenon
  <1>6. t \in Elementary /\ \A a \in Stacks : Step(a, Mark(t), a)
    BY <1>4, <1>5, Zenon
  <1> QED
    BY <1>6 DEF t

LEMMA ListPassage ==
  ASSUME NEW a \in Stacks
  PROVE  Passage(a, ListCalls, a)
  <1> DEFINE bu == Begin("ul")
             bl == Begin("li")
             el == End("li")
             eu == End("ul")
             p1 == Text("plain", <<"page1">>)
             p2 == Text("plain", <<"page2">>)
             u == <<"ul">> \o a
             l == <<"li">> \o u
  <1>1. "ul" \in Elements /\ "li" \in Elements /\ "page1" \in Strings /\ "page2" \in Strings
    BY DEF Elements, Strings
  <1>2. /\ bu \in Elementary /\ eu \in Elementary /\ u \in Stacks
        /\ Step(a, Mark(bu), u) /\ Step(u, Mark(eu), a)
    BY <1>1, ElementCalls
  <1> HIDE DEF u, bu, eu
  <1>3. /\ bl \in Elementary /\ el \in Elementary /\ l \in Stacks
        /\ Step(u, Mark(bl), l) /\ Step(l, Mark(el), u)
    BY <1>1, <1>2, ElementCalls
  <1> HIDE DEF l, bl, el
  <1>4. /\ p1 \in Elementary /\ p2 \in Elementary /\ Step(l, Mark(p1), l) /\ Step(l, Mark(p2), l)
    BY <1>1, <1>3, PlainCall
  <1> HIDE DEF p1, p2
  <1>5. Passage(u, <<eu>>, a)
    BY <1>2, PassageOne
  <1>6. Passage(l, <<el, eu>>, a)
    <2> DEFINE q == <<eu>>
    <2>1. <<el, eu>> = <<el>> \o q
      BY Tuples
    <2>2. Passage(u, q, a)
      BY <1>5
    <2> HIDE DEF q
    <2>3. Passage(l, <<el>> \o q, a)
      BY <1>2, <1>3, <1>4, <2>2, PassageCons
    <2> QED
      BY <2>1, <2>3
  <1>7. Passage(l, <<p2, el, eu>>, a)
    <2> DEFINE q == <<el, eu>>
    <2>1. <<p2, el, eu>> = <<p2>> \o q
      OBVIOUS
    <2>2. Passage(l, q, a)
      BY <1>6
    <2> HIDE DEF q
    <2>3. Passage(l, <<p2>> \o q, a)
      BY <1>2, <1>3, <1>4, <2>2, PassageCons
    <2> QED
      BY <2>1, <2>3
  <1>8. Passage(u, <<bl, p2, el, eu>>, a)
    <2> DEFINE q == <<p2, el, eu>>
    <2>1. <<bl, p2, el, eu>> = <<bl>> \o q
      OBVIOUS
    <2>2. Passage(l, q, a)
      BY <1>7
    <2> HIDE DEF q
    <2>3. Passage(u, <<bl>> \o q, a)
      BY <1>2, <1>3, <1>4, <2>2, PassageCons
    <2> QED
      BY <2>1, <2>3
  <1>9. Passage(l, <<el, bl, p2, el, eu>>, a)
    <2> DEFINE q == <<bl, p2, el, eu>>
    <2>1. <<el, bl, p2, el, eu>> = <<el>> \o q
      OBVIOUS
    <2>2. Passage(u, q, a)
      BY <1>8
    <2> HIDE DEF q
    <2>3. Passage(l, <<el>> \o q, a)
      BY <1>2, <1>3, <1>4, <2>2, PassageCons
    <2> QED
      BY <2>1, <2>3
  <1>10. Passage(l, <<p1, el, bl, p2, el, eu>>, a)
    <2> DEFINE q == <<el, bl, p2, el, eu>>
    <2>1. <<p1, el, bl, p2, el, eu>> = <<p1>> \o q
      OBVIOUS
    <2>2. Passage(l, q, a)
      BY <1>9
    <2> HIDE DEF q
    <2>3. Passage(l, <<p1>> \o q, a)
      BY <1>2, <1>3, <1>4, <2>2, PassageCons
    <2> QED
      BY <2>1, <2>3
  <1>11. Passage(u, <<bl, p1, el, bl, p2, el, eu>>, a)
    <2> DEFINE q == <<p1, el, bl, p2, el, eu>>
    <2>1. <<bl, p1, el, bl, p2, el, eu>> = <<bl>> \o q
      OBVIOUS
    <2>2. Passage(l, q, a)
      BY <1>10
    <2> HIDE DEF q
    <2>3. Passage(u, <<bl>> \o q, a)
      BY <1>2, <1>3, <1>4, <2>2, PassageCons
    <2> QED
      BY <2>1, <2>3
  <1>12. Passage(a, <<bu, bl, p1, el, bl, p2, el, eu>>, a)
    <2> DEFINE q == <<bl, p1, el, bl, p2, el, eu>>
    <2>1. <<bu, bl, p1, el, bl, p2, el, eu>> = <<bu>> \o q
      OBVIOUS
    <2>2. Passage(u, q, a)
      BY <1>11
    <2> HIDE DEF q
    <2>3. Passage(a, <<bu>> \o q, a)
      BY <1>2, <1>3, <1>4, <2>2, PassageCons
    <2> QED
      BY <2>1, <2>3
  <1> QED
    BY <1>12 DEF ListCalls, bu, bl, el, eu, p1, p2

LEMMA MacroPassage ==
  ASSUME NEW r \in Rends, r.stack # <<>>
  PROVE  Passage(r.stack, MacroList(r), r.stack)
  <1>1. r.stack \in Stacks /\ r.stack = <<Head(r.stack)>> \o Tail(r.stack) /\ Head(r.stack) = r.stack[1]
        /\ Tail(r.stack) \in Stacks
    <2>1. r.stack \in Seq(Strings)
      BY StylesType DEF Stacks
    <2> QED
      BY <2>1, HeadAndTail DEF Stacks
  <1>2. MacroList(r) = IF r.stack[1] = "p" THEN <<End("p")>> \o ListCalls \o <<Begin("p")>> ELSE ListCalls
    BY Zenon DEF MacroList, ListCalls
  <1>3. CASE r.stack[1] # "p"
    BY <1>1, <1>2, <1>3, ListPassage
  <1>4. CASE r.stack[1] = "p"
    <2> DEFINE a == Tail(r.stack)
    <2>1. "p" \in Elements
      BY DEF Elements
    <2>2. r.stack = <<"p">> \o a /\ a \in Stacks
      BY <1>1, <1>4
    <2> HIDE DEF a
    <2>3. Passage(<<"p">> \o a, <<End("p")>>, a) /\ Passage(a, <<Begin("p")>>, <<"p">> \o a)
      BY <2>1, <2>2, ElementCalls, PassageOne
    <2>4. Passage(a, ListCalls, a)
      BY <2>2, ListPassage
    <2>5. Passage(<<"p">> \o a, (<<End("p")>> \o ListCalls) \o <<Begin("p")>>, <<"p">> \o a)
      BY <2>3, <2>4, PassageJoin
    <2> QED
      BY <1>2, <1>4, <2>2, <2>5
  <1> QED
    BY <1>3, <1>4

LEMMA ListMacroKeeps == ASSUME IInv, ListMacro PROVE IInv'
  <1>1. /\ calls # <<>> /\ Cl = Head(calls) /\ Cl.k = "{{"
        /\ rend \in Rends /\ rend.err = "" /\ \A i \in DOMAIN rend.lits : Len(rend.lits[i]) = 3
    BY RunsFacts DEF ListMacro
  <1> DEFINE cs == MacroList(rend)
  <1>2. Does(rend, cs)
    BY DEF ListMacro
  <1>3. Head(calls).k \in InKinds /\ Head(calls).k \notin {"begin", "end", "title", "endstyle", "endlink"}
    BY <1>1 DEF InKinds
  <1>4. Mark(Head(calls))[1] = "in"
    BY <1>3, InHead
  <1>5. rend.stack # <<>> /\ Step(rend.stack, Mark(Head(calls)), rend.stack) /\ rend.stack \in Stacks
    BY <1>1, <1>3, <1>4, StillFirst, StylesType DEF IInv
  <1>6. Passage(rend.stack, cs, rend.stack)
    BY <1>1, <1>5, MacroPassage
  <1> HIDE DEF cs
  <1>7. cs \in Seq(Elementary) /\ cs \in Seq(CallToks(Here)) /\ Goes(rend.stack, cs, rend.stack)
    BY <1>6, ElementaryFacts DEF Passage
  <1>8. \A i \in DOMAIN cs : cs[i] \in CallToks(Here) /\ cs[i].k \in {"begin", "end", "plain"}
    <2>1. \A i \in DOMAIN cs : cs[i] \in Elementary
      BY <1>7
    <2> QED
      BY <2>1 DEF Elementary
  <1>9. TypeOK' /\ SubsOK' /\ HeaderOK' /\ DepthOK' /\ FailsAsKnown'
    <2>1. \A i \in DOMAIN cs : Shallow(cs[i])
      BY <1>8, ShallowFacts
    <2> QED
      BY <1>1, <1>2, <1>7, <2>1, DoesRest
  <1>10. StackOK'
    BY <1>1, <1>2, <1>5, <1>7, DoesStack DEF IInv
  <1>11. CallsOK'
    <2>1. \A i, j \in DOMAIN cs : j < i => Before(cs[j], cs[i])
      BY <1>8 DEF Before, Links
    <2>2. \A j \in DOMAIN cs, d \in CallToks(Here) : Before(Head(calls), d) => Before(cs[j], d)
      <3>1. \A j \in DOMAIN cs : cs[j].k # "title"
        BY <1>8
      <3>2. Head(calls).k = "{{"
        BY <1>1
      <3> QED
        BY <3>1, <3>2, BeforeMacro
    <2> QED
      BY <1>1, <1>2, <1>7, <2>1, <2>2, DoesCalls DEF IInv
  <1>12. StylesOK'
    <2>1. ~Has(cs, "endstyle") /\ ~Has(cs, "endlink")
      BY <1>8 DEF Has
    <2> QED
      BY <1>1, <1>2, <1>3, <1>7, <2>1, DoesStyles DEF IInv
  <1> QED
    BY <1>9, <1>10, <1>11, <1>12 DEF IInv

-----------------------------------------------------------------------------
(* Processing notes.                                                       *)

LEMMA OneCall ==
  ASSUME NEW t, t \in CallToks(Here)
  PROVE  <<t>> \in Seq(CallToks(Here)) /\ DOMAIN <<t>> = {1} /\ <<t>>[1] = t /\ \A k : Has(<<t>>, k) <=> t.k = k
  <1>1. <<t>> \in Seq(CallToks(Here)) /\ DOMAIN <<t>> = {1} /\ <<t>>[1] = t
    BY OneFacts
  <1>2. SUFFICES ASSUME NEW k PROVE Has(<<t>>, k) <=> t.k = k
    BY <1>1
  <1>3. Has(<<t>>, k) <=> \E i \in {1} : <<t>>[i].k = k
    BY <1>1 DEF Has
  <1> QED
    BY <1>1, <1>3

Spelt(r) == \A i \in DOMAIN r.lits : Len(r.lits[i]) = 3
LEMMA OneLong ==
  ASSUME NEW s \in Seq(Strings), Len(s) = 1
  PROVE  s[1] \in Strings
  <1>0. 0 # 1
    OBVIOUS
  <1>1. s # <<>>
    BY <1>0, LenNone, Zenon
  <1> QED
    BY <1>1, HeadAndTail

Spellings == {s \in Seq(Seq(Strings)) : \A i \in DOMAIN s : Len(s[i]) = 3}
LEMMA NewWord ==
  ASSUME NEW s \in Spellings, NEW w \in Seq(Strings), Len(w) = 3
  PROVE  Append(s, w) \in Spellings
  <1> DEFINE S == Seq(Strings)
             l == Append(s, w)
  <1>1. s \in Seq(S) /\ w \in S /\ \A i \in DOMAIN s : Len(s[i]) = 3
    BY DEF Spellings
  <1> HIDE DEF S
  <1>2. l \in Seq(S) /\ \A i \in DOMAIN l : (i \in DOMAIN s /\ l[i] = s[i]) \/ l[i] = w
    BY <1>1, AppendFacts
  <1> HIDE DEF l
  <1>3. \A i \in DOMAIN l : Len(l[i]) = 3
    BY <1>1, <1>2
  <1> USE DEF S
  <1>4. l \in Spellings
    BY <1>2, <1>3 DEF Spellings
  <1> QED
    BY <1>4 DEF l

Heeded(r, h, note) ==
  /\ h \in Rends /\ Spelt(h)
  /\ h.stack = r.stack /\ h.styles = r.styles /\ h.barrier = r.barrier
  /\ h.res = r.res /\ h.blocks = r.blocks /\ h.title = r.title /\ h.floor = r.floor
  /\ h.leak = r.leak /\ h.mode = r.mode
  /\ h.err = "" \/ (h.err = "AttributeError" /\ note.k = "unlit")
LEMMA HeedFacts ==
  ASSUME NEW r \in Rends, r.err = "", Spelt(r),
         NEW note, note.txt \in Seq(Strings), Apt(note), Understood(r, note)
  PROVE  Heeded(r, Heed(r, note), note)
  <1> DEFINE S == Seq(Strings)
             o == r.off \cup {note.txt[1]}
             l == Append(r.lits, note.txt)
  <1>0. r.lits \in Seq(S) /\ r.off \in SUBSET Strings
    BY DEF Rends
  <1>1. CASE note.k = "no"
    <2>1. Len(note.txt) = 1
      BY <1>1 DEF Apt
    <2>2. note.txt[1] \in Strings
      BY <2>1, OneLong
    <2>3. o \in SUBSET Strings
      BY <1>0, <2>2
    <2>4. Heed(r, note) = [r EXCEPT !.off = o]
      BY <1>1 DEF Heed, DisableStyle
    <2> HIDE DEF o
    <2> QED
      BY <2>3, <2>4 DEF Rends, Spelt, Heeded
  <1>2. CASE note.k = "yes"
    <2>1. Heed(r, note) = [r EXCEPT !.off = {}]
      BY <1>2 DEF Heed
    <2> QED
      BY <2>1 DEF Rends, Spelt, Heeded
  <1>3. CASE note.k = "lit"
    <2>1. Len(note.txt) = 3 /\ note.txt \in S
      BY <1>3 DEF Apt
    <2> DEFINE m == IF Contains(r.lits, note.txt) THEN r.lits ELSE l
    <2>2. Heed(r, note) = [r EXCEPT !.lits = m]
      BY <1>3 DEF Heed, AddStopword
    <2>3. r.lits \in Spellings
      BY <1>0 DEF Spelt, Spellings
    <2>4. l \in Spellings
      BY <2>1, <2>3, NewWord, Zenon
    <2>5. m \in Spellings
      BY <2>3, <2>4, Zenon
    <2>7. m \in Seq(S) /\ \A i \in DOMAIN m : Len(m[i]) = 3
      BY <2>5 DEF Spellings
    <2> HIDE DEF m
    <2> DEFINE h == [r EXCEPT !.lits = m]
    <2>6. /\ h \in Rends /\ h.lits = m /\ h.stack = r.stack /\ h.styles = r.styles /\ h.barrier = r.barrier
             /\ h.res = r.res /\ h.blocks = r.blocks /\ h.title = r.title /\ h.floor = r.floor
             /\ h.leak = r.leak /\ h.mode = r.mode /\ h.err = r.err
      BY <2>7 DEF Rends
    <2>8. Spelt(h)
      BY <2>6, <2>7 DEF Spelt
    <2> HIDE DEF h
    <2>9. Heed(r, note) = h
      BY <2>2 DEF h
    <2> QED
      BY <2>9, <2>6, <2>8 DEF Heeded
  <1>4. CASE note.k = "unlit"
    <2>1. Heed(r, note) = [r EXCEPT !.err = "AttributeError"]
      BY <1>4 DEF Heed, ClearStopword, Fail
    <2>2. "AttributeError" \in Errors
      BY DEF Errors
    <2> QED
      BY <1>4, <2>1, <2>2 DEF Rends, Spelt, Heeded
  <1>5. CASE note.k = "nosubs"
    <2>1. Heed(r, note) = [r EXCEPT !.lits = <<>>]
      BY <1>5 DEF Heed
    <2>2. <<>> \in Seq(S) /\ DOMAIN <<>> = {}
      BY NoneFacts
    <2> DEFINE n == <<>>
    <2>3. n \in Seq(S) /\ DOMAIN n = {} /\ Heed(r, note) = [r EXCEPT !.lits = n]
      BY <2>1, <2>2
    <2> HIDE DEF n
    <2>4. Spelt([r EXCEPT !.lits = n])
      BY <2>3 DEF Rends, Spelt, Heeded
    <2> QED
      BY <2>3, <2>4 DEF Rends, Heeded
  <1>6. CASE note.k \in {"sub", "unsub", "prewrap"}
    <2>1. Heed(r, note) = r
      BY <1>6 DEF Heed
    <2> QED
      BY <2>1 DEF Spelt, Heeded
  <1> QED
    BY <1>1, <1>2, <1>3, <1>4, <1>5, <1>6 DEF Understood

LEMMA NoteFacts ==
  ASSUME IInv, Calling({"notes"}), Cl.kid # <<>>
  PROVE  LET note == Head(Cl.kid)
         IN /\ note \in Here /\ note.txt \in Seq(Strings) /\ note.def \in Seq(Strings) /\ Apt(note)
            /\ note.k = "unlit" => NotesOf("unlit") # {}
            /\ note.k = "sub" => Substitutes
  <1>1. Cl \in CallToks(Here) /\ Cl.kid \in Seq(Here)
    BY CallFacts
  <1>2. Head(Cl.kid) \in Here
    BY <1>1, HeadAndTail
  <1>3. input \in Inputs /\ Sound(Here)
    BY HereFacts DEF IInv
  <1>4. \A t \in Here : t.k \in {"unlit", "sub"} => t \in Within(input.doc)
    BY <1>3, TitledFacts DEF Here, NoteKinds
  <1>5. Head(Cl.kid) \in Tokens(Here) /\ Apt(Head(Cl.kid))
    BY <1>2, <1>3, TokOf
  <1> QED
    BY <1>2, <1>4, <1>5 DEF Tokens, NotesOf, Substitutes

LEMMA ReplaceOne ==
  ASSUME NEW P, NEW s \in Seq(P), NEW p \in P
  PROVE  [i \in DOMAIN s |-> IF s[i][1] = p[1] THEN p ELSE s[i]] \in Seq(P)
  <1>1. DOMAIN s = 1 .. Len(s) /\ Len(s) \in Nat /\ \A i \in 1 .. Len(s) : s[i] \in P
    OBVIOUS
  <1> QED
    BY <1>1

LEMMA InsertOne ==
  ASSUME NEW P, NEW s \in Seq(P), NEW p \in P, NEW i \in 1 .. Len(s) + 1
  PROVE  InsertAt(s, i, p) \in Seq(P)
  <1>1. SubSeq(s, 1, i - 1) \in Seq(P) /\ SubSeq(s, i, Len(s)) \in Seq(P) /\ <<p>> \in Seq(P)
    OBVIOUS
  <1> QED
    BY <1>1 DEF InsertAt

LEMMA RemoveOne ==
  ASSUME NEW P, NEW s \in Seq(P), NEW i \in 1 .. Len(s)
  PROVE  RemoveAt(s, i) \in Seq(P)
  <1>1. SubSeq(s, 1, i - 1) \in Seq(P) /\ SubSeq(s, i + 1, Len(s)) \in Seq(P)
    OBVIOUS
  <1> QED
    BY <1>1 DEF RemoveAt

\* A note leaves things to replace only if there were some, or if it brings one.
LEMMA SubsAfterFacts ==
  ASSUME NEW s \in Seq(Strings \X Seq(Strings)), NEW note, note.txt \in Seq(Strings), note.def \in Seq(Strings),
         Apt(note), NEW u \in SubsAfter(s, note)
  PROVE  u \in Seq(Strings \X Seq(Strings)) /\ (u # <<>> => s # <<>> \/ note.k = "sub")
  <1> DEFINE P == Strings \X Seq(Strings)
             p == Sub(note)
             w == note.txt[1]
  <1>1. CASE note.k = "sub"
    <2>1. Len(note.txt) = 1
      BY <1>1 DEF Apt
    <2>2. w \in Strings
      BY <2>1, OneLong
    <2>3. p \in P
      BY <2>2 DEF Sub
    <2>4. u \in MakeSub(s, p)
      BY <1>1 DEF SubsAfter
    <2>5. s \in Seq(P)
      OBVIOUS
    <2> HIDE DEF P, p
    <2>6. u \in Seq(P)
      BY <2>3, <2>4, <2>5, ReplaceOne, InsertOne DEF MakeSub
    <2> QED
      BY <1>1, <2>6 DEF P
  <1>2. CASE note.k = "unsub"
    <2>1. u = DelSub(s, w)
      BY <1>2 DEF SubsAfter
    <2> DEFINE at == {i \in DOMAIN s : s[i][1] = w}
    <2>2. s \in Seq(P)
      OBVIOUS
    <2>3. DOMAIN s = 1 .. Len(s) /\ (s = <<>> => DOMAIN s = {})
      BY <2>2
    <2>4. u = IF at = {} THEN s ELSE RemoveAt(s, Min(at))
      BY <2>1 DEF DelSub
    <2>5. at \subseteq Nat /\ at \subseteq 1 .. Len(s) /\ (s = <<>> => at = {})
      BY <2>3
    <2> HIDE DEF at, P
    <2>6. at # {} => Min(at) \in 1 .. Len(s)
      BY <2>5, MinFacts
    <2>7. u \in Seq(P)
      BY <2>2, <2>4, <2>6, RemoveOne
    <2>8. u # <<>> => s # <<>>
      BY <2>4, <2>5
    <2> QED
      BY <2>7, <2>8 DEF P
  <1>3. CASE note.k = "nosubs"
    BY <1>3 DEF SubsAfter
  <1>4. CASE note.k \notin {"sub", "unsub", "nosubs"}
    BY <1>4 DEF SubsAfter
  <1> QED
    BY <1>1, <1>2, <1>3, <1>4

LEMMA OnNoteFacts ==
  ASSUME NEW A, NEW c \in CallToks(A), c.k = "notes", c.kid # <<>>
  PROVE  LET t == [c EXCEPT !.kid = Tail(@)]
         IN t \in CallToks(A) /\ t.k = "notes" /\ t.txt = c.txt
  <1> DEFINE q == Tail(c.kid)
             t == [c EXCEPT !.kid = q]
  <1>1. c \in Tokens(A) /\ c.kid \in Seq(A) /\ \A i \in DOMAIN c.kid : c.kid[i].k \in NoteKinds
    BY DEF CallToks, Tokens
  <1>2. q \in Seq(A)
    BY <1>1, HeadAndTail
  <1>3. \A i \in DOMAIN q : q[i].k \in NoteKinds
    <2>1. SUFFICES ASSUME NEW i \in DOMAIN q PROVE q[i].k \in NoteKinds
      OBVIOUS
    <2>2. i \in 1 .. Len(q) /\ DOMAIN c.kid = 1 .. Len(c.kid) /\ Len(c.kid) \in Nat
      BY <1>1, <1>2, DomainFacts
    <2>3. i + 1 \in 2 .. Len(c.kid) /\ q[i] = c.kid[i + 1]
      BY <1>1, <2>2, TailFacts
    <2>4. i + 1 \in DOMAIN c.kid
      BY <2>2, <2>3
    <2> QED
      BY <1>1, <2>3, <2>4
  <1>4. [c EXCEPT !.kid = Tail(@)] = t
    BY <1>1 DEF Tokens
  <1> HIDE DEF q
  <1>5. t \in Tokens(A) /\ t.k = "notes" /\ t.kid = q /\ t.txt = c.txt
    BY <1>1, <1>2 DEF Tokens
  <1> HIDE DEF t
  <1>6. t \in CallToks(A)
    BY <1>3, <1>5 DEF CallToks, CallKinds, Opener
  <1> QED
    BY <1>4, <1>5, <1>6

LEMMA PNoteHeeds ==
  ASSUME IInv, Calling({"notes"}), Cl.kid # <<>>, Understood(rend, Head(Cl.kid)),
         Turns(Heed(rend, Head(Cl.kid)), <<[Cl EXCEPT !.kid = Tail(@)]>>),
         subs' \in SubsAfter(subs, Head(Cl.kid))
  PROVE  IInv'
  <1>1. /\ calls # <<>> /\ Cl = Head(calls) /\ Cl \in CallToks(Here) /\ Cl.k \in {"notes"}
        /\ rend \in Rends /\ rend.err = "" /\ Spelt(rend)
    BY CallFacts DEF Spelt
  <1> DEFINE note == Head(Cl.kid)
             h == Heed(rend, note)
             t == [Cl EXCEPT !.kid = Tail(@)]
             cs == <<t>>
  <1>2. /\ note.txt \in Seq(Strings) /\ note.def \in Seq(Strings) /\ Apt(note)
        /\ note.k = "unlit" => NotesOf("unlit") # {}
        /\ note.k = "sub" => Substitutes
    BY NoteFacts
  <1>3. Turns(h, cs) /\ subs' \in SubsAfter(subs, note)
    OBVIOUS
  <1>4. Understood(rend, note)
    OBVIOUS
  <1>5. t \in CallToks(Here) /\ t.k = "notes" /\ t.txt = Cl.txt
    BY <1>1, OnNoteFacts
  <1> HIDE DEF t
  <1>6. cs \in Seq(CallToks(Here)) /\ DOMAIN cs = {1} /\ cs[1] = t /\ \A k : Has(cs, k) <=> t.k = k
    BY <1>5, OneCall
  <1> HIDE DEF cs, note
  <1>7. /\ h \in Rends /\ Spelt(h)
        /\ h.stack = rend.stack /\ h.styles = rend.styles /\ h.barrier = rend.barrier
        /\ h.err = "" \/ (h.err = "AttributeError" /\ note.k = "unlit")
    <2>1. Heeded(rend, h, note)
      BY <1>1, <1>2, <1>4, HeedFacts
    <2> QED
      BY <2>1 DEF Heeded
  <1> HIDE DEF h
  <1>8. Head(calls).k \notin {"begin", "end", "title", "endstyle", "endlink"} /\ Head(calls).k = "notes"
    BY <1>1
  <1>9. TypeOK' /\ HeaderOK'
    BY <1>1, <1>3, <1>6, <1>7, TurnType, TurnHeader DEF IInv, Spelt
  <1>10. StackOK'
    <2>1. Mark(t) = <<"t", "">>
      BY <1>5 DEF Mark
    <2>2. \A i \in DOMAIN cs : Mark(cs[i])[1] = "t"
      BY <1>6, <2>1, StepStill
    <2> QED
      BY <1>1, <1>3, <1>6, <1>7, <1>8, <2>2, TurnStill DEF IInv
  <1>11. CallsOK'
    <2>1. \A i, j \in DOMAIN cs : j < i => Before(cs[j], cs[i])
      <3>1. \A i, j \in DOMAIN cs : ~(j < i)
        BY <1>6, NumberFacts, Zenon
      <3> QED
        BY <3>1
    <2>2. \A j \in DOMAIN cs, d \in CallToks(Here) : Before(Head(calls), d) => Before(cs[j], d)
      BY <1>1, <1>5, <1>6, <1>8 DEF Before
    <2> QED
      BY <1>1, <1>3, <1>6, <2>1, <2>2, TurnCalls DEF IInv
  <1>12. StylesOK'
    BY <1>1, <1>3, <1>5, <1>6, <1>7, <1>8, TurnStyles DEF IInv
  <1>14. rend' = h /\ input' = input
    BY <1>3 DEF Turns
  <1>13. FailsAsKnown'
    BY <1>2, <1>7, <1>14, SameInput DEF FailsAsKnown
  <1>15. DepthOK'
    <2>1. \A i \in DOMAIN cs : Shallow(cs[i])
      BY <1>5, <1>6, ShallowFacts
    <2> QED
      BY <1>1, <1>3, <1>6, <2>1, TurnDepth DEF IInv
  <1>16. SubsOK'
    BY <1>2, <1>3, <1>14, SubsAfterFacts, SameInput DEF IInv, SubsOK
  <1> QED
    BY <1>9, <1>10, <1>11, <1>12, <1>13, <1>15, <1>16 DEF IInv

LEMMA UntitledCons ==
  ASSUME NEW t \in Toks(Within(input.doc)), t.k # "header1", NEW q, Untitled(q)
  PROVE  Untitled(<<t>> \o q)
  <1> DEFINE S == Toks(Within(input.doc))
             p == <<t>> \o q
  <1>1. q \in Seq(S) /\ \A i \in DOMAIN q : q[i].k # "header1"
    BY DEF Untitled
  <1>2. t \in S
    OBVIOUS
  <1> HIDE DEF S
  <1>3. /\ p \in Seq(S) /\ Len(p) = Len(q) + 1 /\ p[1] = t
        /\ \A k \in 1 .. Len(q) : p[k + 1] = q[k]
    BY <1>1, <1>2, ConsFacts
  <1> HIDE DEF p
  <1>4. \A i \in DOMAIN p : p[i].k # "header1"
    <2>1. SUFFICES ASSUME NEW i \in DOMAIN p PROVE p[i].k # "header1"
      OBVIOUS
    <2>2. i \in 1 .. Len(q) + 1 /\ Len(q) \in Nat /\ DOMAIN q = 1 .. Len(q)
      BY <1>1, <1>3, DomainFacts
    <2>3. i = 1 \/ i - 1 \in 1 .. Len(q)
      BY <2>2
    <2>4. CASE i - 1 \in 1 .. Len(q)
      <3>1. (i - 1) + 1 = i
        BY <2>2
      <3>2. p[i] = q[i - 1]
        BY <1>3, <2>4, <3>1
      <3> QED
        BY <1>1, <2>2, <2>4, <3>2
    <2> QED
      BY <1>3, <2>3, <2>4
  <1>5. p \in Seq(Toks(Within(input.doc)))
    BY <1>3 DEF S
  <1>6. Untitled(p)
    BY <1>4, <1>5 DEF Untitled
  <1> QED
    BY <1>6 DEF p

LEMMA TailDomain ==
  ASSUME NEW A, NEW s \in Seq(A), s # <<>>
  PROVE  \A i \in DOMAIN Tail(s) : Tail(s)[i] = s[i + 1] /\ i + 1 \in DOMAIN s
  OBVIOUS

LEMMA TailCalls ==
  ASSUME TypeOK, CallsOK, calls # <<>>, calls' = Tail(calls), input' = input
  PROVE  CallsOK'
  <1> DEFINE q == Tail(calls)
  <1>1. calls \in Seq(CallToks(Here)) /\ q \in Seq(CallToks(Here))
    BY HeadAndTail DEF TypeOK
  <1>2. DOMAIN calls = 1 .. Len(calls) /\ Len(calls) \in Nat /\ DOMAIN q = 1 .. Len(q) /\ Len(q) \in Nat
    BY <1>1, DomainFacts
  <1>3. SUFFICES ASSUME NEW i \in DOMAIN q, NEW j \in DOMAIN q, j < i PROVE Before(q[j], q[i])
    <2>1. \A c, d : Before(c, d)' <=> Before(c, d)
      BY SameInput
    <2>2. \A i, j : Before(calls[j], calls[i])' <=> Before(q[j], q[i])
      BY <2>1 DEF Before
    <2> QED
      BY <2>2 DEF CallsOK
  <1>4. i + 1 \in 2 .. Len(calls) /\ q[i] = calls[i + 1] /\ j + 1 \in 2 .. Len(calls) /\ q[j] = calls[j + 1]
    BY <1>1, <1>2, TailFacts
  <1>5. i + 1 \in DOMAIN calls /\ j + 1 \in DOMAIN calls /\ j + 1 < i + 1
    BY <1>2, <1>3, <1>4
  <1>6. Before(calls[j + 1], calls[i + 1])
    BY <1>5 DEF CallsOK
  <1> QED
    BY <1>4, <1>6

LEMMA ParaType ==
  ASSUME NEW A, NEW txt \in Seq(Strings)
  PROVE  /\ Text("para", txt) \in Toks(A) /\ Text("para", txt).k = "para"
         /\ Mark(Text("para", txt)) = <<"t", "">>
  <1>1. Text("para", txt) \in Toks(A) /\ Text("para", txt).k = "para"
    BY TextType
  <1> QED
    BY <1>1 DEF Mark

LEMMA PNoteDeclines ==
  ASSUME IInv, Calling({"notes"}), queue' = <<AsParagraph(Cl)>> \o queue, calls' = Tail(calls),
         UNCHANGED <<input, rend, subs, loop, done>>
  PROVE  IInv'
  <1> DEFINE p == AsParagraph(Cl)
             q == <<p>> \o queue
             W == Within(input.doc)
  <1>1. /\ calls # <<>> /\ Cl = Head(calls) /\ Cl \in CallToks(Here) /\ Cl.k \in {"notes"}
        /\ Cl.txt \in Seq(Strings) /\ ~loop.on
    BY CallFacts
  <1>2. p \in Toks(Here) /\ p \in Toks(W) /\ p.k = "para" /\ Mark(p) = <<"t", "">>
    BY <1>1, ParaType DEF AsParagraph
  <1>3. queue' = q /\ calls' = Tail(calls) /\ input' = input /\ rend' = rend /\ loop' = loop /\ done' = done
    OBVIOUS
  <1> HIDE DEF p, W
  <1>4. /\ queue \in Seq(Toks(Here)) /\ calls \in Seq(CallToks(Here)) /\ Toks(Here) \subseteq Tokens(Here)
        /\ calls \in Seq(Tokens(Here)) /\ queue \in Seq(Tokens(Here)) /\ CallToks(Here) \subseteq Tokens(Here)
    BY HereFacts DEF IInv
  <1>5. q \in Seq(Toks(Here)) /\ q \in Seq(Tokens(Here)) /\ q # <<>>
    BY <1>2, <1>4, ConsFacts
  <1>6. Tail(calls) \in Seq(CallToks(Here)) /\ Tail(calls) \in Seq(Tokens(Here))
    BY <1>1, <1>4, HeadAndTail
  <1>7. Here' = Here
    BY <1>3 DEF Here
  <1>8. TypeOK'
    <2> HIDE DEF q
    <2>1. queue' \in Seq(Toks(Here')) /\ calls' \in Seq(CallToks(Here'))
      BY <1>3, <1>5, <1>6, <1>7
    <2>2. loop' \in Loops'
      BY <1>3, <1>7 DEF IInv, TypeOK, Loops
    <2>3. TypeOK /\ rend' \in Rends
      BY <1>3 DEF IInv, TypeOK
    <2> QED
      BY <1>1, <1>3, <2>1, <2>2, <2>3 DEF TypeOK
  <1>9. StackOK'
    <2>1. Goes(rend.stack, calls \o queue, <<>>)
      BY DEF IInv, StackOK, Goes
    <2>2. PICK c \in Stacks : Goes(rend.stack, calls, c) /\ Goes(c, queue, <<>>)
      BY <1>4, <2>1, GoesParts
    <2>3. Step(rend.stack, Mark(Head(calls)), rend.stack) /\ rend.stack \in Stacks
      BY <1>1, StillFirst, HereFacts DEF IInv
    <2>4. Goes(rend.stack, Tail(calls), c)
      <3>1. Goes(rend.stack, <<>>, rend.stack) /\ <<>> \in Seq(Tokens(Here))
        BY <2>3, GoesNone, NoneFacts
      <3> QED
        BY <1>1, <1>4, <2>2, <2>3, <3>1, GoesInstead
    <2>5. Step(c, Mark(p), c)
      <3>1. Step(c, <<"t", "">>, c)
        BY StepStill
      <3> QED
        BY <1>2, <3>1
    <2>6. Goes(c, q, <<>>)
      BY <1>2, <1>4, <2>2, <2>5, GoesCons
    <2> HIDE DEF q
    <2>7. Goes(rend.stack, Tail(calls) \o q, <<>>)
      BY <1>5, <1>6, <2>4, <2>6, GoesJoin
    <2> QED
      BY <1>1, <1>3, <2>7 DEF StackOK, Goes
  <1>10. HeaderOK'
    <2>1. CASE input.doc[1].k = "quote"
      BY <1>3, <2>1 DEF HeaderOK
    <2>2. CASE Untitled(queue) /\ Untitled(loop.out)
      <3>1. Untitled(q)
        BY <1>2, <2>2, UntitledCons DEF W
      <3> HIDE DEF q
      <3> QED
        BY <1>3, <2>2, <3>1 DEF HeaderOK, Untitled
    <2> QED
      BY <1>1, <2>1, <2>2 DEF IInv, HeaderOK
  <1>11. CallsOK'
    BY <1>1, <1>3, TailCalls DEF IInv
  <1>12. StylesOK'
    <2>1. \A k : Has(calls, k) <=> Head(calls).k = k \/ Has(Tail(calls), k)
      BY <1>1, <1>4, HasFirst
    <2>2. \A k \in {"endstyle", "endlink"} : Has(calls, k) <=> Has(Tail(calls), k)
      BY <1>1, <2>1
    <2> QED
      BY <1>3, <2>2, SameInput DEF IInv, StylesOK, StylesHold, Pending
  <1>13. FailsAsKnown' /\ SubsOK'
    BY <1>3, FailsSame, SameSubs DEF IInv
  <1>14. DepthOK'
    <2>1. \A i \in DOMAIN Tail(calls) : Tail(calls)[i] = calls[i + 1] /\ i + 1 \in DOMAIN calls
      BY <1>1, <1>4, TailDomain
    <2>2. ~Substitutes => \A i \in DOMAIN calls : Shallow(calls[i])
      BY DEF IInv, DepthOK
    <2>3. ~Substitutes => \A i \in DOMAIN Tail(calls) : Shallow(Tail(calls)[i])
      BY <2>1, <2>2
    <2>4. calls' = Tail(calls) /\ Substitutes' = Substitutes
      BY <1>3, SameInput
    <2> QED
      BY <2>3, <2>4 DEF DepthOK, Shallow
  <1> QED
    BY <1>8, <1>9, <1>10, <1>11, <1>12, <1>13, <1>14 DEF IInv

LEMMA PNoteKeeps == ASSUME IInv, PNote PROVE IInv'
  <1>1. Calling({"notes"})
    BY DEF PNote
  <1>2. CASE Cl.kid = <<>> /\ Does(rend, <<>>)
    <2>1. /\ calls # <<>> /\ Head(calls).k \in {"notes"} /\ rend \in Rends /\ rend.err = ""
          /\ \A i \in DOMAIN rend.lits : Len(rend.lits[i]) = 3
      BY <1>1, CallFacts
    <2>2. Head(calls).k \notin {"begin", "end", "title", "endstyle", "endlink"} /\ rend.err \in {"", "ReturnNothing"}
      BY <2>1
    <2> QED
      BY <1>2, <2>1, <2>2, DoesWrite
  <1>3. CASE /\ Cl.kid # <<>> /\ Understood(rend, Head(Cl.kid))
             /\ rend' = Heed(rend, Head(Cl.kid))
             /\ subs' \in SubsAfter(subs, Head(Cl.kid))
             /\ calls' = <<[Cl EXCEPT !.kid = Tail(@)]>> \o Tail(calls)
             /\ UNCHANGED <<input, queue, loop, done>>
    <2>1. Turns(Heed(rend, Head(Cl.kid)), <<[Cl EXCEPT !.kid = Tail(@)]>>)
      BY <1>3 DEF Turns
    <2> QED
      BY <1>1, <1>3, <2>1, PNoteHeeds
  <1>4. CASE /\ queue' = <<AsParagraph(Cl)>> \o queue /\ calls' = Tail(calls)
             /\ UNCHANGED <<input, rend, subs, loop, done>>
    BY <1>1, <1>4, PNoteDeclines
  <1> QED
    BY <1>2, <1>3, <1>4 DEF PNote

LEMMA TooDeepKeeps == ASSUME IInv, TooDeep PROVE IInv'
  <1>1. Calling({"text", "ltext"}) /\ Cl.lvl > Deepest /\ Does(Fail(rend, "RuntimeError"), <<>>)
    BY DEF TooDeep
  <1>2. /\ calls # <<>> /\ Cl = Head(calls) /\ Cl.k \in {"text", "ltext"} /\ Cl.lvl \in Nat
        /\ ~Substitutes => Shallow(Cl)
    BY <1>1, CallFacts
  <1>3. Deepest \in Nat /\ Deepest >= 2
    BY WikitextAssumption
  <1>4. Shallow(Cl) => Cl.lvl \in {0, 1, 2} \/ Cl.lvl <= 2
    BY <1>2 DEF Shallow
  <1>5. Substitutes
    BY <1>1, <1>2, <1>3, <1>4
  <1>6. Head(calls).k \notin {"begin", "end", "title"}
    BY <1>2
  <1>7. "RuntimeError" \in Substituting
    BY DEF Substituting
  <1> QED
    BY <1>1, <1>2, <1>5, <1>6, <1>7, FailKeeps

LEMMA CallKeeps == ASSUME IInv, Call PROVE IInv'
  BY BeginsKeeps, EndsItKeeps, EndsTitleKeeps, InlinePlainKeeps, InlineCodeKeeps, HandleTextKeeps,
     BrLinkKeeps, EndsLinkKeeps, UnheardKeeps, ListMacroKeeps, PutMacroKeeps, CanCommentMacroKeeps,
     RestrictedMacroKeeps, ShowAbbrKeeps, EndsAbbrKeeps, ShowTextKeeps, EndsTextKeeps, PNoteKeeps,
     TooDeepKeeps
     DEF Call

-----------------------------------------------------------------------------
(* Handlers.                                                               *)

LEMMA NoneJoin ==
  ASSUME NEW S, NEW q \in Seq(S)
  PROVE  <<>> \o q = q /\ q \o <<>> = q
  <1> DEFINE e == <<>>
  <1>1. e \in Seq(S) /\ Len(e) = 0
    BY NoneFacts
  <1> HIDE DEF e
  <1>2. e \o q \in Seq(S) /\ Len(e \o q) = Len(q) /\ \A i \in 1 .. Len(q) : (e \o q)[i] = q[i]
    BY <1>1
  <1>3. q \o e \in Seq(S) /\ Len(q \o e) = Len(q) /\ \A i \in 1 .. Len(q) : (q \o e)[i] = q[i]
    BY <1>1
  <1>4. e \o q = q
    BY <1>2, SeqEqual
  <1>5. q \o e = q
    BY <1>3, SeqEqual
  <1> QED
    BY <1>4, <1>5 DEF e

LEMMA SameCalls ==
  ASSUME IInv, input' = input, subs' = subs, calls' = calls
  PROVE  SubsOK' /\ CallsOK' /\ DepthOK' /\ Substitutes' = Substitutes
  <1>1. SubsOK' /\ Substitutes' = Substitutes
    BY SameSubs DEF IInv
  <1>2. CallsOK'
    <2>1. \A c, d : Before(c, d)' <=> Before(c, d)
      BY SameInput
    <2>2. \A i, j : Before(calls[j], calls[i])' <=> Before(calls[j], calls[i])
      BY <2>1 DEF Before
    <2> QED
      BY <2>2 DEF IInv, CallsOK
  <1>3. DepthOK'
    <2>1. ~Substitutes => \A i \in DOMAIN calls : Shallow(calls[i])
      BY DEF IInv, DepthOK
    <2> QED
      BY <1>1, <2>1 DEF DepthOK, Shallow
  <1> QED
    BY <1>1, <1>2, <1>3

LEMMA SameStyles ==
  ASSUME IInv, input' = input, subs' = subs, calls' = calls, rend' = rend
  PROVE  SubsOK' /\ CallsOK' /\ DepthOK' /\ StylesOK' /\ FailsAsKnown' /\ Substitutes' = Substitutes
  <1>1. SubsOK' /\ CallsOK' /\ DepthOK' /\ Substitutes' = Substitutes
    BY SameCalls
  <1>2. StylesOK'
    BY <1>1 DEF IInv, StylesOK, StylesHold, Pending
  <1>3. FailsAsKnown'
    BY FailsSame DEF IInv
  <1> QED
    BY <1>1, <1>2, <1>3

LEMMA FrontFacts ==
  ASSUME IInv, NEW kinds, Front1(kinds)
  PROVE  /\ queue # <<>> /\ Tk \in Toks(Here) /\ Tk = Head(queue) /\ Tk = queue[1] /\ Tk.k \in kinds
         /\ Tk.txt \in Seq(Strings) /\ Tk.kid \in Seq(Here) /\ Tk.el \in Strings
         /\ rend \in Rends /\ rend.err = "" /\ \A i \in DOMAIN rend.lits : Len(rend.lits[i]) = 3
         /\ ~done /\ ~loop.on /\ calls = <<>> /\ Goes(rend.stack, queue, <<>>)
         /\ Len(queue) \in Nat /\ 1 \in 1 .. Len(queue)
  <1>1. queue # <<>> /\ queue \in Seq(Toks(Here)) /\ Tk = Head(queue) /\ Tk.k \in kinds
    BY DEF Front1, Tk, IInv, TypeOK
  <1>2. Tk \in Toks(Here) /\ Tk = queue[1] /\ Len(queue) \in Nat /\ Len(queue) >= 1
    BY <1>1, HeadAndTail
  <1>3. Tk.txt \in Seq(Strings) /\ Tk.kid \in Seq(Here) /\ Tk.el \in Strings
    BY <1>2 DEF Toks, Tokens
  <1>4. ~done /\ ~loop.on /\ calls = <<>> /\ rend.err = ""
    BY DEF Front1
  <1>5. calls \o queue = queue
    BY <1>1, <1>4, NoneJoin
  <1>6. Goes(rend.stack, queue, <<>>)
    BY <1>5 DEF IInv, StackOK, Goes
  <1>7. rend \in Rends /\ \A i \in DOMAIN rend.lits : Len(rend.lits[i]) = 3
    BY DEF IInv, TypeOK
  <1>8. 1 \in 1 .. Len(queue)
    BY <1>2
  <1> QED
    BY <1>1, <1>2, <1>3, <1>4, <1>6, <1>7, <1>8, Zenon

LEMMA UntitledRest ==
  ASSUME NEW q, Untitled(q), NEW n \in 0 .. Len(q)
  PROVE  Untitled(Rest(q, n))
  <1> DEFINE S == Toks(Within(input.doc))
             p == Rest(q, n)
  <1>1. q \in Seq(S) /\ \A i \in DOMAIN q : q[i].k # "header1"
    BY DEF Untitled
  <1> HIDE DEF S
  <1>2. p \in Seq(S) /\ Len(p) = Len(q) - n /\ \A i \in 1 .. Len(q) - n : p[i] = q[n + i]
    BY <1>1, RestFacts
  <1> HIDE DEF p
  <1>3. \A i \in DOMAIN p : p[i].k # "header1"
    <2>1. SUFFICES ASSUME NEW i \in DOMAIN p PROVE p[i].k # "header1"
      OBVIOUS
    <2>2. DOMAIN p = 1 .. Len(p) /\ Len(q) \in Nat /\ DOMAIN q = 1 .. Len(q)
      BY <1>1, <1>2, DomainFacts
    <2>3. i \in 1 .. Len(q) - n /\ n + i \in DOMAIN q
      BY <1>2, <2>2
    <2> QED
      BY <1>1, <1>2, <2>3
  <1>4. p \in Seq(Toks(Within(input.doc)))
    BY <1>2 DEF S
  <1>5. Untitled(p)
    BY <1>3, <1>4 DEF Untitled
  <1> QED
    BY <1>5 DEF p

LEMMA UntitledJoin ==
  ASSUME NEW p, NEW q, Untitled(p), Untitled(q)
  PROVE  Untitled(p \o q)
  <1> DEFINE S == Toks(Within(input.doc))
             r == p \o q
  <1>1. /\ p \in Seq(S) /\ \A i \in DOMAIN p : p[i].k # "header1"
        /\ q \in Seq(S) /\ \A i \in DOMAIN q : q[i].k # "header1"
    BY DEF Untitled
  <1> HIDE DEF S
  <1>2. /\ r \in Seq(S) /\ Len(r) = Len(p) + Len(q)
        /\ \A i \in 1 .. Len(p) : r[i] = p[i]
        /\ \A i \in 1 .. Len(q) : r[Len(p) + i] = q[i]
    BY <1>1, JoinFacts
  <1> HIDE DEF r
  <1>3. \A i \in DOMAIN r : r[i].k # "header1"
    <2>1. SUFFICES ASSUME NEW i \in DOMAIN r PROVE r[i].k # "header1"
      OBVIOUS
    <2>2. /\ DOMAIN r = 1 .. Len(r) /\ Len(q) \in Nat /\ DOMAIN q = 1 .. Len(q)
          /\ DOMAIN p = 1 .. Len(p) /\ Len(p) \in Nat
      BY <1>1, <1>2, DomainFacts
    <2>3. CASE i \in 1 .. Len(p)
      BY <1>1, <1>2, <2>2, <2>3
    <2>4. CASE i \notin 1 .. Len(p)
      <3>1. i - Len(p) \in 1 .. Len(q) /\ Len(p) + (i - Len(p)) = i
        BY <1>2, <2>2, <2>4
      <3>2. r[i] = q[i - Len(p)]
        BY <1>2, <3>1
      <3> QED
        BY <1>1, <2>2, <3>1, <3>2
    <2> QED
      BY <2>3, <2>4
  <1>4. r \in Seq(Toks(Within(input.doc)))
    BY <1>2 DEF S
  <1>5. Untitled(r)
    BY <1>3, <1>4 DEF Untitled
  <1> QED
    BY <1>5 DEF r

LEMMA RestOfTail ==
  ASSUME NEW S, NEW q \in Seq(S), q # <<>>, NEW n \in 1 .. Len(q)
  PROVE  Rest(q, n) = Rest(Tail(q), n - 1) /\ n - 1 \in 0 .. Len(Tail(q))
  <1>1. Tail(q) \in Seq(S) /\ Len(q) \in Nat /\ Len(q) >= 1 /\ Len(Tail(q)) = Len(q) - 1
    BY HeadAndTail
  <1>2. n - 1 \in 0 .. Len(Tail(q)) /\ n \in 0 .. Len(q)
    BY <1>1
  <1>3. Rest(q, n) \in Seq(S) /\ Len(Rest(q, n)) = Len(q) - n /\ \A i \in 1 .. Len(q) - n : Rest(q, n)[i] = q[n + i]
    BY <1>2, RestFacts
  <1>4. /\ Rest(Tail(q), n - 1) \in Seq(S) /\ Len(Rest(Tail(q), n - 1)) = Len(Tail(q)) - (n - 1)
        /\ \A i \in 1 .. Len(Tail(q)) - (n - 1) : Rest(Tail(q), n - 1)[i] = Tail(q)[(n - 1) + i]
    <2> DEFINE u == Tail(q)
               m == n - 1
    <2>1. u \in Seq(S) /\ m \in 0 .. Len(u)
      BY <1>1, <1>2
    <2> HIDE DEF u, m
    <2>2. /\ Rest(u, m) \in Seq(S) /\ Len(Rest(u, m)) = Len(u) - m
          /\ \A i \in 1 .. Len(u) - m : Rest(u, m)[i] = u[m + i]
      BY <2>1, RestFacts
    <2> QED
      BY <2>2, Zenon DEF u, m
  <1>5. Len(Tail(q)) - (n - 1) = Len(q) - n
    BY <1>1
  <1>6. \A i \in 1 .. Len(q) - n : Rest(q, n)[i] = Rest(Tail(q), n - 1)[i]
    <2>1. SUFFICES ASSUME NEW i \in 1 .. Len(q) - n PROVE Rest(q, n)[i] = Rest(Tail(q), n - 1)[i]
      OBVIOUS
    <2>2. (n - 1) + i \in 1 .. Len(Tail(q)) /\ ((n - 1) + i) + 1 = n + i
      BY <1>1
    <2>3. Tail(q)[(n - 1) + i] = q[n + i]
      BY <2>2, TailFacts
    <2> QED
      BY <1>3, <1>4, <1>5, <2>3
  <1> DEFINE a == Rest(q, n)
             b == Rest(Tail(q), n - 1)
  <1>7. a \in Seq(S) /\ b \in Seq(S) /\ Len(a) = Len(b) /\ \A i \in 1 .. Len(a) : a[i] = b[i]
    BY <1>3, <1>4, <1>5, <1>6
  <1> HIDE DEF a, b
  <1>8. a = b
    BY <1>7, SeqEqual
  <1> QED
    BY <1>2, <1>8 DEF a, b

LEMMA RestOne ==
  ASSUME NEW S, NEW q \in Seq(S), q # <<>>
  PROVE  Rest(q, 1) = Tail(q)
  <1>1. Tail(q) \in Seq(S) /\ Len(q) \in Nat /\ Len(q) >= 1 /\ Len(Tail(q)) = Len(q) - 1
    BY HeadAndTail
  <1>2. 1 \in 0 .. Len(q)
    BY <1>1
  <1>3. Rest(q, 1) \in Seq(S) /\ Len(Rest(q, 1)) = Len(q) - 1 /\ \A i \in 1 .. Len(q) - 1 : Rest(q, 1)[i] = q[1 + i]
    BY <1>2, RestFacts
  <1>4. \A i \in 1 .. Len(q) - 1 : Tail(q)[i] = q[i + 1] /\ i + 1 = 1 + i
    BY <1>1, TailFacts
  <1> DEFINE a == Rest(q, 1)
             b == Tail(q)
  <1>7. a \in Seq(S) /\ b \in Seq(S) /\ Len(a) = Len(b) /\ \A i \in 1 .. Len(a) : a[i] = b[i]
    BY <1>1, <1>3, <1>4
  <1> HIDE DEF a, b
  <1>8. a = b
    BY <1>7, SeqEqual
  <1> QED
    BY <1>8 DEF a, b

\* The tokens that may be about: without a title, unless one may be.
NoTitle == Untitled(queue) /\ Untitled(loop.out)
Base == IF NoTitle THEN Within(input.doc) ELSE Here
Kin == {t \in Toks(Base) : NoTitle => t.k # "header1"}

LEMMA SeqWithin ==
  ASSUME NEW A, NEW B, NEW q \in Seq(A), \A i \in DOMAIN q : q[i] \in B
  PROVE  q \in Seq(B)
  <1>1. DOMAIN q = 1 .. Len(q) /\ Len(q) \in Nat
    BY DomainFacts
  <1>2. q = [i \in 1 .. Len(q) |-> q[i]]
    BY <1>1
  <1>3. q \in [1 .. Len(q) -> B]
    BY <1>1, <1>2
  <1> QED
    BY <1>1, <1>3

LEMMA BaseFacts ==
  ASSUME TypeOK
  PROVE  /\ Sound(Base) /\ Base \subseteq Here
         /\ \A t \in Base : t.k \in LineKinds \cup NoteKinds \cup {"header1"} /\ (NoTitle => t.k # "header1")
         /\ Kin \subseteq Toks(Here) /\ Kin \subseteq Toks(Base) /\ Kin \subseteq Tokens(Here) /\ Kin \subseteq Tokens(Base)
  <1>1. /\ input \in Inputs /\ Sound(Here) /\ Within(input.doc) \subseteq Here
        /\ \A t \in Here : t.k \in LineKinds \cup NoteKinds \cup {"header1"}
    BY HereFacts
  <1>2. Sound(Within(input.doc)) /\ \A t \in Within(input.doc) : t.k \in LineKinds \cup NoteKinds
    BY <1>1, WithinFacts
  <1>3. \A t \in Within(input.doc) : t.k # "header1"
    BY <1>2, KindFacts
  <1>4. Base \subseteq Here
    BY <1>1 DEF Base
  <1>5. Kin \subseteq Toks(Base) /\ Toks(Base) \subseteq Tokens(Base)
    BY DEF Kin, Toks
  <1>6. Toks(Base) \subseteq Toks(Here) /\ Tokens(Base) \subseteq Tokens(Here)
    BY <1>4, TokensGrow
  <1>7. Sound(Base)
    BY <1>1, <1>2 DEF Base
  <1>8. \A t \in Base : t.k \in LineKinds \cup NoteKinds \cup {"header1"} /\ (NoTitle => t.k # "header1")
    BY <1>1, <1>3, <1>4 DEF Base
  <1> QED
    BY <1>4, <1>5, <1>6, <1>7, <1>8

LEMMA UntitledKin ==
  ASSUME TypeOK
  PROVE  /\ queue \in Seq(Kin) /\ loop.out \in Seq(Kin)
         /\ NoTitle => \A q \in Seq(Kin) : Untitled(q)
  <1>1. CASE NoTitle
    <2>1. Base = Within(input.doc)
      BY <1>1 DEF Base
    <2>2. ASSUME NEW q, Untitled(q) PROVE q \in Seq(Kin)
      <3>1. q \in Seq(Toks(Base)) /\ \A i \in DOMAIN q : q[i].k # "header1"
        BY <2>1, <2>2 DEF Untitled
      <3>2. \A i \in DOMAIN q : q[i] \in Toks(Base)
        BY <3>1
      <3>3. \A i \in DOMAIN q : q[i] \in Kin
        BY <3>1, <3>2 DEF Kin
      <3> QED
        BY <3>1, <3>3, SeqWithin
    <2>3. ASSUME NEW q \in Seq(Kin) PROVE Untitled(q)
      <3>1. Kin \subseteq Toks(Base)
        BY BaseFacts
      <3>2. q \in Seq(Toks(Base))
        BY <3>1, SeqMonotonic
      <3>3. \A i \in DOMAIN q : q[i] \in Kin
        OBVIOUS
      <3>4. \A i \in DOMAIN q : q[i].k # "header1"
        BY <1>1, <3>3 DEF Kin
      <3> QED
        BY <2>1, <3>2, <3>4 DEF Untitled
    <2>4. Untitled(queue) /\ Untitled(loop.out)
      BY <1>1 DEF NoTitle
    <2> QED
      BY <2>2, <2>3, <2>4
  <1>2. CASE ~NoTitle
    <2>1. Kin = Toks(Here)
      BY <1>2 DEF Kin, Base
    <2> QED
      BY <1>2, <2>1, HereFacts
  <1> QED
    BY <1>1, <1>2

LEMMA KinEnds ==
  ASSUME TypeOK, NEW e \in Elements
  PROVE  Begin(e) \in Kin /\ End(e) \in Kin
  <1>1. Begin(e) \in Toks(Base) /\ End(e) \in Toks(Base) /\ Begin(e).k = "begin" /\ End(e).k = "end"
    BY BeginEnd
  <1> QED
    BY <1>1 DEF Kin

LEMMA KinTexts ==
  ASSUME TypeOK, NEW txt \in Seq(Strings), NEW k \in {"para", "ptext"}
  PROVE  Text(k, txt) \in Kin
  <1>1. Text(k, txt) \in Toks(Base) /\ Text(k, txt).k = k
    BY TextType
  <1>2. k # "header1"
    OBVIOUS
  <1> QED
    BY <1>1, <1>2 DEF Kin

LEMMA KinPara ==
  ASSUME TypeOK, NEW t \in Tokens(Base), t.k \notin {"begin", "end", "procnote", "header1"} \cup Inners \cup {"iquote"},
         t.k \in QueueKinds
  PROVE  t \in Kin
  <1>1. Fits(t)
    BY DEF Fits, Inners
  <1> QED
    BY <1>1 DEF Kin, Toks

LEMMA KinKid ==
  ASSUME TypeOK, NEW t \in Kin, t.k \in Inners \cup {"iquote"}
  PROVE  /\ t.kid[1] \in Base /\ t.kid[1] \in Kin /\ t.kid \in Seq(Kin) /\ Len(t.kid) = 1
         /\ t.kid[1].k \in LineKinds \cup {"header1"} /\ Mark(t.kid[1]) = <<"t", "">>
         /\ t.kid = <<t.kid[1]>>
  <1>1. t \in Toks(Base) /\ Sound(Base)
    BY BaseFacts
  <1>2. /\ t.kid[1] \in Base /\ t.kid[1] \in Toks(Base) /\ Len(t.kid) = 1
        /\ t.kid[1].k \in LineKinds \cup {"header1"} /\ Mark(t.kid[1]) = <<"t", "">>
        /\ t.kid = <<t.kid[1]>>
    BY <1>1, KidOf
  <1>3. NoTitle => t.kid[1].k # "header1"
    BY <1>2, BaseFacts
  <1>4. t.kid[1] \in Kin
    BY <1>2, <1>3 DEF Kin
  <1> DEFINE s == t.kid[1]
  <1> HIDE DEF s
  <1>5. <<s>> \in Seq(Kin)
    BY <1>4, OneOf DEF s
  <1> QED
    BY <1>2, <1>4, <1>5 DEF s

LEMMA HeaderTakes ==
  ASSUME IInv, ~loop.on, queue # <<>>, NEW n \in 1 .. Len(queue)
  PROVE  input.doc[1].k = "quote" \/ (Untitled(Rest(queue, n)) /\ Untitled(loop.out))
  <1>1. queue \in Seq(Toks(Here)) /\ Len(queue) \in Nat
    BY HereFacts, HeadAndTail DEF IInv
  <1>2. CASE Untitled(queue) /\ Untitled(loop.out)
    BY <1>1, <1>2, UntitledRest
  <1>3. CASE Untitled(Tail(queue)) /\ loop.out = <<>>
    <2>1. Rest(queue, n) = Rest(Tail(queue), n - 1) /\ n - 1 \in 0 .. Len(Tail(queue))
      BY <1>1, RestOfTail
    <2>2. Untitled(Rest(queue, n))
      BY <1>3, <2>1, UntitledRest
    <2>3. Untitled(<<>>)
      BY NoneFacts DEF Untitled
    <2> QED
      BY <1>3, <2>2, <2>3
  <1> QED
    BY <1>2, <1>3 DEF IInv, HeaderOK

\* What a handler may call for.
PlainCalls(cs) ==
  /\ cs \in Seq(CallToks(Here))
  /\ \A i \in DOMAIN cs : cs[i].k \notin {"endlink", "endabbr", "endstyle"}
  /\ \A i, j \in DOMAIN cs : j < i => cs[j].k # "title"
  /\ \A i \in DOMAIN cs : Shallow(cs[i])

LEMMA HandlerCalls ==
  ASSUME IInv, NEW kinds, Front1(kinds), NEW n \in 1 .. Len(queue), NEW cs, Calls(n, cs), PlainCalls(cs),
         \A i \in 1 .. n : Mark(queue[i])[1] \in {"t", "in"},
         Goes(rend.stack, cs, rend.stack)
  PROVE  IInv'
  <1> DEFINE q == Rest(queue, n)
  <1>1. queue # <<>> /\ Len(queue) \in Nat /\ ~loop.on /\ calls = <<>> /\ Goes(rend.stack, queue, <<>>)
    BY FrontFacts
  <1>2. /\ queue' = q /\ calls' = cs /\ input' = input /\ rend' = rend /\ subs' = subs
        /\ loop' = loop /\ done' = done
    BY DEF Calls
  <1>3. /\ queue \in Seq(Toks(Here)) /\ queue \in Seq(Tokens(Here)) /\ CallToks(Here) \subseteq Tokens(Here)
    BY HereFacts DEF IInv
  <1>4. n \in 0 .. Len(queue)
    BY <1>1
  <1>5. q \in Seq(Toks(Here)) /\ q \in Seq(Tokens(Here))
    BY <1>3, <1>4, RestFacts
  <1>6. cs \in Seq(CallToks(Here)) /\ cs \in Seq(Tokens(Here))
    BY <1>3 DEF PlainCalls
  <1>7. Goes(rend.stack, q, <<>>)
    BY <1>1, <1>3, <1>4, GoesRest
  <1>8. input.doc[1].k = "quote" \/ (Untitled(q) /\ Untitled(loop.out))
    BY <1>1, HeaderTakes
  <1> HIDE DEF q
  <1>9. Here' = Here
    BY <1>2 DEF Here
  <1>10. TypeOK'
    <2>1. queue' \in Seq(Toks(Here')) /\ calls' \in Seq(CallToks(Here'))
      BY <1>2, <1>5, <1>6, <1>9
    <2>2. loop' \in Loops'
      BY <1>2, <1>9 DEF IInv, TypeOK, Loops
    <2>3. TypeOK /\ rend' \in Rends
      BY <1>2 DEF IInv, TypeOK
    <2> QED
      BY <1>1, <1>2, <2>1, <2>2, <2>3 DEF TypeOK
  <1>11. StackOK'
    <2>1. Goes(rend.stack, cs \o q, <<>>)
      BY <1>5, <1>6, <1>7, GoesJoin
    <2> QED
      BY <1>1, <1>2, <2>1 DEF StackOK, Goes
  <1>12. HeaderOK'
    BY <1>2, <1>8 DEF HeaderOK, Untitled
  <1>13. CallsOK'
    <2>1. \A i, j \in DOMAIN cs : j < i => Before(cs[j], cs[i])
      BY DEF PlainCalls, Before, Links
    <2>2. \A c, d : Before(c, d)' <=> Before(c, d)
      BY <1>2, SameInput
    <2>3. \A i, j : Before(calls[j], calls[i])' <=> Before(cs[j], cs[i])
      BY <1>2, <2>2 DEF Before
    <2> QED
      BY <1>2, <2>1, <2>3 DEF CallsOK
  <1>14. StylesOK'
    <2>1. \A k \in {"endstyle", "endlink"} : ~Has(cs, k) /\ ~Has(calls, k)
      BY <1>1, NoneFacts DEF PlainCalls, Has
    <2> QED
      BY <1>2, <2>1, SameInput DEF IInv, StylesOK, StylesHold, Pending
  <1>15. FailsAsKnown' /\ SubsOK'
    BY <1>2, FailsSame, SameSubs DEF IInv
  <1>16. DepthOK'
    <2>1. Substitutes' = Substitutes /\ \A i \in DOMAIN cs : Shallow(cs[i])
      BY <1>2, SameInput DEF PlainCalls
    <2> QED
      BY <1>2, <2>1 DEF DepthOK, Shallow
  <1> QED
    BY <1>10, <1>11, <1>12, <1>13, <1>14, <1>15, <1>16 DEF IInv

LEMMA HandlerWrites ==
  ASSUME IInv, NEW kinds, Front1(kinds), NEW r \in Rends, Writes(r, 1),
         \A i \in DOMAIN r.lits : Len(r.lits[i]) = 3,
         Step(rend.stack, Mark(Tk), r.stack),
         r.barrier = rend.barrier, r.styles = rend.styles \/ r.styles = <<>>,
         \/ r.err = ""
         \/ r.err = "AssertionError" /\ input.doc[1].k = "quote"
         \/ r.err = "TypeError" /\ Substitutes
  PROVE  IInv'
  <1> DEFINE q == Rest(queue, 1)
  <1>1. /\ queue # <<>> /\ Len(queue) \in Nat /\ ~loop.on /\ calls = <<>> /\ Goes(rend.stack, queue, <<>>)
        /\ Tk = Head(queue) /\ 1 \in 1 .. Len(queue)
    BY FrontFacts
  <1>2. queue' = q /\ calls' = calls /\ input' = input /\ rend' = r /\ loop' = loop /\ done' = done /\ subs' = subs
    BY DEF Writes
  <1>3. queue \in Seq(Toks(Here)) /\ queue \in Seq(Tokens(Here))
    BY HereFacts DEF IInv
  <1>4. q = Tail(queue) /\ q \in Seq(Toks(Here)) /\ q \in Seq(Tokens(Here))
    BY <1>1, <1>3, HeadAndTail, RestOne
  <1>5. r.stack \in Stacks
    BY StylesType
  <1>6. Goes(r.stack, q, <<>>)
    <2>1. Goes(r.stack, <<>>, r.stack) /\ <<>> \in Seq(Tokens(Here))
      BY <1>5, GoesNone, NoneFacts
    <2>2. Step(rend.stack, Mark(Head(queue)), r.stack)
      BY <1>1
    <2>3. Goes(r.stack, Tail(queue), <<>>)
      BY <1>1, <1>3, <1>5, <2>1, <2>2, GoesInstead
    <2> QED
      BY <1>4, <2>3
  <1>7. input.doc[1].k = "quote" \/ (Untitled(q) /\ Untitled(loop.out))
    BY <1>1, HeaderTakes
  <1> HIDE DEF q
  <1>8. Here' = Here
    BY <1>2 DEF Here
  <1>9. TypeOK'
    <2>1. queue' \in Seq(Toks(Here')) /\ calls' \in Seq(CallToks(Here'))
      BY <1>2, <1>4, <1>8 DEF IInv, TypeOK
    <2>2. loop' \in Loops'
      BY <1>2, <1>8 DEF IInv, TypeOK, Loops
    <2>3. TypeOK
      BY DEF IInv
    <2> QED
      BY <1>1, <1>2, <2>1, <2>2, <2>3 DEF TypeOK
  <1>10. StackOK'
    <2>1. calls \o q = q
      BY <1>1, <1>4, NoneJoin
    <2> QED
      BY <1>1, <1>2, <1>6, <2>1 DEF StackOK, Goes
  <1>11. HeaderOK'
    BY <1>2, <1>7 DEF HeaderOK, Untitled
  <1>12. CallsOK' /\ SubsOK' /\ DepthOK' /\ Substitutes' = Substitutes
    BY <1>2, SameCalls
  <1>13. StylesOK'
    <2>s. SUFFICES ASSUME ~Substitutes PROVE StylesHold'
      BY <1>12 DEF StylesOK
    <2>h. StylesHold
      BY <2>s DEF IInv, StylesOK
    <2>1. \A k : ~Has(calls, k)
      BY <1>1, NoneFacts
    <2>2. \A k : ~Pending(k)' /\ ~Pending(k)
      BY <1>2, <2>1 DEF Pending
    <2>3. Len(rend.barrier) = (IF Pending("endstyle") THEN 1 ELSE 0) + (IF Pending("endlink") THEN 1 ELSE 0)
      BY <2>h DEF StylesHold
    <2>4. Len(rend'.barrier) = (IF Pending("endstyle")' THEN 1 ELSE 0) + (IF Pending("endlink")' THEN 1 ELSE 0)
      BY <1>2, <2>2, <2>3
    <2>5. /\ \A i, j \in DOMAIN rend'.styles : rend'.styles[i] = rend'.styles[j] => i = j
          /\ ~Contains(rend'.styles, "big")
      <3>1. CASE r.styles = rend.styles
        <4>1. /\ \A i, j \in DOMAIN rend.styles : rend.styles[i] = rend.styles[j] => i = j
              /\ ~Contains(rend.styles, "big")
          BY <2>2, <2>h DEF StylesHold
        <4>2. rend'.styles = rend.styles
          BY <1>2, <3>1
        <4> QED
          BY <4>1, <4>2
      <3>2. CASE r.styles = <<>>
        <4>1. ~Contains(<<>>, "big") /\ DOMAIN <<>> = {}
          BY ContainsNone, NoneFacts
        <4>2. rend'.styles = <<>>
          BY <1>2, <3>2
        <4> QED
          BY <4>1, <4>2
      <3> QED
        BY <3>1, <3>2
    <2> QED
      BY <2>2, <2>4, <2>5 DEF StylesHold
  <1>14. FailsAsKnown'
    BY <1>2, SameInput DEF FailsAsKnown
  <1> QED
    BY <1>9, <1>10, <1>11, <1>12, <1>13, <1>14 DEF IInv

LEMMA HandlerPushes ==
  ASSUME IInv, NEW kinds, Front1(kinds), "header1" \notin kinds, "indented" \notin kinds,
         NEW n \in 1 .. Len(queue), NEW toks \in Seq(Kin), Pushes(n, toks),
         \A i \in 1 .. n : Mark(queue[i])[1] \in {"t", "in"},
         Goes(rend.stack, toks, rend.stack)
  PROVE  IInv'
  <1> DEFINE p == Rest(queue, n)
             q == toks \o p
  <1>1. /\ queue # <<>> /\ Len(queue) \in Nat /\ ~loop.on /\ calls = <<>> /\ Goes(rend.stack, queue, <<>>)
        /\ Tk = Head(queue) /\ Tk.k \in kinds
    BY FrontFacts
  <1>2. queue' = q /\ calls' = calls /\ input' = input /\ rend' = rend /\ loop' = loop /\ done' = done /\ subs' = subs
    BY DEF Pushes
  <1>3. queue \in Seq(Toks(Here)) /\ queue \in Seq(Tokens(Here)) /\ Toks(Here) \subseteq Tokens(Here)
    BY HereFacts DEF IInv
  <1>t. toks \in Seq(Toks(Here))
    <2>1. Kin \subseteq Toks(Here)
      BY BaseFacts DEF IInv
    <2> QED
      BY <2>1, SeqMonotonic
  <1>4. n \in 0 .. Len(queue)
    BY <1>1
  <1>5. p \in Seq(Toks(Here)) /\ p \in Seq(Tokens(Here)) /\ toks \in Seq(Tokens(Here))
    BY <1>3, <1>4, <1>t, RestFacts
  <1>6. Goes(rend.stack, p, <<>>)
    BY <1>1, <1>3, <1>4, GoesRest
  <1>7. input.doc[1].k = "quote" \/ (Untitled(p) /\ Untitled(toks) /\ Untitled(loop.out))
    <2>1. input.doc[1].k = "quote" \/ (Untitled(p) /\ Untitled(loop.out))
      BY <1>1, HeaderTakes
    <2>2. input.doc[1].k = "quote" \/ NoTitle
      BY <1>1 DEF IInv, HeaderOK, NoTitle
    <2>3. NoTitle => Untitled(toks)
      BY UntitledKin DEF IInv
    <2> QED
      BY <2>1, <2>2, <2>3
  <1> HIDE DEF p
  <1>8. q \in Seq(Toks(Here)) /\ Goes(rend.stack, q, <<>>)
    BY <1>5, <1>t, <1>6, GoesJoin
  <1>9. input.doc[1].k = "quote" \/ (Untitled(q) /\ Untitled(loop.out))
    BY <1>7, UntitledJoin
  <1> HIDE DEF q
  <1>10. Here' = Here
    BY <1>2 DEF Here
  <1>11. TypeOK'
    <2>1. queue' \in Seq(Toks(Here')) /\ calls' \in Seq(CallToks(Here'))
      BY <1>2, <1>8, <1>10 DEF IInv, TypeOK
    <2>2. loop' \in Loops'
      BY <1>2, <1>10 DEF IInv, TypeOK, Loops
    <2>3. TypeOK
      BY DEF IInv
    <2> QED
      BY <1>1, <1>2, <2>1, <2>2, <2>3 DEF TypeOK
  <1>12. StackOK'
    <2>1. calls \o q = q
      BY <1>1, <1>8, NoneJoin
    <2> QED
      BY <1>1, <1>2, <1>8, <2>1 DEF StackOK, Goes
  <1>13. HeaderOK'
    BY <1>2, <1>9 DEF HeaderOK, Untitled
  <1>14. CallsOK' /\ StylesOK' /\ FailsAsKnown' /\ SubsOK' /\ DepthOK'
    BY <1>2, SameStyles
  <1> QED
    BY <1>11, <1>12, <1>13, <1>14 DEF IInv

LEMMA StillToks ==
  ASSUME NEW t, t.k \notin {"begin", "end", "title"}
  PROVE  Mark(t)[1] \in {"t", "in"}
  BY StillMark

-----------------------------------------------------------------------------
(* Handlers that call for elements.                                        *)

\* Tokens of a set, which go from one stack to another.
Via(B, a, q, b) == q \in Seq(B) /\ Goes(a, q, b)

LEMMA ViaIn ==
  ASSUME NEW A, NEW B, B \subseteq Tokens(A), NEW q \in Seq(B)
  PROVE  q \in Seq(Tokens(A))
  BY SeqMonotonic

LEMMA ViaNone ==
  ASSUME NEW B, NEW a \in Stacks
  PROVE  Via(B, a, <<>>, a)
  BY GoesNone, NoneFacts DEF Via

LEMMA ViaCons ==
  ASSUME NEW A, NEW B, B \subseteq Tokens(A), NEW t \in B, NEW q, NEW a \in Stacks, NEW b, NEW c \in Stacks,
         Step(a, Mark(t), c), Via(B, c, q, b)
  PROVE  Via(B, a, <<t>> \o q, b)
  <1>1. q \in Seq(B) /\ q \in Seq(Tokens(A)) /\ t \in Tokens(A) /\ Goes(c, q, b)
    BY ViaIn DEF Via
  <1>2. Goes(a, <<t>> \o q, b)
    BY <1>1, GoesCons
  <1>3. <<t>> \o q \in Seq(B)
    BY <1>1, ConsFacts
  <1> QED
    BY <1>2, <1>3 DEF Via

LEMMA ViaOne ==
  ASSUME NEW A, NEW B, B \subseteq Tokens(A), NEW t \in B, NEW a \in Stacks, NEW b \in Stacks, Step(a, Mark(t), b)
  PROVE  Via(B, a, <<t>>, b)
  <1>1. t \in Tokens(A) /\ <<t>> \in Seq(B)
    BY OneOf
  <1>2. Goes(a, <<t>>, b)
    BY <1>1, GoesOne
  <1> QED
    BY <1>1, <1>2 DEF Via

LEMMA ViaJoin ==
  ASSUME NEW A, NEW B, B \subseteq Tokens(A), NEW p, NEW q, NEW a, NEW b, NEW c, Via(B, a, p, c), Via(B, c, q, b)
  PROVE  Via(B, a, p \o q, b)
  <1>1. p \in Seq(B) /\ q \in Seq(B) /\ p \in Seq(Tokens(A)) /\ q \in Seq(Tokens(A))
        /\ Goes(a, p, c) /\ Goes(c, q, b)
    BY ViaIn DEF Via
  <1>2. p \o q \in Seq(B)
    BY <1>1, JoinFacts
  <1>3. Goes(a, p \o q, b)
    BY <1>1, GoesJoin
  <1> QED
    BY <1>2, <1>3 DEF Via

LEMMA ViaFlatten ==
  ASSUME NEW A, NEW B, B \subseteq Tokens(A), NEW n \in Nat, NEW f, f = [i \in 1 .. n |-> f[i]],
         NEW g \in [0 .. n -> Stacks], \A i \in 1 .. n : Via(B, g[i - 1], f[i], g[i])
  PROVE  Via(B, g[0], FlattenSeq(f), g[n])
  <1>1. \A i \in 1 .. n : f[i] \in Seq(B) /\ f[i] \in Seq(Tokens(A)) /\ Goes(g[i - 1], f[i], g[i])
    BY ViaIn DEF Via
  <1> DEFINE F == Seq(B)
             G == Seq(Tokens(A))
  <1>2. \A i \in 1 .. n : f[i] \in F /\ f[i] \in G
    BY <1>1
  <1> HIDE DEF F, G
  <1>3. f \in Seq(F) /\ f \in Seq(G) /\ Len(f) = n
    BY <1>2
  <1> USE DEF F, G
  <1>4. FlattenSeq(f) \in Seq(B)
    BY <1>3, FlattenType
  <1>5. Goes(g[0], FlattenSeq(f), g[n])
    BY <1>1, <1>3, GoesFlatten
  <1> QED
    BY <1>4, <1>5 DEF Via

LEMMA RunFacts ==
  ASSUME NEW S, NEW q \in Seq(S), q # <<>>, NEW T
  PROVE  LET n == Max({m \in 1 .. Len(q) : \A i \in 2 .. m : i \in T})
         IN n \in 1 .. Len(q) /\ \A i \in 2 .. n : i \in T
  <1> DEFINE R == {m \in 1 .. Len(q) : \A i \in 2 .. m : i \in T}
  <1>1. Len(q) \in Nat /\ Len(q) >= 1
    BY HeadAndTail
  <1>2. 1 \in R
    BY <1>1
  <1>3. R \subseteq Nat /\ R # {} /\ \A x \in R : x <= Len(q)
    BY <1>1, <1>2
  <1> HIDE DEF R
  <1>4. Max(R) \in R
    BY <1>1, <1>3, MaxFacts
  <1> QED
    BY <1>4 DEF R

LEMMA JoinType ==
  ASSUME NEW A, NEW q \in Seq(Tokens(A)), NEW n \in 0 .. Len(q)
  PROVE  Join(q, n) \in Seq(Strings)
  <1> DEFINE F == Seq(Strings)
             f == [i \in 1 .. n |-> IF i = 1 THEN q[i].txt ELSE <<"nl">> \o q[i].txt]
  <1>1. ASSUME NEW i \in 1 .. n PROVE f[i] \in F
    <2>1. Len(q) \in Nat /\ DOMAIN q = 1 .. Len(q)
      BY DomainFacts
    <2>2. i \in DOMAIN q
      BY <2>1
    <2>3. q[i] \in Tokens(A)
      BY <2>2
    <2>4. q[i].txt \in Seq(Strings)
      BY <2>3 DEF Tokens
    <2>5. "nl" \in Strings
      BY DEF Strings
    <2> DEFINE t == q[i].txt
    <2>6. t \in Seq(Strings)
      BY <2>4
    <2> HIDE DEF t
    <2>7. <<"nl">> \o t \in Seq(Strings)
      BY <2>5, <2>6, ConsFacts
    <2> USE DEF t
    <2> QED
      BY <2>4, <2>7
  <1> HIDE DEF F
  <1>2. f \in Seq(F)
    BY <1>1
  <1> HIDE DEF f
  <1>3. FlattenSeq(f) \in Seq(Strings)
    BY <1>2, FlattenType DEF F
  <1> QED
    BY <1>3 DEF f, Join

\* What handlers call for.
Speech == {t \in CallToks(Here) : t.k \in {"begin", "end", "plain", "text"} /\ Shallow(t)}

LEMMA SpeechIn == Speech \subseteq Tokens(Here) /\ Speech \subseteq CallToks(Here)
  BY DEF Speech, CallToks

LEMMA SpeechCalls ==
  ASSUME NEW a, NEW b, NEW cs, Via(Speech, a, cs, b)
  PROVE  PlainCalls(cs) /\ Goes(a, cs, b)
  <1>1. cs \in Seq(Speech) /\ Goes(a, cs, b)
    BY DEF Via
  <1>2. cs \in Seq(CallToks(Here))
    BY <1>1, SpeechIn, SeqMonotonic
  <1>3. \A i \in DOMAIN cs : cs[i] \in Speech
    BY <1>1
  <1>4. \A i \in DOMAIN cs : cs[i].k \in {"begin", "end", "plain", "text"}
    BY <1>3 DEF Speech
  <1>5. \A i \in DOMAIN cs : cs[i].k \notin {"endlink", "endabbr", "endstyle"} /\ cs[i].k # "title"
    BY <1>4
  <1>6. \A i \in DOMAIN cs : Shallow(cs[i])
    BY <1>3 DEF Speech
  <1> QED
    BY <1>1, <1>2, <1>5, <1>6 DEF PlainCalls

Said(txt) == TextCall("text", txt, 0)
LEMMA SpeechFacts ==
  ASSUME SubsOK, NEW e \in Elements, NEW txt \in Seq(Strings), NEW a \in Stacks
  PROVE  /\ Begin(e) \in Speech /\ End(e) \in Speech /\ Said(txt) \in Speech /\ Text("plain", txt) \in Speech
         /\ Step(a, Mark(Begin(e)), <<e>> \o a) /\ Step(<<e>> \o a, Mark(End(e)), a) /\ <<e>> \o a \in Stacks
         /\ Step(a, Mark(Text("plain", txt)), a)
         /\ a # <<>> => Step(a, Mark(Said(txt)), a)
         /\ Step(<<e>> \o a, Mark(Said(txt)), <<e>> \o a)
         /\ Step(<<e>> \o a, Mark(Text("plain", txt)), <<e>> \o a)
  <1>1. Begin(e) \in Speech /\ End(e) \in Speech
    BY BeginEnd, ShallowFacts DEF Speech
  <1>p. Text("plain", txt) \in Speech /\ Text("plain", txt).k = "plain"
    <2> DEFINE p == Text("plain", txt)
    <2>1. p \in CallToks(Here) /\ p.k = "plain"
      BY TextType
    <2> HIDE DEF p
    <2>2. Shallow(p)
      BY <2>1, ShallowFacts
    <2>3. p \in Speech
      BY <2>1, <2>2 DEF Speech
    <2> QED
      BY <2>1, <2>3 DEF p
  <1>2. Said(txt) \in Speech /\ Said(txt).k = "text" /\ Mark(Said(txt)) = <<"in", "">>
    <2> DEFINE k == "text"
               l == 0
               t == TextCall(k, txt, l)
    <2>0. k \in {"text", "ltext"} /\ l \in Nat
      OBVIOUS
    <2> HIDE DEF k, l
    <2>a. t \in CallToks(Here) /\ t.k = k /\ t.lvl = l /\ Mark(t) = <<"in", "">>
      BY <2>0, TextCallFacts
    <2>1. t \in CallToks(Here) /\ t.k = "text" /\ t.lvl = 0 /\ Mark(t) = <<"in", "">>
      BY <2>a DEF k, l
    <2>2. Shallow(t)
      BY <2>1, ShallowFacts
    <2>3. t = Said(txt)
      BY DEF Said, k, l
    <2> HIDE DEF t
    <2> QED
      BY <2>1, <2>2, <2>3 DEF Speech
  <1>3. Step(a, Mark(Begin(e)), <<e>> \o a) /\ Step(<<e>> \o a, Mark(End(e)), a) /\ <<e>> \o a \in Stacks
    BY ElementCalls
  <1>4. Mark(Said(txt)) = <<"in", "">> /\ Mark(Text("plain", txt)) = <<"t", "">>
    BY <1>p, <1>2 DEF Mark
  <1>5. <<e>> \o a # <<>>
    <2>1. e \in Strings
      BY Plainly
    <2> QED
      BY <2>1, ConsFacts DEF Stacks
  <1> DEFINE b == <<e>> \o a
  <1>6. b # <<>>
    BY <1>5
  <1> HIDE DEF b
  <1>7. \A s : Step(s, <<"t", "">>, s) /\ (s # <<>> => Step(s, <<"in", "">>, s))
    BY StepStill
  <1>8. Step(b, Mark(Said(txt)), b) /\ Step(b, Mark(Text("plain", txt)), b)
    BY <1>4, <1>6, <1>7
  <1>9. Step(a, Mark(Text("plain", txt)), a) /\ (a # <<>> => Step(a, Mark(Said(txt)), a))
    BY <1>4, <1>7
  <1> QED
    BY <1>1, <1>p, <1>2, <1>3, <1>8, <1>9 DEF b

LEMMA ThreeOf ==
  ASSUME NEW x, NEW y, NEW z
  PROVE  <<x, y, z>> = <<x>> \o (<<y>> \o <<z>>)
  <1>1. <<y, z>> = <<y>> \o <<z>>
    BY PairOf DEF Two
  <1>2. <<x, y, z>> = <<x>> \o <<y, z>>
    OBVIOUS
  <1> QED
    BY <1>1, <1>2, Zenon

LEMMA ElementGoes ==
  ASSUME SubsOK, NEW e \in Elements, NEW txt \in Seq(Strings), NEW a \in Stacks
  PROVE  /\ Via(Speech, a, Element(e, txt), a)
         /\ Via(Speech, a, <<Begin(e), Text("plain", txt), End(e)>>, a)
  <1> DEFINE b == Begin(e)
             t == Said(txt)
             p == Text("plain", txt)
             n == End(e)
             s == <<e>> \o a
  <1>1. /\ b \in Speech /\ t \in Speech /\ p \in Speech /\ n \in Speech /\ s \in Stacks
        /\ Step(a, Mark(b), s) /\ Step(s, Mark(t), s) /\ Step(s, Mark(p), s) /\ Step(s, Mark(n), a)
    BY SpeechFacts
  <1>2. Element(e, txt) = <<b, t, n>>
    BY DEF Element, Said
  <1> HIDE DEF b, t, p, n, s
  <1>3. Via(Speech, s, <<n>>, a)
    BY <1>1, SpeechIn, ViaOne
  <1>4. Via(Speech, s, <<t>> \o <<n>>, a) /\ Via(Speech, s, <<p>> \o <<n>>, a)
    BY <1>1, <1>3, SpeechIn, ViaCons
  <1>5. Via(Speech, a, <<b>> \o (<<t>> \o <<n>>), a) /\ Via(Speech, a, <<b>> \o (<<p>> \o <<n>>), a)
    BY <1>1, <1>4, SpeechIn, ViaCons
  <1>6. <<b, t, n>> = <<b>> \o (<<t>> \o <<n>>) /\ <<b, p, n>> = <<b>> \o (<<p>> \o <<n>>)
    BY ThreeOf
  <1>7. Via(Speech, a, <<b, t, n>>, a) /\ Via(Speech, a, <<b, p, n>>, a)
    BY <1>5, <1>6, Zenon
  <1> QED
    BY <1>2, <1>7 DEF b, p, n

Idling(t) == t.k \notin {"begin", "end", "title"}
Longest(l, T) == Max({m \in 1 .. l : \A i \in 2 .. m : i \in T})

LEMMA SpokenKeeps ==
  ASSUME IInv, NEW kinds, Front1(kinds), NEW n \in 1 .. Len(queue), NEW cs, Calls(n, cs),
         Via(Speech, rend.stack, cs, rend.stack),
         \A i \in 1 .. n : Idling(queue[i])
  PROVE  IInv'
  <1>1. PlainCalls(cs) /\ Goes(rend.stack, cs, rend.stack)
    BY SpeechCalls
  <1>2. \A i \in 1 .. n : Mark(queue[i])[1] \in {"t", "in"}
    BY StillToks DEF Idling
  <1> QED
    BY <1>1, <1>2, HandlerCalls

LEMMA FrontStill ==
  ASSUME IInv, NEW kinds, Front1(kinds), Tk.k \notin {"begin", "end", "title"} \cup InKinds
  PROVE  Step(rend.stack, Mark(Tk), rend.stack) /\ rend.stack \in Stacks
  <1>1. Mark(Tk) = <<"t", "">>
    BY DEF Mark, InKinds
  <1>2. Step(rend.stack, <<"t", "">>, rend.stack)
    BY StepStill
  <1>3. rend.stack \in Stacks
    BY HereFacts DEF IInv
  <1> QED
    BY <1>1, <1>2, <1>3

LEMMA BlankLineKeeps == ASSUME IInv, BlankLine PROVE IInv'
  <1> DEFINE p == Put(rend, "nl")
             r == PushBlank(p)
  <1>1. Front1({"blank"}) /\ Writes(r, 1)
    BY DEF BlankLine
  <1>2. /\ Tk.k \in {"blank"} /\ rend \in Rends /\ rend.err = "" /\ \A i \in DOMAIN rend.lits : Len(rend.lits[i]) = 3
    BY <1>1, FrontFacts
  <1>3. "nl" \in Strings /\ "blank" \in Whats
    BY DEF Strings, Whats
  <1>4. p \in Rends /\ Alike(p, rend)
    BY <1>2, <1>3, PutFacts
  <1> HIDE DEF p
  <1>5. Blocked(r, p, "blank")
    BY <1>4, PushFacts
  <1> HIDE DEF r
  <1>6. r \in Rends /\ r.stack = p.stack /\ r.styles = p.styles /\ r.barrier = p.barrier /\ r.lits = p.lits /\ r.err = p.err
    <2> DEFINE w == "blank"
    <2>1. p \in Rends /\ w \in Whats /\ Blocked(r, p, w)
      BY <1>3, <1>4, <1>5
    <2> HIDE DEF w
    <2> QED
      BY <2>1, BlockedSame
  <1>7. r.stack = rend.stack /\ r.styles = rend.styles /\ r.barrier = rend.barrier /\ r.lits = rend.lits /\ r.err = rend.err
    BY <1>4, <1>6 DEF Alike
  <1>8. Tk.k \notin {"begin", "end", "title"} \cup InKinds
    BY <1>2 DEF InKinds
  <1>9. Step(rend.stack, Mark(Tk), r.stack)
    BY <1>1, <1>7, <1>8, FrontStill
  <1>10. r.err = "" /\ \A i \in DOMAIN r.lits : Len(r.lits[i]) = 3
    BY <1>2, <1>7
  <1> QED
    BY <1>1, <1>6, <1>7, <1>9, <1>10, HandlerWrites

LEMMA PutKeeps ==
  ASSUME IInv, NEW kinds, Front1(kinds), Tk.k \notin {"begin", "end", "title"} \cup InKinds,
         NEW w \in Strings, Writes(Put(rend, w), 1)
  PROVE  IInv'
  <1> DEFINE r == Put(rend, w)
  <1>2. rend \in Rends /\ rend.err = "" /\ \A i \in DOMAIN rend.lits : Len(rend.lits[i]) = 3
    BY FrontFacts
  <1>3. Writes(r, 1)
    OBVIOUS
  <1>4. r \in Rends /\ Alike(r, rend)
    BY <1>2, PutFacts
  <1> HIDE DEF r
  <1>7. r.stack = rend.stack /\ r.styles = rend.styles /\ r.barrier = rend.barrier /\ r.lits = rend.lits /\ r.err = rend.err
    BY <1>4 DEF Alike
  <1>9. Step(rend.stack, Mark(Tk), r.stack)
    BY <1>7, FrontStill
  <1>10. r.err = "" /\ \A i \in DOMAIN r.lits : Len(r.lits[i]) = 3
    BY <1>2, <1>7
  <1> QED
    BY <1>3, <1>4, <1>7, <1>9, <1>10, HandlerWrites

LEMMA RuleKeeps == ASSUME IInv, Rule PROVE IInv'
  <1>1. Front1({"starsep", "hr"}) /\ Writes(Put(rend, Tk.k), 1)
    BY DEF Rule
  <1>2. Tk.k \in {"starsep", "hr"}
    BY <1>1, FrontFacts
  <1>3. Tk.k \in Strings
    BY <1>2 DEF Strings
  <1>4. Tk.k \notin {"begin", "end", "title"} \cup InKinds
    BY <1>2 DEF InKinds
  <1> QED
    BY <1>1, <1>3, <1>4, PutKeeps

LEMMA NewlineKeeps == ASSUME IInv, Newline PROVE IInv'
  <1>1. Front1({"nl"}) /\ Writes(Put(rend, "nl"), 1)
    BY DEF Newline
  <1>2. Tk.k \in {"nl"}
    BY <1>1, FrontFacts
  <1>3. "nl" \in Strings
    BY DEF Strings
  <1>4. Tk.k \notin {"begin", "end", "title"} \cup InKinds
    BY <1>2 DEF InKinds
  <1> QED
    BY <1>1, <1>3, <1>4, PutKeeps

LEMMA FailFacts ==
  ASSUME NEW r \in Rends, NEW what \in Errors
  PROVE  LET f == Fail(r, what)
         IN /\ f \in Rends /\ f.err = what /\ f.stack = r.stack /\ f.styles = r.styles /\ f.barrier = r.barrier
            /\ f.lits = r.lits /\ f.leak = r.leak /\ f.res = r.res /\ f.blocks = r.blocks /\ f.title = r.title
            /\ f.floor = r.floor /\ f.mode = r.mode
  BY DEF Fail, Rends

\* A header without a text, where something is to be replaced in it.
LEMMA NoTextKeeps ==
  ASSUME IInv, NEW kinds, Front1(kinds), Tk.k \notin {"begin", "end", "title"} \cup InKinds,
         NoText, Writes(Fail(rend, "TypeError"), 1)
  PROVE  IInv'
  <1> DEFINE r == Fail(rend, "TypeError")
  <1>1. rend \in Rends /\ rend.err = "" /\ \A i \in DOMAIN rend.lits : Len(rend.lits[i]) = 3
    BY FrontFacts
  <1>2. "TypeError" \in Errors
    BY DEF Errors, Substituting
  <1>3. /\ r \in Rends /\ r.err = "TypeError" /\ r.stack = rend.stack /\ r.styles = rend.styles
        /\ r.barrier = rend.barrier /\ r.lits = rend.lits
    BY <1>1, <1>2, FailFacts
  <1>4. Writes(r, 1)
    OBVIOUS
  <1> HIDE DEF r
  <1>5. Step(rend.stack, Mark(Tk), r.stack)
    BY <1>3, FrontStill
  <1>6. Substitutes
    BY DEF NoText, IInv, SubsOK
  <1>7. \A i \in DOMAIN r.lits : Len(r.lits[i]) = 3
    BY <1>1, <1>3
  <1> QED
    BY <1>3, <1>4, <1>5, <1>6, <1>7, HandlerWrites

LEMMA HeaderKeeps == ASSUME IInv, Header PROVE IInv'
  <1> DEFINE n == 1
             cs == Element("h", Tk.txt)
  <1>0. CASE NoText /\ Writes(Fail(rend, "TypeError"), 1)
    <2>1. Front1({"header"})
      BY DEF Header
    <2>2. Tk.k \in {"header"}
      BY <2>1, FrontFacts
    <2>3. Tk.k \notin {"begin", "end", "title"} \cup InKinds
      BY <2>2 DEF InKinds
    <2> QED
      BY <1>0, <2>1, <2>3, NoTextKeeps
  <1>n. SUFFICES ASSUME Front1({"header"}), Calls(n, cs) PROVE IInv'
    BY <1>0 DEF Header
  <1>1. Front1({"header"}) /\ Calls(n, cs)
    BY <1>n
  <1>2. Tk.k \in {"header"} /\ Tk.txt \in Seq(Strings) /\ Tk = queue[1] /\ n \in 1 .. Len(queue)
    BY <1>1, FrontFacts
  <1>3. rend.stack \in Stacks /\ "h" \in Elements
    BY HereFacts DEF IInv, Elements
  <1>4. Via(Speech, rend.stack, cs, rend.stack)
    BY <1>2, <1>3, ElementGoes DEF IInv
  <1>5. \A i \in 1 .. n : Idling(queue[i])
    BY <1>2 DEF Idling
  <1> HIDE DEF n, cs
  <1> QED
    BY <1>1, <1>2, <1>4, <1>5, SpokenKeeps

LEMMA RunIndex ==
  ASSUME NEW l \in Nat, NEW n \in 1 .. l
  PROVE  n \in 0 .. l /\ \A i \in 1 .. n : i = 1 \/ (i \in 2 .. n /\ i \in 1 .. l)
  OBVIOUS

LEMMA RunKeeps ==
  ASSUME IInv, NEW kinds, Front1(kinds), Idling(Tk), NEW T, NEW n,
         n = Longest(Len(queue), T),
         \A i \in 1 .. Len(queue) : i \in T => Idling(queue[i])
  PROVE  /\ n \in 1 .. Len(queue) /\ n \in 0 .. Len(queue) /\ \A i \in 2 .. n : i \in T
         /\ \A i \in 1 .. n : Idling(queue[i])
         /\ Join(queue, n) \in Seq(Strings)
  <1>1. queue # <<>> /\ Tk = queue[1] /\ Len(queue) \in Nat
    BY FrontFacts
  <1>2. queue \in Seq(Tokens(Here))
    BY HereFacts DEF IInv
  <1>3. n \in 1 .. Len(queue) /\ \A i \in 2 .. n : i \in T
    BY <1>1, <1>2, RunFacts DEF Longest
  <1>4. n \in 0 .. Len(queue) /\ \A i \in 1 .. n : i = 1 \/ (i \in 2 .. n /\ i \in 1 .. Len(queue))
    BY <1>1, <1>3, RunIndex
  <1>5. Join(queue, n) \in Seq(Strings)
    BY <1>2, <1>4, JoinType
  <1>6. \A i \in 1 .. n : Idling(queue[i])
    BY <1>1, <1>3, <1>4
  <1> QED
    BY <1>3, <1>4, <1>5, <1>6

LEMMA ParagraphKeeps == ASSUME IInv, Paragraph PROVE IInv'
  <1> DEFINE T == {i \in 1 .. Len(queue) : queue[i].k = "p" \/ (queue[i].k = "ol" /\ queue[i].digit)}
             n == Max({m \in 1 .. Len(queue) : \A i \in 2 .. m : i \in T})
  <1>1. Front1({"p"})
    BY DEF Paragraph
  <1>2. {m \in 1 .. Len(queue) : \A i \in 2 .. m : i \in T} =
        {m \in 1 .. Len(queue) : \A i \in 2 .. m : queue[i].k = "p" \/ (queue[i].k = "ol" /\ queue[i].digit)}
    OBVIOUS
  <1>3. Calls(n, Element("p", Join(queue, n)))
    BY <1>2 DEF Paragraph, Run
  <1>4. Tk.k \in {"p"}
    BY <1>1, FrontFacts
  <1>5. \A i \in 1 .. Len(queue) : i \in T => Idling(queue[i])
    BY DEF Idling
  <1>6. Idling(Tk)
    BY <1>4 DEF Idling
  <1> HIDE DEF T
  <1>7. n = Longest(Len(queue), T)
    BY DEF Longest
  <1> HIDE DEF n
  <1>8. /\ n \in 1 .. Len(queue) /\ \A i \in 1 .. n : Idling(queue[i])
        /\ Join(queue, n) \in Seq(Strings)
    BY <1>1, <1>5, <1>6, <1>7, RunKeeps
  <1>9. rend.stack \in Stacks /\ "p" \in Elements
    BY HereFacts DEF IInv, Elements
  <1>10. Via(Speech, rend.stack, Element("p", Join(queue, n)), rend.stack)
    BY <1>8, <1>9, ElementGoes DEF IInv
  <1> QED
    BY <1>1, <1>3, <1>8, <1>10, SpokenKeeps

LEMMA ParaKeeps == ASSUME IInv, Para PROVE IInv'
  <1> DEFINE T == {i \in 1 .. Len(queue) : queue[i].k \in {"para", "ptext"}}
             n == Max({m \in 1 .. Len(queue) : \A i \in 2 .. m : i \in T})
  <1>1. Front1({"para"})
    BY DEF Para
  <1>2. {m \in 1 .. Len(queue) : \A i \in 2 .. m : i \in T} =
        {m \in 1 .. Len(queue) : \A i \in 2 .. m : queue[i].k \in {"para", "ptext"}}
    OBVIOUS
  <1>3. Calls(n, Element("p", Join(queue, n)))
    BY <1>2 DEF Para, Run
  <1>4. Tk.k \in {"para"}
    BY <1>1, FrontFacts
  <1>5. \A i \in 1 .. Len(queue) : i \in T => Idling(queue[i])
    BY DEF Idling
  <1>6. Idling(Tk)
    BY <1>4 DEF Idling
  <1> HIDE DEF T
  <1>7. n = Longest(Len(queue), T)
    BY DEF Longest
  <1> HIDE DEF n
  <1>8. /\ n \in 1 .. Len(queue) /\ \A i \in 1 .. n : Idling(queue[i])
        /\ Join(queue, n) \in Seq(Strings)
    BY <1>1, <1>5, <1>6, <1>7, RunKeeps
  <1>9. rend.stack \in Stacks /\ "p" \in Elements
    BY HereFacts DEF IInv, Elements
  <1>10. Via(Speech, rend.stack, Element("p", Join(queue, n)), rend.stack)
    BY <1>8, <1>9, ElementGoes DEF IInv
  <1> QED
    BY <1>1, <1>3, <1>8, <1>10, SpokenKeeps

LEMMA PTextKeeps == ASSUME IInv, PText PROVE IInv'
  <1> DEFINE T == {i \in 1 .. Len(queue) : queue[i].k = "ptext"}
             n == Max({m \in 1 .. Len(queue) : \A i \in 2 .. m : i \in T})
             t == Said(Join(queue, n))
  <1>1. Front1({"ptext"})
    BY DEF PText
  <1>2. {m \in 1 .. Len(queue) : \A i \in 2 .. m : i \in T} =
        {m \in 1 .. Len(queue) : \A i \in 2 .. m : queue[i].k = "ptext"}
    OBVIOUS
  <1>3. Calls(n, <<t>>)
    BY <1>2 DEF PText, Run, Said
  <1>4. Tk.k \in {"ptext"}
    BY <1>1, FrontFacts
  <1>5. \A i \in 1 .. Len(queue) : i \in T => Idling(queue[i])
    BY DEF Idling
  <1>6. Idling(Tk)
    BY <1>4 DEF Idling
  <1> HIDE DEF T
  <1>7. n = Longest(Len(queue), T)
    BY DEF Longest
  <1> HIDE DEF n
  <1>8. /\ n \in 1 .. Len(queue) /\ \A i \in 1 .. n : Idling(queue[i])
        /\ Join(queue, n) \in Seq(Strings)
    BY <1>1, <1>5, <1>6, <1>7, RunKeeps
  <1>9. rend.stack \in Stacks /\ "p" \in Elements
    BY HereFacts DEF IInv, Elements
  <1>10. rend.stack # <<>>
    <2>1. /\ queue # <<>> /\ queue \in Seq(Tokens(Here)) /\ Goes(rend.stack, queue, <<>>) /\ Tk = Head(queue)
      BY <1>1, FrontFacts, HereFacts DEF IInv
    <2>2. PICK c \in Stacks : Step(rend.stack, Mark(Head(queue)), c)
      BY <2>1, GoesFirst
    <2>3. Mark(Head(queue)) = <<"in", "">>
      BY <1>4, <2>1 DEF Mark
    <2>4. Step(rend.stack, <<"in", "">>, c) => rend.stack # <<>>
      BY StepStill
    <2> QED
      BY <2>2, <2>3, <2>4
  <1>11. t \in Speech /\ Step(rend.stack, Mark(t), rend.stack)
    BY <1>8, <1>9, <1>10, SpeechFacts DEF IInv
  <1> HIDE DEF t
  <1>12. Via(Speech, rend.stack, <<t>>, rend.stack)
    BY <1>9, <1>11, SpeechIn, ViaOne
  <1> QED
    BY <1>1, <1>3, <1>8, <1>12, SpokenKeeps

LEMMA PreRunFacts ==
  ASSUME NEW S, NEW q \in Seq(S), q # <<>>, q[1].k = "indented"
  PROVE  /\ PreRun(q) \in 1 .. Len(q)
         /\ \A i \in 1 .. PreRun(q) : q[i].k \in {"indented", "blank"}
  <1> DEFINE R == {n \in 1 .. Len(q) :
         /\ q[n].k = "indented"
         /\ \A i \in 2 .. n : q[i].k # "indented" =>
              q[i].k = "blank" /\ i > 2 /\ {q[i - 1].k, q[i + 1].k} = {"indented"}}
             n == Max(R)
  <1>1. Len(q) \in Nat /\ Len(q) >= 1
    BY HeadAndTail
  <1>2. 1 \in R
    BY <1>1
  <1>3. R \subseteq Nat /\ R # {} /\ \A x \in R : x <= Len(q)
    BY <1>1, <1>2
  <1> HIDE DEF R
  <1>4. n \in R
    BY <1>1, <1>3, MaxFacts
  <1>5. PreRun(q) = n
    BY DEF PreRun, R
  <1> HIDE DEF n
  <1>6. n \in 1 .. Len(q) /\ \A i \in 2 .. n : q[i].k # "indented" => q[i].k = "blank"
    BY <1>4 DEF R
  <1>7. \A i \in 1 .. n : i = 1 \/ i \in 2 .. n
    BY <1>1, <1>6
  <1> QED
    BY <1>5, <1>6, <1>7

LEMMA IndentedKeeps == ASSUME IInv, Indented PROVE IInv'
  <1> DEFINE n == PreRun(queue)
  <1>1. Front1({"indented"}) /\ Calls(n, <<Begin("pre"), Text("plain", Join(queue, n)), End("pre")>>)
    BY DEF Indented
  <1>2. Tk.k \in {"indented"} /\ Tk = queue[1] /\ queue # <<>> /\ Len(queue) \in Nat
    BY <1>1, FrontFacts
  <1>3. queue \in Seq(Tokens(Here)) /\ rend.stack \in Stacks /\ "pre" \in Elements
    BY HereFacts DEF IInv, Elements
  <1>4. n \in 1 .. Len(queue) /\ \A i \in 1 .. n : queue[i].k \in {"indented", "blank"}
    BY <1>2, <1>3, PreRunFacts
  <1> HIDE DEF n
  <1>5. n \in 0 .. Len(queue) /\ \A i \in 1 .. n : Idling(queue[i])
    BY <1>2, <1>4 DEF Idling
  <1>6. Join(queue, n) \in Seq(Strings)
    BY <1>3, <1>5, JoinType
  <1>7. Via(Speech, rend.stack, <<Begin("pre"), Text("plain", Join(queue, n)), End("pre")>>, rend.stack)
    BY <1>3, <1>6, ElementGoes DEF IInv
  <1> QED
    BY <1>1, <1>4, <1>5, <1>7, SpokenKeeps

LEMMA OnlyFirst ==
  ASSUME queue[1].k \notin {"begin", "end", "title"}
  PROVE  \A i \in 1 .. 1 : Mark(queue[i])[1] \in {"t", "in"}
  <1>1. Mark(queue[1])[1] \in {"t", "in"}
    BY StillToks
  <1>2. \A i \in 1 .. 1 : i = 1
    OBVIOUS
  <1> QED
    BY <1>1, <1>2, Zenon

LEMMA HeadlineGoes ==
  ASSUME SubsOK, NEW txt \in Seq(Strings), NEW a \in Stacks
  PROVE  LET cs == <<Begin("h"), Said(txt), Text("title", <<>>)>>
         IN PlainCalls(cs) /\ Goes(a, cs, a)
  <1> DEFINE b == Begin("h")
             t == Said(txt)
             n == Text("title", <<>>)
             cs == <<b, t, n>>
             s == <<"h">> \o a
  <1>1. "h" \in Elements
    BY DEF Elements
  <1>2. /\ b \in Speech /\ t \in Speech /\ s \in Stacks /\ Step(a, Mark(b), s) /\ Step(s, Mark(t), s)
    BY <1>1, SpeechFacts
  <1>3. b.k = "begin" /\ t.k # "title" /\ n.k = "title" /\ n \in CallToks(Here)
    <2>1. <<>> \in Seq(Strings)
      BY NoneFacts
    <2>2. t.k \in {"begin", "end", "plain", "text"}
      BY <1>2 DEF Speech
    <2> QED
      BY <1>1, <2>1, <2>2, BeginEnd, TextType
  <1>s. Shallow(b) /\ Shallow(t) /\ Shallow(n)
    BY <1>2, <1>3, ShallowFacts DEF Speech
  <1>l. t.k \notin {"endlink", "endabbr", "endstyle"}
    BY <1>2 DEF Speech
  <1>4. Mark(n) = <<"-", "h">>
    BY <1>3 DEF Mark
  <1>5. Step(s, <<"-", "h">>, a)
    BY <1>1, Plainly, StepEnd
  <1>6. Step(s, Mark(n), a)
    BY <1>4, <1>5
  <1> HIDE DEF b, t, n, s
  <1>7. b \in CallToks(Here) /\ t \in CallToks(Here) /\ CallToks(Here) \subseteq Tokens(Here)
    BY <1>2, SpeechIn DEF CallToks
  <1> DEFINE B == CallToks(Here)
  <1>8. b \in B /\ t \in B /\ n \in B /\ B \subseteq Tokens(Here)
    BY <1>3, <1>7
  <1> HIDE DEF B
  <1>9. Via(B, s, <<n>>, a)
    BY <1>2, <1>6, <1>8, ViaOne
  <1>10. Via(B, s, <<t>> \o <<n>>, a)
    BY <1>2, <1>8, <1>9, ViaCons
  <1>11. Via(B, a, <<b>> \o (<<t>> \o <<n>>), a)
    BY <1>2, <1>8, <1>10, ViaCons
  <1>12. Via(B, a, cs, a)
    BY <1>11, ThreeOf, Zenon
  <1>13. DOMAIN cs = {1, 2, 3} /\ cs[1] = b /\ cs[2] = t /\ cs[3] = n
    OBVIOUS
  <1> HIDE DEF cs
  <1>14. cs \in Seq(CallToks(Here)) /\ Goes(a, cs, a)
    BY <1>12 DEF Via, B
  <1>15. \A i \in DOMAIN cs : cs[i].k \notin {"endlink", "endabbr", "endstyle"}
    BY <1>3, <1>l, <1>13
  <1>16. \A i, j \in DOMAIN cs : j < i => cs[j].k # "title"
    <2>1. \A i, j \in {1, 2, 3} : j < i => j = 1 \/ j = 2
      OBVIOUS
    <2>2. cs[1].k # "title" /\ cs[2].k # "title"
      BY <1>3, <1>13
    <2> QED
      BY <1>13, <2>1, <2>2
  <1>18. \A i \in DOMAIN cs : Shallow(cs[i])
    BY <1>s, <1>13
  <1>17. PlainCalls(cs) /\ Goes(a, cs, a)
    BY <1>14, <1>15, <1>16, <1>18 DEF PlainCalls
  <1> QED
    BY <1>17 DEF cs, b, t, n

LEMMA Header1Keeps == ASSUME IInv, Header1 PROVE IInv'
  <1>1. Front1({"header1"})
    BY DEF Header1
  <1>2. /\ Tk.k \in {"header1"} /\ Tk.txt \in Seq(Strings) /\ Tk = queue[1] /\ queue # <<>> /\ Tk = Head(queue)
        /\ 1 \in 1 .. Len(queue) /\ rend \in Rends /\ rend.err = "" /\ \A i \in DOMAIN rend.lits : Len(rend.lits[i]) = 3
    BY <1>1, FrontFacts
  <1>3. CASE rend.res # <<>> /\ Writes(Fail(rend, "AssertionError"), 1)
    <2> DEFINE r == Fail(rend, "AssertionError")
    <2>1. "AssertionError" \in Errors
      BY DEF Errors
    <2>2. /\ r \in Rends /\ r.err = "AssertionError" /\ r.stack = rend.stack /\ r.styles = rend.styles
          /\ r.barrier = rend.barrier /\ r.lits = rend.lits
      BY <1>2, <2>1, FailFacts
    <2>3. Writes(r, 1)
      BY <1>3
    <2> HIDE DEF r
    <2>4. ~Untitled(queue)
      <3>1. 1 \in DOMAIN queue
        <4>1. queue \in Seq(Tokens(Here))
          BY HereFacts DEF IInv
        <4> QED
          BY <1>2, <4>1, DomainFacts
      <3> QED
        BY <1>2, <3>1 DEF Untitled
    <2>5. input.doc[1].k = "quote"
      BY <1>3, <2>4 DEF IInv, HeaderOK
    <2>6. Tk.k \notin {"begin", "end", "title"} \cup InKinds
      BY <1>2 DEF InKinds
    <2>7. Step(rend.stack, Mark(Tk), r.stack)
      BY <1>1, <2>2, <2>6, FrontStill
    <2>8. \A i \in DOMAIN r.lits : Len(r.lits[i]) = 3
      BY <1>2, <2>2
    <2> QED
      BY <1>1, <2>2, <2>3, <2>5, <2>7, <2>8, HandlerWrites
  <1>4. CASE Calls(1, <<Begin("h"), Said(Tk.txt), Text("title", <<>>)>>)
    <2> DEFINE n == 1
               cs == <<Begin("h"), Said(Tk.txt), Text("title", <<>>)>>
    <2>1. Calls(n, cs) /\ n \in 1 .. Len(queue)
      BY <1>2, <1>4
    <2>2. rend.stack \in Stacks
      BY HereFacts DEF IInv
    <2>3. PlainCalls(cs) /\ Goes(rend.stack, cs, rend.stack)
      BY <1>2, <2>2, HeadlineGoes DEF IInv
    <2>4. \A i \in 1 .. n : Mark(queue[i])[1] \in {"t", "in"}
      <3>1. queue[1].k \notin {"begin", "end", "title"}
        BY <1>2
      <3> QED
        BY <3>1, OnlyFirst
    <2> HIDE DEF n, cs
    <2> QED
      BY <1>1, <2>1, <2>3, <2>4, HandlerCalls
  <1>5. CASE NoText /\ Writes(Fail(rend, "TypeError"), 1)
    <2>1. Tk.k \notin {"begin", "end", "title"} \cup InKinds
      BY <1>2 DEF InKinds
    <2> QED
      BY <1>1, <1>5, <2>1, NoTextKeeps
  <1> QED
    BY <1>3, <1>4, <1>5 DEF Header1, Said

LEMMA ProcNoteKeeps == ASSUME IInv, ProcNote PROVE IInv'
  <1> DEFINE n == 1
             t == [Tk EXCEPT !.k = "notes"]
             cs == <<t>>
  <1>1. Front1({"procnote"}) /\ Calls(n, cs)
    BY DEF ProcNote
  <1>2. Tk.k \in {"procnote"} /\ Tk = queue[1] /\ n \in 1 .. Len(queue) /\ Tk \in Toks(Here)
    BY <1>1, FrontFacts
  <1>3. Tk \in Tokens(Here) /\ \A i \in DOMAIN Tk.kid : Tk.kid[i].k \in NoteKinds
    BY <1>2 DEF Toks, Fits
  <1>4. t \in Tokens(Here) /\ t.k = "notes" /\ t.kid = Tk.kid
    BY <1>3 DEF Tokens, CallKinds
  <1>5. \A i \in 1 .. n : Mark(queue[i])[1] \in {"t", "in"}
    <2>1. queue[1].k \notin {"begin", "end", "title"}
      BY <1>2
    <2> QED
      BY <2>1, OnlyFirst
  <1> HIDE DEF t, n
  <1>6. t \in CallToks(Here)
    BY <1>3, <1>4 DEF CallToks, CallKinds, Opener
  <1>7. Mark(t) = <<"t", "">>
    BY <1>4 DEF Mark
  <1>8. rend.stack \in Stacks
    BY HereFacts DEF IInv
  <1>9. Goes(rend.stack, cs, rend.stack)
    <2>1. Step(rend.stack, <<"t", "">>, rend.stack)
      BY StepStill
    <2>2. t \in Tokens(Here)
      BY <1>4
    <2> QED
      BY <1>7, <1>8, <2>1, <2>2, GoesOne
  <1>10. cs \in Seq(CallToks(Here)) /\ DOMAIN cs = {1} /\ cs[1] = t
    BY <1>6, OneFacts
  <1> HIDE DEF cs
  <1>11. PlainCalls(cs)
    <2>1. \A i \in DOMAIN cs : cs[i].k = "notes"
      BY <1>4, <1>10
    <2>2. \A i \in DOMAIN cs : cs[i].k \notin {"endlink", "endabbr", "endstyle"} /\ cs[i].k # "title"
      BY <2>1
    <2>3. \A i \in DOMAIN cs : Shallow(cs[i])
      BY <2>1, ShallowFacts
    <2> QED
      BY <1>10, <2>2, <2>3 DEF PlainCalls
  <1> QED
    BY <1>1, <1>2, <1>5, <1>9, <1>11, HandlerCalls

LEMMA CutShortKeeps == ASSUME IInv, CutShort PROVE IInv'
  <1>1. Front1({"cutshort"})
    BY DEF CutShort
  <1>2. /\ Tk.k \in {"cutshort"} /\ Tk.txt \in Seq(Strings) /\ Tk = queue[1]
        /\ 1 \in 1 .. Len(queue) /\ rend \in Rends /\ rend.err = "" /\ \A i \in DOMAIN rend.lits : Len(rend.lits[i]) = 3
    BY <1>1, FrontFacts
  <1>3. CASE Pushes(1, <<AsParagraph(Tk)>>)
    <2> DEFINE n == 1
               p == AsParagraph(Tk)
               toks == <<p>>
               kinds == {"cutshort"}
    <2>1. p \in Kin /\ Mark(p) = <<"t", "">>
      BY <1>2, KinTexts, ParaType DEF AsParagraph, IInv
    <2>2. Pushes(n, toks) /\ n \in 1 .. Len(queue)
      BY <1>2, <1>3
    <2>3. "header1" \notin kinds /\ "indented" \notin kinds /\ Front1(kinds)
      BY <1>1
    <2>4. \A i \in 1 .. n : Mark(queue[i])[1] \in {"t", "in"}
      <3>1. queue[1].k \notin {"begin", "end", "title"}
        BY <1>2
      <3> QED
        BY <3>1, OnlyFirst
    <2> HIDE DEF p, n, kinds
    <2>5. rend.stack \in Stacks /\ Kin \subseteq Tokens(Here)
      BY HereFacts, BaseFacts DEF IInv
    <2>6. Step(rend.stack, Mark(p), rend.stack)
      <3>1. Step(rend.stack, <<"t", "">>, rend.stack)
        BY StepStill
      <3> QED
        BY <2>1, <3>1
    <2>7. Via(Kin, rend.stack, toks, rend.stack)
      BY <2>1, <2>5, <2>6, ViaOne
    <2> HIDE DEF toks
    <2>8. toks \in Seq(Kin) /\ Goes(rend.stack, toks, rend.stack)
      BY <2>7 DEF Via
    <2> QED
      BY <2>2, <2>3, <2>4, <2>8, HandlerPushes
  <1>4. CASE Writes(AddBlock(ForceBlock(rend, "chunk"), "cutshort"), 1)
    <2> DEFINE f == ForceBlock(rend, "chunk")
               r == AddBlock(f, "cutshort")
    <2>1. "chunk" \in Whats /\ "cutshort" \in Whats
      BY DEF Whats
    <2>2. Blocked(f, rend, "chunk")
      BY <1>2, PushFacts
    <2> HIDE DEF f
    <2>3. f \in Rends /\ f.stack = rend.stack /\ f.styles = rend.styles /\ f.barrier = rend.barrier
          /\ f.lits = rend.lits /\ f.err = rend.err
      <3> DEFINE w == "chunk"
      <3>1. rend \in Rends /\ w \in Whats /\ Blocked(f, rend, w)
        BY <1>2, <2>1, <2>2
      <3> HIDE DEF w
      <3> QED
        BY <3>1, BlockedSame
    <2>4. r \in Rends /\ r.stack = f.stack /\ r.styles = f.styles /\ r.barrier = f.barrier /\ r.lits = f.lits /\ r.err = f.err
      BY <2>1, <2>3, AddBlockFacts
    <2>5. Writes(r, 1)
      BY <1>4 DEF f
    <2> HIDE DEF r
    <2>6. Tk.k \notin {"begin", "end", "title"} \cup InKinds
      BY <1>2 DEF InKinds
    <2>7. Step(rend.stack, Mark(Tk), r.stack)
      BY <1>1, <2>3, <2>4, <2>6, FrontStill
    <2>8. r.err = "" /\ r.barrier = rend.barrier /\ r.styles = rend.styles /\ \A i \in DOMAIN r.lits : Len(r.lits[i]) = 3
      BY <1>2, <2>3, <2>4
    <2> QED
      BY <1>1, <2>4, <2>5, <2>7, <2>8, HandlerWrites
  <1> QED
    BY <1>3, <1>4 DEF CutShort

LEMMA BeginElementKeeps == ASSUME IInv, BeginElement PROVE IInv'
  <1> DEFINE e == Tk.el
             r == HandleBegin(rend, e)
  <1>1. Front1({"begin"}) /\ Writes(r, 1)
    BY DEF BeginElement
  <1>2. /\ Tk.k \in {"begin"} /\ Tk \in Toks(Here)
        /\ rend \in Rends /\ rend.err = "" /\ \A i \in DOMAIN rend.lits : Len(rend.lits[i]) = 3
    BY <1>1, FrontFacts
  <1>3. e \in Elements
    BY <1>2 DEF Toks, Fits
  <1>4. Mark(Tk) = <<"+", e>>
    BY <1>2 DEF Mark
  <1>5. rend.stack \in Stacks
    BY HereFacts DEF IInv
  <1> HIDE DEF e
  <1>6. /\ r \in Rends /\ r.stack = <<e>> \o rend.stack
        /\ r.styles = rend.styles /\ r.barrier = rend.barrier /\ r.lits = rend.lits /\ r.err = rend.err
    BY <1>2, <1>3, HandleBeginFacts
  <1> HIDE DEF r
  <1>7. Step(rend.stack, <<"+", e>>, r.stack)
    BY <1>3, <1>5, <1>6, StepBegin
  <1>8. Step(rend.stack, Mark(Tk), r.stack)
    BY <1>4, <1>7
  <1>9. r.err = "" /\ \A i \in DOMAIN r.lits : Len(r.lits[i]) = 3
    BY <1>2, <1>6
  <1> QED
    BY <1>1, <1>6, <1>8, <1>9, HandlerWrites

LEMMA EndElementOpen ==
  ASSUME IInv, Front1({"end"})
  PROVE  rend.stack # <<>> /\ Head(rend.stack) = Tk.el /\ Step(rend.stack, Mark(Tk), Tail(rend.stack))
  <1> DEFINE e == Tk.el
  <1>1. Tk.k \in {"end"} /\ Tk = Head(queue) /\ queue # <<>> /\ Goes(rend.stack, queue, <<>>)
    BY FrontFacts
  <1>2. Mark(Tk) = <<"-", e>>
    BY <1>1 DEF Mark
  <1> HIDE DEF e
  <1>3. queue \in Seq(Tokens(Here))
    BY HereFacts DEF IInv
  <1>4. PICK c \in Stacks : Step(rend.stack, Mark(Head(queue)), c)
    BY <1>1, <1>3, GoesFirst
  <1>5. Step(rend.stack, <<"-", e>>, c)
    BY <1>1, <1>2, <1>4
  <1>6. rend.stack # <<>> /\ Head(rend.stack) = e /\ c = Tail(rend.stack)
    BY <1>5, MinusStep
  <1> QED
    BY <1>1, <1>4, <1>6 DEF e

LEMMA EndElementKeeps == ASSUME IInv, EndElement PROVE IInv'
  <1> DEFINE e == Tk.el
             r == HandleEndAs(rend, e, e)
  <1>1. Front1({"end"}) /\ Writes(r, 1)
    BY DEF EndElement, HandleEnd
  <1>2. /\ Tk.k \in {"end"} /\ Tk \in Toks(Here)
        /\ rend \in Rends /\ rend.err = "" /\ \A i \in DOMAIN rend.lits : Len(rend.lits[i]) = 3
    BY <1>1, FrontFacts
  <1>3. e \in Elements /\ e \in Whats
    BY <1>2 DEF Toks, Fits, Whats
  <1>5. rend.stack # <<>> /\ Head(rend.stack) = e /\ Step(rend.stack, Mark(Tk), Tail(rend.stack))
    BY <1>1, EndElementOpen
  <1> HIDE DEF e
  <1>6. /\ r \in Rends /\ r.stack = Tail(rend.stack) /\ r.styles = <<>>
        /\ r.barrier = rend.barrier /\ r.lits = rend.lits /\ r.err = rend.err
    BY <1>2, <1>3, <1>5, HandleEndFacts
  <1> HIDE DEF r
  <1>8. Step(rend.stack, Mark(Tk), r.stack)
    BY <1>5, <1>6
  <1>9. r.err = "" /\ \A i \in DOMAIN r.lits : Len(r.lits[i]) = 3
    BY <1>2, <1>6
  <1> QED
    BY <1>1, <1>6, <1>8, <1>9, HandlerWrites

LEMMA InsertElementKeeps == ASSUME IInv, InsertElement PROVE IInv'
  <1> DEFINE c == CloseStyles(rend)
             r == Put(c, "<p>")
  <1>1. Front1({"insert"}) /\ Writes(r, 1)
    BY DEF InsertElement
  <1>2. Tk.k \in {"insert"} /\ rend \in Rends /\ rend.err = "" /\ \A i \in DOMAIN rend.lits : Len(rend.lits[i]) = 3
    BY <1>1, FrontFacts
  <1>3. "<p>" \in Strings
    BY DEF Strings
  <1>4. c \in Rends /\ c.styles = <<>> /\ c.stack = rend.stack /\ c.barrier = rend.barrier /\ c.lits = rend.lits /\ c.err = rend.err
    BY <1>2, CloseStylesFacts
  <1> HIDE DEF c
  <1>5. r \in Rends /\ Alike(r, c)
    BY <1>3, <1>4, PutFacts
  <1> HIDE DEF r
  <1>6. r.stack = rend.stack /\ r.styles = <<>> /\ r.barrier = rend.barrier /\ r.lits = rend.lits /\ r.err = rend.err
    BY <1>4, <1>5 DEF Alike
  <1>7. Tk.k \notin {"begin", "end", "title"} \cup InKinds
    BY <1>2 DEF InKinds
  <1>8. Step(rend.stack, Mark(Tk), r.stack)
    BY <1>1, <1>6, <1>7, FrontStill
  <1>9. r.err = "" /\ \A i \in DOMAIN r.lits : Len(r.lits[i]) = 3
    BY <1>2, <1>6
  <1> QED
    BY <1>1, <1>5, <1>6, <1>8, <1>9, HandlerWrites

-----------------------------------------------------------------------------
(* Tables.                                                                 *)

\* The cells of a row, of which there is always one that is not ended yet.
Rows == {c \in Seq(Seq(Strings)) : c # <<>>}
Cell(c, w) == IF w = "|" THEN Append(c, <<>>) ELSE Append(Front(c), Append(Last(c), w))

LEMMA CellType ==
  ASSUME NEW c \in Rows, NEW w \in Strings
  PROVE  Cell(c, w) \in Rows
  <1> DEFINE F == Seq(Strings)
  <1>1. c \in Seq(F) /\ c # <<>>
    BY DEF Rows
  <1>2. <<>> \in F
    BY NoneFacts
  <1>3. ASSUME NEW p \in Seq(F), NEW x \in F PROVE Append(p, x) \in Seq(F) /\ Append(p, x) # <<>>
    <2> HIDE DEF F
    <2>1. Append(p, x) \in Seq(F) /\ Len(Append(p, x)) = Len(p) + 1 /\ Len(p) \in Nat
      BY AppendFacts, DomainFacts
    <2>2. Len(Append(p, x)) # 0
      BY <2>1
    <2> QED
      BY <2>1, <2>2, LenNone, Zenon
  <1>4. Front(c) \in Seq(F) /\ Last(c) \in F
    <2> HIDE DEF F
    <2> QED
      BY <1>1, FrontType
  <1> DEFINE l == Last(c)
  <1>5. l \in Seq(Strings)
    BY <1>4
  <1> HIDE DEF l
  <1>6. Append(l, w) \in F
    BY <1>5, AppendFacts
  <1>7. Append(c, <<>>) \in Seq(F) /\ Append(c, <<>>) # <<>>
    BY <1>1, <1>2, <1>3
  <1>8. Append(Front(c), Append(l, w)) \in Seq(F) /\ Append(Front(c), Append(l, w)) # <<>>
    BY <1>3, <1>4, <1>6
  <1> QED
    BY <1>7, <1>8 DEF Rows, Cell, l

LEMMA CutType ==
  ASSUME NEW row \in Seq(Strings)
  PROVE  Cut(row) \in Rows
  <1> DEFINE n == Len(row)
             a == <<<<>>>>
             cut[i \in 0 .. Len(row)] ==
               IF i = 0 THEN <<<<>>>>
               ELSE IF row[i] = "|" THEN Append(cut[i - 1], <<>>)
               ELSE Append(Front(cut[i - 1]), Append(Last(cut[i - 1]), row[i]))
             Eq(f) == f = [i \in 0 .. Len(row) |->
               IF i = 0 THEN <<<<>>>>
               ELSE IF row[i] = "|" THEN Append(f[i - 1], <<>>)
               ELSE Append(Front(f[i - 1]), Append(Last(f[i - 1]), row[i]))]
             F == [i \in 1 .. n |-> [c \in Rows |-> Cell(c, row[i])]]
  <1>1. Cut(row) = cut[n]
    BY DEF Cut
  <1>u. cut = CHOOSE f : Eq(f)
    OBVIOUS
  <1> HIDE DEF cut
  <1>0. n \in Nat /\ \A i \in 1 .. n : row[i] \in Strings
    OBVIOUS
  <1>b. \A f : Eq(f) <=> f = [i \in 0 .. n |-> IF i = 0 THEN a ELSE Cell(f[i - 1], row[i])]
    BY DEF Cell
  <1> HIDE DEF Eq
  <1>2. F \in [1 .. n -> [Rows -> Rows]]
    BY <1>0, CellType
  <1>f. \A i \in 1 .. n, c \in Rows : F[i][c] = Cell(c, row[i])
    OBVIOUS
  <1>3. a \in Rows
    <2> DEFINE x == <<>>
    <2>1. x \in Seq(Strings)
      BY NoneFacts
    <2> DEFINE G == Seq(Strings)
    <2>2. x \in G
      BY <2>1
    <2> HIDE DEF x, G
    <2>3. <<x>> \in Seq(G) /\ Len(<<x>>) = 1
      BY <2>2, OneOf
    <2>4. 1 # 0
      OBVIOUS
    <2>5. <<x>> # <<>>
      BY <2>3, <2>4, LenNone, Zenon
    <2> QED
      BY <2>3, <2>5 DEF G, x, Rows
  <1> HIDE DEF F, n, a
  <1>4. PICK g \in Iterates(n, Rows, a, F) : TRUE
    BY <1>0, <1>2, <1>3, Recursion
  <1>5. g \in [0 .. n -> Rows] /\ g[0] = a /\ \A i \in 1 .. n : g[i] = F[i][g[i - 1]]
    BY <1>4 DEF Iterates
  <1>6. \A i \in 0 .. n : i # 0 => i \in 1 .. n /\ i - 1 \in 0 .. n
    BY <1>0
  <1>7. Eq(g)
    <2>1. ASSUME NEW i \in 0 .. n PROVE g[i] = IF i = 0 THEN a ELSE Cell(g[i - 1], row[i])
      BY <1>5, <1>6, <1>f
    <2>2. g = [i \in 0 .. n |-> IF i = 0 THEN a ELSE Cell(g[i - 1], row[i])]
      BY <1>5, <2>1
    <2> QED
      BY <2>2, <1>b
  <1>8. Eq(cut)
    BY <1>7, <1>u
  <1>9. cut = [i \in 0 .. n |-> IF i = 0 THEN a ELSE Cell(cut[i - 1], row[i])]
    BY <1>8, <1>b
  <1>10. cut \in Iterates(n, Rows, a, F)
    <2>1. cut = [i \in 0 .. n |-> cut[i]] /\ cut[0] = a
      <3>1. 0 \in 0 .. n
        BY <1>0
      <3> QED
        BY <1>9, <3>1
    <2>2. \A i \in 1 .. n : cut[i - 1] \in Rows => cut[i] = F[i][cut[i - 1]]
      <3>1. \A i \in 1 .. n : i \in 0 .. n /\ i # 0
        BY <1>0
      <3>2. \A i \in 1 .. n : cut[i] = Cell(cut[i - 1], row[i])
        BY <1>9, <3>1
      <3> QED
        BY <3>2, <1>f
    <2> QED
      BY <1>0, <1>2, <1>3, <2>1, <2>2, RecursIn
  <1> QED
    <2>1. n \in 0 .. n
      BY <1>0
    <2> QED
      BY <1>1, <1>10, <2>1 DEF Iterates

LEMMA CellsType ==
  ASSUME NEW row \in Seq(Strings)
  PROVE  Cells(row) \in Seq(Seq(Strings))
  <1> DEFINE F == Seq(Strings)
  <1>1. Cut(row) \in Seq(F)
    BY CutType DEF Rows
  <1> HIDE DEF F
  <1>2. Front(Cut(row)) \in Seq(F)
    BY <1>1, FrontType
  <1>3. Cells(row) \in Seq(F)
    BY <1>1, <1>2 DEF Cells
  <1> QED
    BY <1>3 DEF F

RowCall(cells) == <<Begin("tr")>> \o FlattenSeq([j \in DOMAIN cells |-> Element("td", cells[j])]) \o <<End("tr")>>

LEMMA RowGoes ==
  ASSUME SubsOK, NEW cells \in Seq(Seq(Strings)), NEW a \in Stacks
  PROVE  Via(Speech, a, RowCall(cells), a)
  <1> DEFINE F == Seq(Strings)
             n == Len(cells)
             f == [j \in DOMAIN cells |-> Element("td", cells[j])]
             s == <<"tr">> \o a
             b == Begin("tr")
             e == End("tr")
             g == [i \in 0 .. n |-> s]
  <1>1. "tr" \in Elements /\ "td" \in Elements
    BY DEF Elements
  <1>2. b \in Speech /\ e \in Speech /\ s \in Stacks /\ Step(a, Mark(b), s) /\ Step(s, Mark(e), a)
    <2>1. <<>> \in Seq(Strings)
      BY NoneFacts
    <2> QED
      BY <1>1, <2>1, SpeechFacts
  <1>3. DOMAIN cells = 1 .. n /\ n \in Nat /\ \A j \in 1 .. n : cells[j] \in Seq(Strings)
    <2>1. cells \in Seq(F)
      OBVIOUS
    <2> HIDE DEF F
    <2>2. DOMAIN cells = 1 .. n /\ n \in Nat /\ \A j \in 1 .. n : cells[j] \in F
      BY <2>1
    <2> QED
      BY <2>2 DEF F
  <1>4. f = [j \in 1 .. n |-> f[j]] /\ \A j \in 1 .. n : f[j] = Element("td", cells[j])
    BY <1>3
  <1> HIDE DEF n, f, s, b, e
  <1>5. \A j \in 1 .. n : Via(Speech, s, f[j], s)
    BY <1>1, <1>2, <1>3, <1>4, ElementGoes
  <1>6. g \in [0 .. n -> Stacks] /\ g[0] = s /\ g[n] = s /\ \A i \in 1 .. n : g[i] = s /\ g[i - 1] = s
    BY <1>2, <1>3
  <1> HIDE DEF g
  <1>7. \A j \in 1 .. n : Via(Speech, g[j - 1], f[j], g[j])
    BY <1>5, <1>6
  <1>8. Via(Speech, g[0], FlattenSeq(f), g[n])
    BY <1>3, <1>4, <1>6, <1>7, SpeechIn, ViaFlatten
  <1>9. Via(Speech, s, FlattenSeq(f), s)
    BY <1>6, <1>8
  <1>10. Via(Speech, s, <<e>>, a) /\ Via(Speech, a, <<b>>, s)
    BY <1>2, SpeechIn, ViaOne
  <1>11. Via(Speech, a, <<b>> \o FlattenSeq(f), s)
    BY <1>9, <1>10, SpeechIn, ViaJoin
  <1>12. Via(Speech, a, <<b>> \o FlattenSeq(f) \o <<e>>, a)
    BY <1>10, <1>11, SpeechIn, ViaJoin
  <1> QED
    BY <1>12 DEF RowCall, b, e, f

LEMMA RowTextType ==
  ASSUME NEW A, NEW q \in Seq(Tokens(A)), NEW n \in 1 .. Len(q), NEW starts \in SUBSET (1 .. n), NEW i \in starts
  PROVE  Join(Rest(q, i - 1), Min({j \in starts : j > i} \cup {n + 1}) - i) \in Seq(Strings)
  <1> DEFINE M == {j \in starts : j > i} \cup {n + 1}
             m == Min(M)
             p == Rest(q, i - 1)
  <1>1. Len(q) \in Nat /\ n \in Nat /\ i \in 1 .. n /\ n <= Len(q)
    BY DomainFacts
  <1>2. M \subseteq Nat /\ M # {} /\ \A x \in M : x > i /\ x <= n + 1
    <2>1. ASSUME NEW x \in M PROVE x \in Nat /\ x > i /\ x <= n + 1
      <3>1. x = n + 1 \/ (x \in 1 .. n /\ x > i)
        OBVIOUS
      <3> HIDE DEF M
      <3> QED
        BY <1>1, <3>1
    <2>2. n + 1 \in M
      OBVIOUS
    <2> HIDE DEF M
    <2> QED
      BY <2>1, <2>2
  <1> HIDE DEF M
  <1>3. m \in M
    BY <1>2, MinFacts
  <1> HIDE DEF m
  <1>4. m \in Nat /\ m > i /\ m <= n + 1
    BY <1>2, <1>3
  <1>5. i - 1 \in 0 .. Len(q)
    BY <1>1
  <1>6. p \in Seq(Tokens(A)) /\ Len(p) = Len(q) - (i - 1)
    BY <1>5, RestFacts
  <1> HIDE DEF p
  <1>7. m - i \in 0 .. Len(p)
    BY <1>1, <1>4, <1>6
  <1>8. Join(p, m - i) \in Seq(Strings)
    BY <1>6, <1>7, JoinType
  <1> QED
    BY <1>8 DEF p, m, M

LEMMA RowsGo ==
  ASSUME NEW n \in Nat, NEW f, f = [i \in 1 .. n |-> f[i]], NEW a \in Stacks,
         \A i \in 1 .. n : Via(Speech, a, f[i], a)
  PROVE  Via(Speech, a, FlattenSeq(f), a)
  <1> DEFINE g == [i \in 0 .. n |-> a]
  <1>1. g \in [0 .. n -> Stacks] /\ g[0] = a /\ g[n] = a /\ \A i \in 1 .. n : g[i] = a /\ g[i - 1] = a
    OBVIOUS
  <1> HIDE DEF g
  <1>2. \A i \in 1 .. n : Via(Speech, g[i - 1], f[i], g[i])
    BY <1>1
  <1>3. Via(Speech, g[0], FlattenSeq(f), g[n])
    BY <1>1, <1>2, SpeechIn, ViaFlatten
  <1> QED
    BY <1>1, <1>3

LEMMA AroundGoes ==
  ASSUME SubsOK, NEW e \in Elements, NEW a \in Stacks, NEW q, Via(Speech, <<e>> \o a, q, <<e>> \o a)
  PROVE  Via(Speech, a, <<Begin(e)>> \o q \o <<End(e)>>, a)
  <1> DEFINE s == <<e>> \o a
             b == Begin(e)
             d == End(e)
  <1>1. b \in Speech /\ d \in Speech /\ s \in Stacks /\ Step(a, Mark(b), s) /\ Step(s, Mark(d), a)
    <2>1. <<>> \in Seq(Strings)
      BY NoneFacts
    <2> QED
      BY <2>1, SpeechFacts
  <1>2. Via(Speech, s, q, s)
    OBVIOUS
  <1> HIDE DEF s, b, d
  <1>3. Via(Speech, s, <<d>>, a) /\ Via(Speech, a, <<b>>, s)
    BY <1>1, SpeechIn, ViaOne
  <1>4. Via(Speech, a, <<b>> \o q, s)
    BY <1>2, <1>3, SpeechIn, ViaJoin
  <1>5. Via(Speech, a, <<b>> \o q \o <<d>>, a)
    BY <1>3, <1>4, SpeechIn, ViaJoin
  <1> QED
    BY <1>5 DEF b, d

TableCalls(n, cs) ==
  /\ Front1({"table"}) /\ n \in 1 .. Len(queue) /\ Calls(n, cs)
  /\ Via(Speech, rend.stack, cs, rend.stack) /\ \A i \in 1 .. n : Idling(queue[i])

LEMMA TableRowsFacts == ASSUME IInv, TableRows PROVE \E n, cs : TableCalls(n, cs)
  <1> DEFINE T == {i \in 1 .. Len(queue) : queue[i].k \in {"table", "indented"}}
             n == Max({m \in 1 .. Len(queue) : \A i \in 2 .. m : i \in T})
             starts == {i \in 1 .. n : queue[i].k = "table"}
             RowText(i) == Join(Rest(queue, i - 1), Min({j \in starts : j > i} \cup {n + 1}) - i)
             rows == [i \in 1 .. n |-> IF i \in starts THEN RowCall(Cells(RowText(i))) ELSE <<>>]
             cs == <<Begin("table")>> \o FlattenSeq(rows) \o <<End("table")>>
  <1>0. SubsOK
    BY DEF IInv
  <1>1. Front1({"table"})
    BY DEF TableRows
  <1>2. {m \in 1 .. Len(queue) : \A i \in 2 .. m : i \in T} =
        {m \in 1 .. Len(queue) : \A i \in 2 .. m : queue[i].k \in {"table", "indented"}}
    OBVIOUS
  <1>3. Calls(n, cs)
    BY <1>2 DEF TableRows, Run, RowCall
  <1>4. Tk.k \in {"table"}
    BY <1>1, FrontFacts
  <1>5. \A i \in 1 .. Len(queue) : i \in T => Idling(queue[i])
    BY DEF Idling
  <1>6. Idling(Tk)
    BY <1>4 DEF Idling
  <1> HIDE DEF T
  <1>7. n = Longest(Len(queue), T)
    BY DEF Longest
  <1> HIDE DEF n
  <1>8. n \in 1 .. Len(queue) /\ \A i \in 1 .. n : Idling(queue[i])
    BY <1>1, <1>5, <1>6, <1>7, RunKeeps
  <1>9. rend.stack \in Stacks /\ "table" \in Elements /\ queue \in Seq(Tokens(Here))
    BY HereFacts DEF IInv, Elements
  <1> DEFINE s == <<"table">> \o rend.stack
  <1>10. s \in Stacks
    BY <1>9, StepBegin
  <1> HIDE DEF s
  <1>11. starts \in SUBSET (1 .. n) /\ n \in Nat
    BY <1>8
  <1> HIDE DEF starts
  <1>12. \A i \in starts : RowText(i) \in Seq(Strings)
    BY <1>8, <1>9, <1>11, RowTextType
  <1> HIDE DEF RowText
  <1>13. \A i \in starts : Via(Speech, s, RowCall(Cells(RowText(i))), s)
    <2>1. SUFFICES ASSUME NEW i \in starts PROVE Via(Speech, s, RowCall(Cells(RowText(i))), s)
      OBVIOUS
    <2>2. Cells(RowText(i)) \in Seq(Seq(Strings))
      BY <1>12, CellsType
    <2> QED
      BY <1>0, <1>10, <2>2, RowGoes
  <1>14. \A i \in 1 .. n : Via(Speech, s, rows[i], s)
    <2>1. Via(Speech, s, <<>>, s)
      BY <1>10, ViaNone
    <2> QED
      BY <1>13, <2>1
  <1>15. rows = [i \in 1 .. n |-> rows[i]]
    OBVIOUS
  <1> HIDE DEF rows
  <1>16. Via(Speech, s, FlattenSeq(rows), s)
    BY <1>10, <1>11, <1>14, <1>15, RowsGo
  <1>17. Via(Speech, rend.stack, cs, rend.stack)
    BY <1>0, <1>9, <1>16, AroundGoes DEF s
  <1> HIDE DEF cs
  <1> QED
    BY <1>1, <1>3, <1>8, <1>17 DEF TableCalls

LEMMA TableRowsKeeps == ASSUME IInv, TableRows PROVE IInv'
  BY TableRowsFacts, SpokenKeeps DEF TableCalls

-----------------------------------------------------------------------------
(* Handlers that push back tokens: quotes and inner lists.                 *)

LEMMA PushKeeps ==
  ASSUME IInv, NEW kinds, Front1(kinds), "header1" \notin kinds, "indented" \notin kinds,
         NEW n \in 1 .. Len(queue), NEW toks, Pushes(n, toks),
         \A i \in 1 .. n : Idling(queue[i]),
         Via(Kin, rend.stack, toks, rend.stack)
  PROVE  IInv'
  <1>1. \A i \in 1 .. n : Mark(queue[i])[1] \in {"t", "in"}
    BY StillToks DEF Idling
  <1>2. toks \in Seq(Kin) /\ Goes(rend.stack, toks, rend.stack)
    BY DEF Via
  <1> QED
    BY <1>1, <1>2, HandlerPushes

LEMMA KinIn == ASSUME IInv PROVE Kin \subseteq Tokens(Here) /\ Kin \subseteq Tokens(Base) /\ TypeOK
  BY BaseFacts DEF IInv

LEMMA QueueKin ==
  ASSUME IInv, NEW i \in 1 .. Len(queue)
  PROVE  queue[i] \in Kin
  <1>1. queue \in Seq(Kin)
    BY UntitledKin DEF IInv
  <1> QED
    BY <1>1

LEMMA KidGoes ==
  ASSUME IInv, NEW t \in Kin, t.k \in Inners \cup {"iquote"}, NEW a \in Stacks
  PROVE  /\ Via(Kin, a, t.kid, a) /\ Via(Kin, a, <<t.kid[1]>>, a) /\ t.kid[1] \in Kin /\ t.kid[1] \in Base
         /\ t.kid[1].k \in LineKinds \cup {"header1"}
  <1> DEFINE s == t.kid[1]
  <1>1. s \in Kin /\ s \in Base /\ Mark(s) = <<"t", "">> /\ t.kid = <<s>> /\ s.k \in LineKinds \cup {"header1"}
    BY KinKid DEF IInv
  <1> HIDE DEF s
  <1>2. Step(a, <<"t", "">>, a)
    BY StepStill
  <1>3. Via(Kin, a, <<s>>, a)
    BY <1>1, <1>2, KinIn, ViaOne
  <1>4. Via(Kin, a, t.kid, a)
    BY <1>1, <1>3
  <1> QED
    BY <1>1, <1>3, <1>4 DEF s

LEMMA LevelsKin ==
  ASSUME IInv, NEW s \in Stacks, NEW e \in Elements, NEW from \in Nat, NEW to \in Nat
  PROVE  Via(Kin, Rep(e, from) \o s, Levels(from, to, e), Rep(e, to) \o s)
  <1>1. Goes(Rep(e, from) \o s, Levels(from, to, e), Rep(e, to) \o s)
    BY LevelsGo
  <1>2. Begin(e) \in Kin /\ End(e) \in Kin
    BY KinEnds DEF IInv
  <1> DEFINE b == Begin(e)
             d == End(e)
  <1>3. b \in Kin /\ d \in Kin
    BY <1>2
  <1> HIDE DEF b, d
  <1>4. [i \in 1 .. to - from |-> b] \in Seq(Kin)
    <2>1. CASE to - from \in Nat
      BY <1>3, <2>1
    <2>2. CASE to - from \notin Nat
      <3>1. 1 .. to - from = {}
        BY <2>2
      <3>2. [i \in 1 .. to - from |-> b] = <<>>
        BY <3>1
      <3> QED
        BY <3>2, NoneFacts
    <2> QED
      BY <2>1, <2>2
  <1>5. [i \in 1 .. from - to |-> d] \in Seq(Kin)
    <2>1. CASE from - to \in Nat
      BY <1>3, <2>1
    <2>2. CASE from - to \notin Nat
      <3>1. 1 .. from - to = {}
        BY <2>2
      <3>2. [i \in 1 .. from - to |-> d] = <<>>
        BY <3>1
      <3> QED
        BY <3>2, NoneFacts
    <2> QED
      BY <2>1, <2>2
  <1>6. Levels(from, to, e) \in Seq(Kin)
    BY <1>4, <1>5 DEF Levels, b, d
  <1> QED
    BY <1>1, <1>6 DEF Via

LEMMA QuoteKeeps == ASSUME IInv, Quote PROVE IInv'
  <1> DEFINE T == {i \in 1 .. Len(queue) : queue[i].k = "quote"}
             n == Max({m \in 1 .. Len(queue) : \A i \in 2 .. m : i \in T})
             e == "blockquote"
             Lvl(i) == IF i = 0 THEN 0 ELSE queue[i].lvl
             lines == [i \in 1 .. n |-> Levels(Lvl(i - 1), Lvl(i), e) \o queue[i].kid]
             toks == FlattenSeq(lines) \o Levels(Lvl(n), 0, e)
             kinds == {"quote"}
             s == rend.stack
             g == [i \in 0 .. n |-> Rep(e, Lvl(i)) \o s]
  <1>1. Front1(kinds) /\ "header1" \notin kinds /\ "indented" \notin kinds
    BY DEF Quote
  <1>2. {m \in 1 .. Len(queue) : \A i \in 2 .. m : i \in T} =
        {m \in 1 .. Len(queue) : \A i \in 2 .. m : queue[i].k = "quote"}
    OBVIOUS
  <1>3. Pushes(n, toks)
    BY <1>2 DEF Quote, Run
  <1>4. Tk.k \in kinds /\ Tk = queue[1] /\ Len(queue) \in Nat
    BY <1>1, FrontFacts
  <1>5. \A i \in 1 .. Len(queue) : i \in T => Idling(queue[i])
    BY DEF Idling
  <1>6. Idling(Tk)
    BY <1>4 DEF Idling
  <1> HIDE DEF T
  <1>7. n = Longest(Len(queue), T)
    BY DEF Longest
  <1> HIDE DEF n
  <1>8. n \in 1 .. Len(queue) /\ (\A i \in 2 .. n : i \in T) /\ \A i \in 1 .. n : Idling(queue[i])
    BY <1>1, <1>5, <1>6, <1>7, RunKeeps
  <1>9. \A i \in 1 .. n : queue[i] \in Kin /\ queue[i].k = "quote"
    <2>1. \A i \in 1 .. n : i = 1 \/ i \in 2 .. n
      BY <1>8
    <2>2. \A i \in 1 .. n : queue[i].k = "quote"
      BY <1>4, <1>8, <2>1 DEF T
    <2>3. \A i \in 1 .. n : i \in 1 .. Len(queue)
      BY <1>4, <1>8
    <2> QED
      BY <2>2, <2>3, QueueKin
  <1>10. s \in Stacks /\ e \in Elements
    BY HereFacts DEF IInv, Elements
  <1>11. n \in Nat /\ n \in 0 .. n /\ 0 \in 0 .. n /\ \A i \in 1 .. n : i \in 0 .. n /\ i - 1 \in 0 .. n /\ i # 0
    BY <1>8
  <1>12. \A i \in 0 .. n : Lvl(i) \in Nat
    <2>1. ASSUME NEW i \in 0 .. n PROVE Lvl(i) \in Nat
      <3>1. CASE i = 0
        BY <3>1
      <3>2. CASE i # 0
        <4>1. i \in 1 .. n
          BY <1>11, <3>2
        <4>2. queue[i] \in Tokens(Here)
          BY <1>9, <4>1, KinIn
        <4> QED
          BY <3>2, <4>2 DEF Tokens
      <3> QED
        BY <3>1, <3>2
    <2> QED
      BY <2>1
  <1>13. Lvl(0) = 0
    OBVIOUS
  <1> HIDE DEF Lvl, e, s
  <1>14. \A i \in 0 .. n : g[i] \in Stacks /\ g[i] = Rep(e, Lvl(i)) \o s
    BY <1>10, <1>12, RepOn
  <1>15. g \in [0 .. n -> Stacks] /\ g[0] = s
    <2>1. Rep(e, 0) \o s = s
      BY <1>10, RepOn
    <2> QED
      BY <1>11, <1>13, <1>14, <2>1
  <1>16. lines = [i \in 1 .. n |-> lines[i]] /\ \A i \in 1 .. n : lines[i] = Levels(Lvl(i - 1), Lvl(i), e) \o queue[i].kid
    OBVIOUS
  <1> HIDE DEF g, lines
  <1>17. \A i \in 1 .. n : Via(Kin, g[i - 1], lines[i], g[i])
    <2>1. SUFFICES ASSUME NEW i \in 1 .. n PROVE Via(Kin, g[i - 1], lines[i], g[i])
      OBVIOUS
    <2>2. Via(Kin, g[i - 1], Levels(Lvl(i - 1), Lvl(i), e), g[i])
      BY <1>10, <1>11, <1>12, <1>14, LevelsKin
    <2>3. queue[i].k \in Inners \cup {"iquote"}
      BY <1>9 DEF Inners
    <2>4. Via(Kin, g[i], queue[i].kid, g[i])
      BY <1>9, <1>11, <1>14, <2>3, KidGoes
    <2>5. Via(Kin, g[i - 1], Levels(Lvl(i - 1), Lvl(i), e) \o queue[i].kid, g[i])
      BY <2>2, <2>4, KinIn, ViaJoin
    <2> QED
      BY <1>16, <2>5
  <1>18. Via(Kin, s, FlattenSeq(lines), g[n])
    <2>1. Via(Kin, g[0], FlattenSeq(lines), g[n])
      BY <1>11, <1>15, <1>16, <1>17, KinIn, ViaFlatten
    <2> QED
      BY <1>15, <2>1
  <1>19. Via(Kin, g[n], Levels(Lvl(n), 0, e), s)
    <2>1. Rep(e, 0) \o s = s /\ 0 \in Nat
      BY <1>10, RepOn
    <2>2. Via(Kin, g[n], Levels(Lvl(n), 0, e), Rep(e, 0) \o s)
      BY <1>10, <1>11, <1>12, <1>14, <2>1, LevelsKin
    <2> QED
      BY <2>1, <2>2
  <1>20. Via(Kin, rend.stack, toks, rend.stack)
    <2>1. Via(Kin, s, toks, s)
      BY <1>18, <1>19, KinIn, ViaJoin
    <2> QED
      BY <2>1 DEF s
  <1> HIDE DEF toks, kinds
  <1> QED
    BY <1>1, <1>3, <1>8, <1>20, PushKeeps

LEMMA IdlesVia ==
  ASSUME IInv, NEW q \in Seq(Kin), NEW a \in Stacks, \A i \in 1 .. Len(q) : Mark(q[i]) = <<"t", "">>
  PROVE  Via(Kin, a, q, a)
  <1>1. q \in Seq(Tokens(Here))
    BY KinIn, ViaIn
  <1>2. \A i \in 1 .. Len(q) : Idle(Mark(q[i]), a)
    BY StepStill DEF Idle
  <1>3. Goes(a, q, a)
    BY <1>1, <1>2, GoesIdle
  <1> QED
    BY <1>3 DEF Via

LEMMA AroundKin ==
  ASSUME IInv, NEW e \in Elements, NEW a \in Stacks, NEW q, Via(Kin, <<e>> \o a, q, <<e>> \o a)
  PROVE  Via(Kin, a, <<Begin(e)>> \o q \o <<End(e)>>, a)
  <1> DEFINE s == <<e>> \o a
             b == Begin(e)
             d == End(e)
  <1>1. b \in Kin /\ d \in Kin /\ s \in Stacks /\ Step(a, Mark(b), s) /\ Step(s, Mark(d), a)
    <2>1. <<>> \in Seq(Strings) /\ SubsOK
      BY NoneFacts DEF IInv
    <2> QED
      BY <2>1, SpeechFacts, KinEnds, KinIn
  <1>2. Via(Kin, s, q, s)
    OBVIOUS
  <1> HIDE DEF s, b, d
  <1>3. Via(Kin, s, <<d>>, a) /\ Via(Kin, a, <<b>>, s)
    BY <1>1, KinIn, ViaOne
  <1>4. Via(Kin, a, <<b>> \o q, s)
    BY <1>2, <1>3, KinIn, ViaJoin
  <1>5. Via(Kin, a, <<b>> \o q \o <<d>>, a)
    BY <1>3, <1>4, KinIn, ViaJoin
  <1> QED
    BY <1>5 DEF b, d

LEMMA InnerListKeeps == ASSUME IInv, InnerList PROVE IInv'
  <1> DEFINE T == {i \in 1 .. Len(queue) : queue[i].k \in {"innerlist", "indented"}}
             n == Max({m \in 1 .. Len(queue) : \A i \in 2 .. m : i \in T})
             q == [i \in 1 .. n |-> InnerLine(queue[i])]
             toks == <<Begin("div")>> \o q \o <<End("div")>>
             kinds == {"innerlist"}
  <1>1. Front1(kinds) /\ "header1" \notin kinds /\ "indented" \notin kinds
    BY DEF InnerList
  <1>2. {m \in 1 .. Len(queue) : \A i \in 2 .. m : i \in T} =
        {m \in 1 .. Len(queue) : \A i \in 2 .. m : queue[i].k \in {"innerlist", "indented"}}
    OBVIOUS
  <1>3. Pushes(n, toks)
    BY <1>2 DEF InnerList, Run
  <1>4. Tk.k \in kinds /\ Tk = queue[1] /\ Len(queue) \in Nat
    BY <1>1, FrontFacts
  <1>5. \A i \in 1 .. Len(queue) : i \in T => Idling(queue[i])
    BY DEF Idling
  <1>6. Idling(Tk)
    BY <1>4 DEF Idling
  <1> HIDE DEF T
  <1>7. n = Longest(Len(queue), T)
    BY DEF Longest
  <1> HIDE DEF n
  <1>8. n \in 1 .. Len(queue) /\ (\A i \in 2 .. n : i \in T) /\ \A i \in 1 .. n : Idling(queue[i])
    BY <1>1, <1>5, <1>6, <1>7, RunKeeps
  <1>9. \A i \in 1 .. n : queue[i] \in Kin /\ queue[i].k \in {"innerlist", "indented"}
    <2>1. \A i \in 1 .. n : i = 1 \/ i \in 2 .. n
      BY <1>8
    <2>2. \A i \in 1 .. n : queue[i].k \in {"innerlist", "indented"}
      BY <1>4, <1>8, <2>1 DEF T
    <2>3. \A i \in 1 .. n : i \in 1 .. Len(queue)
      BY <1>4, <1>8
    <2> QED
      BY <2>2, <2>3, QueueKin
  <1>10. \A i \in 1 .. n : InnerLine(queue[i]) \in Kin /\ Mark(InnerLine(queue[i])) = <<"t", "">>
    <2>1. SUFFICES ASSUME NEW i \in 1 .. n
                   PROVE  InnerLine(queue[i]) \in Kin /\ Mark(InnerLine(queue[i])) = <<"t", "">>
      OBVIOUS
    <2> DEFINE t == queue[i]
    <2>2. t \in Kin /\ t.k \in {"innerlist", "indented"}
      BY <1>9
    <2> HIDE DEF t
    <2>3. CASE t.k = "innerlist"
      <3>1. t.k \in Inners \cup {"iquote"}
        BY <2>3 DEF Inners
      <3>2. t.kid[1] \in Kin /\ Mark(t.kid[1]) = <<"t", "">>
        BY <2>2, <3>1, KinKid, KinIn
      <3> QED
        BY <2>3, <3>2 DEF InnerLine, t
    <2>4. CASE t.k = "indented"
      <3>1. Mark(t) = <<"t", "">>
        BY <2>4 DEF Mark
      <3> QED
        BY <2>2, <2>4, <3>1 DEF InnerLine, t
    <2> QED
      BY <2>2, <2>3, <2>4
  <1>11. n \in Nat
    BY <1>8
  <1>12. q \in Seq(Kin) /\ Len(q) = n /\ \A i \in 1 .. Len(q) : Mark(q[i]) = <<"t", "">>
    <2> DEFINE L(i) == InnerLine(queue[i])
    <2>1. \A i \in 1 .. n : L(i) \in Kin /\ Mark(L(i)) = <<"t", "">>
      BY <1>10
    <2>2. q = [i \in 1 .. n |-> L(i)]
      OBVIOUS
    <2> DEFINE B == Kin
    <2>a. \A i \in 1 .. n : L(i) \in B
      BY <2>1
    <2> HIDE DEF L, q, B
    <2>3. q \in Seq(B) /\ Len(q) = n /\ \A i \in 1 .. n : q[i] = L(i)
      BY <1>11, <2>a, <2>2
    <2>b. q \in Seq(Kin)
      BY <2>3 DEF B
    <2> QED
      BY <2>1, <2>3, <2>b
  <1> HIDE DEF q
  <1>13. rend.stack \in Stacks /\ "div" \in Elements
    BY HereFacts DEF IInv, Elements
  <1> DEFINE s == <<"div">> \o rend.stack
  <1>14. s \in Stacks
    BY <1>13, StepBegin
  <1> HIDE DEF s
  <1>15. Via(Kin, s, q, s)
    BY <1>12, <1>14, IdlesVia
  <1>16. Via(Kin, rend.stack, toks, rend.stack)
    BY <1>13, <1>15, AroundKin DEF s
  <1> HIDE DEF toks, kinds
  <1> QED
    BY <1>1, <1>3, <1>8, <1>16, PushKeeps

LEMMA LevelsShift ==
  ASSUME NEW from \in Nat, NEW to \in Nat, NEW e
  PROVE  Levels(from + 1, to + 1, e) = Levels(from, to, e)
  <1>1. (to + 1) - (from + 1) = to - from /\ (from + 1) - (to + 1) = from - to /\ (to + 1 > from + 1 <=> to > from)
    OBVIOUS
  <1> QED
    BY <1>1 DEF Levels

\* The indentations that are open, of which the first is none.
Indents == {l \in Seq(Nat) : l # <<>> /\ l[1] = 0}
Indent(l, off) ==
  IF off > Last(l) THEN Append(l, off) ELSE SubSeq(l, 1, Max({j \in DOMAIN l : l[j] <= off}))

LEMMA IndentType ==
  ASSUME NEW l \in Indents, NEW off \in Nat
  PROVE  Indent(l, off) \in Indents
  <1>1. l \in Seq(Nat) /\ l # <<>> /\ l[1] = 0 /\ Len(l) \in Nat /\ Len(l) >= 1 /\ DOMAIN l = 1 .. Len(l)
    BY HeadAndTail, DomainFacts DEF Indents
  <1>2. Append(l, off) \in Indents
    <2> DEFINE p == Append(l, off)
    <2>1. p \in Seq(Nat) /\ Len(p) = Len(l) + 1 /\ p[1] = l[1]
      BY <1>1
    <2>2. p # <<>>
      <3>1. Len(p) # 0
        BY <1>1, <2>1
      <3> HIDE DEF p
      <3> QED
        BY <3>1, LenNone, Zenon
    <2> HIDE DEF p
    <2>3. p \in Indents
      BY <1>1, <2>1, <2>2 DEF Indents
    <2> QED
      BY <2>3 DEF p
  <1>3. ASSUME NEW m \in 1 .. Len(l) PROVE SubSeq(l, 1, m) \in Indents
    <2> DEFINE p == SubSeq(l, 1, m)
    <2>1. m \in 0 .. Len(l) /\ 1 \in 1 .. m
      BY <1>1
    <2>2. p \in Seq(Nat) /\ Len(p) = m /\ p[1] = l[1]
      BY <1>1, <2>1, RestFacts
    <2>3. p # <<>>
      <3>1. Len(p) # 0
        BY <2>2
      <3> HIDE DEF p
      <3> QED
        BY <3>1, LenNone, Zenon
    <2> HIDE DEF p
    <2>4. p \in Indents
      BY <1>1, <2>2, <2>3 DEF Indents
    <2> QED
      BY <2>4 DEF p
  <1> DEFINE R == {j \in DOMAIN l : l[j] <= off}
  <1>4. Max(R) \in 1 .. Len(l)
    <2>1. 1 \in R
      BY <1>1
    <2>2. R \subseteq Nat /\ R \subseteq 1 .. Len(l) /\ R # {} /\ \A x \in R : x <= Len(l)
      BY <1>1, <2>1
    <2> HIDE DEF R
    <2>3. Max(R) \in R
      BY <1>1, <2>2, MaxFacts
    <2> QED
      BY <2>2, <2>3
  <1> QED
    BY <1>2, <1>3, <1>4 DEF Indent
LEMMA IQuoteKeeps == ASSUME IInv, IQuote PROVE IInv'
  <1> DEFINE T == {i \in 1 .. Len(queue) : queue[i].k = "iquote"}
             n == Max({m \in 1 .. Len(queue) : \A i \in 2 .. m : queue[i].k = "iquote"})
             e == "blockquote"
             Line(i) == queue[i].kid[1]
             lvls[i \in 0 .. n] ==
               IF i = 0 THEN <<0>>
               ELSE LET l == lvls[i - 1]
                    IN IF Line(i).off > Last(l) THEN Append(l, Line(i).off)
                       ELSE SubSeq(l, 1, Max({j \in DOMAIN l : l[j] <= Line(i).off}))
             Eq(f) == f = [i \in 0 .. n |->
               IF i = 0 THEN <<0>>
               ELSE LET l == f[i - 1]
                    IN IF Line(i).off > Last(l) THEN Append(l, Line(i).off)
                       ELSE SubSeq(l, 1, Max({j \in DOMAIN l : l[j] <= Line(i).off}))]
             a == <<0>>
             F == [i \in 1 .. n |-> [l \in Indents |-> Indent(l, Line(i).off)]]
             Put1(i) == IF Len(lvls[i]) > Len(lvls[i - 1]) THEN <<[Blank EXCEPT !.k = "nl"]>> ELSE <<>>
             Put2(i) == Levels(Len(lvls[i - 1]), Len(lvls[i]), e)
             Put3(i) == <<IF Line(i).k = "p" THEN [Line(i) EXCEPT !.k = "ptext"] ELSE Line(i)>>
             lines == [i \in 1 .. n |->
                    (IF Len(lvls[i]) > Len(lvls[i - 1]) THEN <<[Blank EXCEPT !.k = "nl"]>> ELSE <<>>)
                      \o Levels(Len(lvls[i - 1]), Len(lvls[i]), "blockquote")
                      \o <<IF Line(i).k = "p" THEN [Line(i) EXCEPT !.k = "ptext"] ELSE Line(i)>>]
             toks == FlattenSeq(lines) \o Levels(Len(lvls[n]), 1, e)
             kinds == {"iquote"}
             s == rend.stack
             g == [i \in 0 .. n |-> Rep(e, Len(lvls[i]) - 1) \o s]
  <1>1. Front1(kinds) /\ "header1" \notin kinds /\ "indented" \notin kinds
    BY DEF IQuote
  <1>2. {m \in 1 .. Len(queue) : \A i \in 2 .. m : i \in T} =
        {m \in 1 .. Len(queue) : \A i \in 2 .. m : queue[i].k = "iquote"}
    OBVIOUS
  <1>3. Pushes(n, toks)
    BY Zenon DEF IQuote, Run
  <1>u. lvls = CHOOSE f : Eq(f)
    OBVIOUS
  <1> HIDE DEF lvls
  <1>4. Tk.k \in kinds /\ Tk = queue[1] /\ Len(queue) \in Nat
    BY <1>1, FrontFacts
  <1>5. \A i \in 1 .. Len(queue) : i \in T => Idling(queue[i])
    BY DEF Idling
  <1>6. Idling(Tk)
    BY <1>4 DEF Idling
  <1> HIDE DEF T
  <1>7. n = Longest(Len(queue), T)
    BY <1>2 DEF Longest
  <1>b. \A f : Eq(f) <=> f = [i \in 0 .. n |-> IF i = 0 THEN a ELSE Indent(f[i - 1], Line(i).off)]
    BY DEF Indent
  <1> HIDE DEF Eq, n
  <1>8. n \in 1 .. Len(queue) /\ (\A i \in 2 .. n : i \in T) /\ \A i \in 1 .. n : Idling(queue[i])
    BY <1>1, <1>5, <1>6, <1>7, RunKeeps
  <1>9. \A i \in 1 .. n : queue[i] \in Kin /\ queue[i].k = "iquote"
    <2>1. \A i \in 1 .. n : i = 1 \/ i \in 2 .. n
      BY <1>8
    <2>2. \A i \in 1 .. n : queue[i].k = "iquote"
      BY <1>4, <1>8, <2>1 DEF T
    <2>3. \A i \in 1 .. n : i \in 1 .. Len(queue)
      BY <1>4, <1>8
    <2> QED
      BY <2>2, <2>3, QueueKin
  <1>10. s \in Stacks /\ e \in Elements
    BY HereFacts DEF IInv, Elements
  <1>11. n \in Nat /\ n \in 0 .. n /\ 0 \in 0 .. n /\ \A i \in 1 .. n : i \in 0 .. n /\ i - 1 \in 0 .. n /\ i # 0
    BY <1>8
  <1>12. \A i \in 1 .. n : Line(i) \in Kin /\ Line(i).k \in LineKinds \cup {"header1"} /\ Mark(Line(i)) = <<"t", "">>
    <2>1. SUFFICES ASSUME NEW i \in 1 .. n
                   PROVE  Line(i) \in Kin /\ Line(i).k \in LineKinds \cup {"header1"} /\ Mark(Line(i)) = <<"t", "">>
      OBVIOUS
    <2>2. queue[i] \in Kin /\ queue[i].k \in Inners \cup {"iquote"}
      BY <1>9
    <2> QED
      BY <2>2, KinKid, KinIn
  <1> HIDE DEF Line
  <1>13. \A i \in 1 .. n : Line(i) \in Tokens(Base) /\ Line(i).off \in Nat
    <2>1. \A i \in 1 .. n : Line(i) \in Tokens(Base)
      BY <1>12, KinIn
    <2> QED
      BY <2>1 DEF Tokens
  <1>14. lvls \in [0 .. n -> Indents] /\ lvls[0] = a
    <2>1. a \in Indents
      <3>1. a \in Seq(Nat) /\ Len(a) = 1 /\ a[1] = 0
        OBVIOUS
      <3>2. 1 # 0
        OBVIOUS
      <3> HIDE DEF a
      <3>3. a # <<>>
        BY <3>1, <3>2, LenNone, Zenon
      <3> QED
        BY <3>1, <3>3 DEF Indents
    <2>2. F \in [1 .. n -> [Indents -> Indents]]
      BY <1>13, IndentType
    <2>3. \A i \in 1 .. n, l \in Indents : F[i][l] = Indent(l, Line(i).off)
      OBVIOUS
    <2> HIDE DEF F, a
    <2>4. PICK h \in Iterates(n, Indents, a, F) : TRUE
      BY <1>11, <2>1, <2>2, Recursion
    <2>5. h \in [0 .. n -> Indents] /\ h[0] = a /\ \A i \in 1 .. n : h[i] = F[i][h[i - 1]]
      BY <2>4 DEF Iterates
    <2>6. \A i \in 0 .. n : i # 0 => i \in 1 .. n /\ i - 1 \in 0 .. n
      BY <1>11
    <2>7. Eq(h)
      <3>1. ASSUME NEW i \in 0 .. n PROVE h[i] = IF i = 0 THEN a ELSE Indent(h[i - 1], Line(i).off)
        BY <2>3, <2>5, <2>6
      <3>2. h = [i \in 0 .. n |-> IF i = 0 THEN a ELSE Indent(h[i - 1], Line(i).off)]
        BY <2>5, <3>1
      <3> QED
        BY <1>b, <3>2
    <2>8. Eq(lvls)
      BY <2>7, <1>u
    <2>9. lvls = [i \in 0 .. n |-> IF i = 0 THEN a ELSE Indent(lvls[i - 1], Line(i).off)]
      BY <1>b, <2>8
    <2>10. lvls = [i \in 0 .. n |-> lvls[i]] /\ lvls[0] = a
      BY <1>11, <2>9
    <2>11. \A i \in 1 .. n : lvls[i - 1] \in Indents => lvls[i] = F[i][lvls[i - 1]]
      <3>1. \A i \in 1 .. n : lvls[i] = Indent(lvls[i - 1], Line(i).off)
        BY <1>11, <2>9
      <3> QED
        BY <2>3, <3>1
    <2>12. lvls \in Iterates(n, Indents, a, F)
      BY <1>11, <2>1, <2>2, <2>10, <2>11, RecursIn
    <2> QED
      BY <2>12 DEF Iterates
  <1>15. \A i \in 0 .. n : Len(lvls[i]) \in Nat /\ Len(lvls[i]) - 1 \in Nat /\ (Len(lvls[i]) - 1) + 1 = Len(lvls[i])
    <2>1. SUFFICES ASSUME NEW i \in 0 .. n PROVE Len(lvls[i]) \in Nat /\ Len(lvls[i]) >= 1
      OBVIOUS
    <2>2. lvls[i] \in Seq(Nat) /\ lvls[i] # <<>>
      BY <1>14 DEF Indents
    <2> QED
      BY <2>2, HeadAndTail
  <1>16. Len(lvls[0]) - 1 = 0
    <2>1. Len(a) = 1
      OBVIOUS
    <2> HIDE DEF a
    <2> QED
      BY <1>14, <2>1
  <1>17. s # <<>>
    <2>1. queue # <<>> /\ queue \in Seq(Tokens(Here)) /\ Goes(rend.stack, queue, <<>>) /\ Tk = Head(queue)
      BY <1>1, FrontFacts, HereFacts DEF IInv
    <2>2. PICK c \in Stacks : Step(rend.stack, Mark(Head(queue)), c)
      BY <2>1, GoesFirst
    <2>3. Mark(Head(queue)) = <<"in", "">>
      BY <1>4, <2>1 DEF Mark
    <2>4. Step(rend.stack, <<"in", "">>, c) => rend.stack # <<>>
      BY StepStill
    <2> QED
      BY <2>2, <2>3, <2>4
  <1> DEFINE P1(i) == Put1(i)
             P2(i) == Put2(i)
             P3(i) == Put3(i)
  <1>18. lines = [i \in 1 .. n |-> lines[i]] /\ \A i \in 1 .. n : lines[i] = Put1(i) \o Put2(i) \o Put3(i)
    OBVIOUS
  <1> HIDE DEF lines, s, e
  <1>19. \A i \in 0 .. n : g[i] \in Stacks /\ g[i] = Rep(e, Len(lvls[i]) - 1) \o s /\ g[i] # <<>>
    <2>1. SUFFICES ASSUME NEW i \in 0 .. n
                   PROVE  g[i] \in Stacks /\ g[i] = Rep(e, Len(lvls[i]) - 1) \o s /\ g[i] # <<>>
      OBVIOUS
    <2> DEFINE m == Len(lvls[i]) - 1
               r == Rep(e, m)
    <2>2. m \in Nat
      BY <1>15
    <2>3. g[i] = r \o s
      OBVIOUS
    <2> HIDE DEF g, m
    <2>4. r \o s \in Stacks /\ r \in Stacks
      <3>1. e \in Strings
        BY <1>10, Plainly
      <3> QED
        BY <1>10, <2>2, <3>1, RepOn, RepFacts DEF Stacks
    <2> HIDE DEF r
    <2>5. r \o s # <<>>
      <3>1. Len(r \o s) = Len(r) + Len(s) /\ Len(s) >= 1 /\ Len(r) \in Nat /\ Len(s) \in Nat
        BY <1>10, <1>17, <2>4, JoinFacts, HeadAndTail, DomainFacts DEF Stacks
      <3>2. Len(r \o s) # 0
        BY <3>1
      <3> QED
        BY <3>2, LenNone, Zenon
    <2> QED
      BY <2>3, <2>4, <2>5 DEF r, m
  <1>20. g \in [0 .. n -> Stacks] /\ g[0] = s
    <2>1. Rep(e, 0) \o s = s
      BY <1>10, RepOn
    <2> QED
      BY <1>11, <1>16, <1>19, <2>1
  <1> HIDE DEF g
  <1>21. \A i \in 1 .. n : Via(Kin, g[i - 1], Put1(i), g[i - 1])
    <2>1. SUFFICES ASSUME NEW b \in Stacks PROVE Via(Kin, b, <<[Blank EXCEPT !.k = "nl"]>>, b) /\ Via(Kin, b, <<>>, b)
      BY <1>11, <1>20
    <2> DEFINE t == [Blank EXCEPT !.k = "nl"]
    <2>2. t \in Tokens(Base) /\ t.k = "nl"
      BY BlankType DEF Tokens, QueueKinds
    <2> HIDE DEF t
    <2>3. t.k \notin {"begin", "end", "procnote", "header1"} \cup Inners \cup {"iquote"} /\ t.k \in QueueKinds
      BY <2>2 DEF Inners, QueueKinds
    <2>4. t \in Kin
      BY <2>2, <2>3, KinPara, KinIn
    <2>5. Step(b, Mark(t), b)
      <3>1. Mark(t) = <<"t", "">>
        BY <2>2 DEF Mark
      <3>2. Step(b, <<"t", "">>, b)
        BY StepStill
      <3> QED
        BY <3>1, <3>2
    <2>6. Via(Kin, b, <<t>>, b)
      BY <2>4, <2>5, KinIn, ViaOne
    <2> QED
      BY <2>6, ViaNone DEF t
  <1>22. \A i \in 1 .. n : Via(Kin, g[i - 1], Put2(i), g[i])
    <2>1. SUFFICES ASSUME NEW i \in 1 .. n PROVE Via(Kin, g[i - 1], Put2(i), g[i])
      OBVIOUS
    <2> DEFINE x == Len(lvls[i - 1]) - 1
               y == Len(lvls[i]) - 1
    <2>2. x \in Nat /\ y \in Nat /\ Len(lvls[i - 1]) = x + 1 /\ Len(lvls[i]) = y + 1
      BY <1>11, <1>15
    <2>3. g[i - 1] = Rep(e, x) \o s /\ g[i] = Rep(e, y) \o s
      BY <1>11, <1>19
    <2> HIDE DEF x, y
    <2>4. Put2(i) = Levels(x, y, e)
      BY <2>2, LevelsShift
    <2> QED
      BY <1>10, <2>2, <2>3, <2>4, LevelsKin
  <1>23. \A i \in 1 .. n : Via(Kin, g[i], Put3(i), g[i])
    <2>1. SUFFICES ASSUME NEW i \in 1 .. n PROVE Via(Kin, g[i], Put3(i), g[i])
      OBVIOUS
    <2> DEFINE l == Line(i)
               b == g[i]
    <2>2. l \in Kin /\ l \in Tokens(Base) /\ l.k \in LineKinds \cup {"header1"} /\ Mark(l) = <<"t", "">>
      BY <1>12, <1>13
    <2>3. b \in Stacks /\ b # <<>>
      BY <1>11, <1>19
    <2> DEFINE t == [l EXCEPT !.k = "ptext"]
               u == IF l.k = "p" THEN t ELSE l
    <2>4. Put3(i) = <<u>>
      OBVIOUS
    <2> HIDE DEF l, b
    <2>5. t \in Tokens(Base) /\ t.k = "ptext"
      BY <2>2 DEF Tokens, QueueKinds
    <2> HIDE DEF t
    <2>6. t.k \notin {"begin", "end", "procnote", "header1"} \cup Inners \cup {"iquote"} /\ t.k \in QueueKinds
      BY <2>5 DEF Inners, QueueKinds
    <2>7. t \in Kin
      BY <2>5, <2>6, KinPara, KinIn
    <2>8. Mark(t) = <<"in", "">>
      BY <2>5 DEF Mark
    <2>9. Step(b, <<"t", "">>, b) /\ Step(b, <<"in", "">>, b)
      BY <2>3, StepStill
    <2>10. u \in Kin /\ Step(b, Mark(u), b)
      BY <2>2, <2>7, <2>8, <2>9
    <2> HIDE DEF u
    <2>11. Via(Kin, b, <<u>>, b)
      BY <2>3, <2>10, KinIn, ViaOne
    <2> QED
      BY <2>4, <2>11 DEF b
  <1> HIDE DEF Put1, Put2, Put3
  <1>24. \A i \in 1 .. n : Via(Kin, g[i - 1], lines[i], g[i])
    <2>1. SUFFICES ASSUME NEW i \in 1 .. n PROVE Via(Kin, g[i - 1], lines[i], g[i])
      OBVIOUS
    <2>2. Via(Kin, g[i - 1], Put1(i) \o Put2(i), g[i])
      BY <1>21, <1>22, KinIn, ViaJoin
    <2>3. Via(Kin, g[i - 1], Put1(i) \o Put2(i) \o Put3(i), g[i])
      BY <1>23, <2>2, KinIn, ViaJoin
    <2> QED
      BY <1>18, <2>3
  <1>25. Via(Kin, s, FlattenSeq(lines), g[n])
    <2>1. Via(Kin, g[0], FlattenSeq(lines), g[n])
      BY <1>11, <1>18, <1>20, <1>24, KinIn, ViaFlatten
    <2> QED
      BY <1>20, <2>1
  <1>26. Via(Kin, g[n], Levels(Len(lvls[n]), 1, e), s)
    <2> DEFINE x == Len(lvls[n]) - 1
    <2>1. x \in Nat /\ Len(lvls[n]) = x + 1 /\ 0 \in Nat /\ 0 + 1 = 1
      BY <1>11, <1>15
    <2>2. g[n] = Rep(e, x) \o s
      BY <1>11, <1>19
    <2> HIDE DEF x
    <2>3. Levels(x + 1, 0 + 1, e) = Levels(x, 0, e)
      BY <2>1, LevelsShift
    <2>4. Levels(Len(lvls[n]), 1, e) = Levels(x, 0, e)
      BY <2>1, <2>3
    <2>5. Rep(e, 0) \o s = s
      BY <1>10, RepOn
    <2>6. Via(Kin, Rep(e, x) \o s, Levels(x, 0, e), Rep(e, 0) \o s)
      BY <1>10, <2>1, LevelsKin
    <2> QED
      BY <2>2, <2>4, <2>5, <2>6
  <1>27. Via(Kin, rend.stack, toks, rend.stack)
    <2>1. Via(Kin, s, toks, s)
      BY <1>25, <1>26, KinIn, ViaJoin
    <2> QED
      BY <2>1 DEF s
  <1> HIDE DEF toks, kinds
  <1> QED
    BY <1>1, <1>3, <1>8, <1>27, PushKeeps

-----------------------------------------------------------------------------
(* The loop of list_handler().                                             *)

(* The loop of list_handler().                                              *)
ListGoes(l, q) ==
  /\ l.ltype \in Lists
  /\ l.first => q # <<>> /\ Head(q).k = l.ltype
  /\ Goes(rend.stack, l.out,
          IF l.first THEN <<l.ltype>> \o rend.stack ELSE <<Item(l.ltype), l.ltype>> \o rend.stack)

LEMMA LoopIs ==
  ASSUME IInv, calls = <<>>, NEW q \in Seq(Toks(Here)), NEW l \in Loops,
         queue' = q, loop' = l, input' = input, rend' = rend, calls' = calls, done' = done, subs' = subs,
         Goes(rend.stack, q, <<>>), l.on => ListGoes(l, q),
         input.doc[1].k = "quote" \/ (Untitled(q) /\ Untitled(l.out))
  PROVE  IInv'
  <1>1. Here' = Here
    BY DEF Here
  <1>2. TypeOK'
    <2>1. queue' \in Seq(Toks(Here')) /\ calls' \in Seq(CallToks(Here'))
      BY <1>1 DEF IInv, TypeOK
    <2>2. loop' \in Loops'
      BY <1>1 DEF Loops
    <2>3. TypeOK
      BY DEF IInv
    <2> QED
      BY <2>1, <2>2, <2>3 DEF TypeOK, ListGoes
  <1>3. StackOK'
    <2>1. calls \o q = q
      BY NoneJoin
    <2> QED
      BY <2>1 DEF StackOK, ListGoes, Goes, Item
  <1>4. HeaderOK'
    BY DEF HeaderOK, Untitled
  <1>5. CallsOK' /\ StylesOK' /\ FailsAsKnown' /\ SubsOK' /\ DepthOK'
    BY SameStyles
  <1> QED
    BY <1>2, <1>3, <1>4, <1>5 DEF IInv

\* What is open before the next item, and in an item.
Listed == IF loop.first THEN <<loop.ltype>> \o rend.stack ELSE <<Item(loop.ltype), loop.ltype>> \o rend.stack
Itemed == <<Item(loop.ltype), loop.ltype>> \o rend.stack

LEMMA TwoOn ==
  ASSUME NEW S, NEW s \in Seq(S), NEW a \in S, NEW b \in S
  PROVE  <<a, b>> \o s = <<a>> \o (<<b>> \o s)
  <1>1. <<a>> \in Seq(S) /\ <<b>> \in Seq(S)
    OBVIOUS
  <1>2. (<<a>> \o <<b>>) \o s = <<a>> \o (<<b>> \o s)
    BY <1>1
  <1>3. <<a, b>> = <<a>> \o <<b>>
    BY PairOf DEF Two
  <1> QED
    BY <1>2, <1>3

LEMMA ListElements ==
  ASSUME NEW l \in Lists
  PROVE  l \in Elements /\ Item(l) \in Elements /\ Item(l) = (IF l = "dl" THEN "dd" ELSE "li")
         /\ l \notin {"indented", "innerlist", "blank", "header1"}
  BY DEF Lists, Elements, Item

LEMMA LoopFacts ==
  ASSUME IInv, loop.on
  PROVE  /\ calls = <<>> /\ loop \in Loops /\ loop.ltype \in Lists
         /\ rend.stack \in Stacks /\ Itemed \in Stacks /\ Itemed # <<>> /\ <<loop.ltype>> \o rend.stack \in Stacks
         /\ Itemed = <<Item(loop.ltype)>> \o (<<loop.ltype>> \o rend.stack)
         /\ Listed \in Stacks
         /\ input.doc[1].k = "quote" \/ NoTitle
         /\ queue \in Seq(Kin) /\ Goes(rend.stack, queue, <<>>)
         /\ Via(Kin, rend.stack, loop.out, Listed)
         /\ loop.first => queue # <<>> /\ Head(queue).k = loop.ltype
  <1>1. TypeOK /\ rend.stack \in Stacks
    BY HereFacts DEF IInv
  <1>2. calls = <<>> /\ loop \in Loops /\ loop.ltype \in Lists
    BY <1>1 DEF TypeOK
  <1>3. <<loop.ltype>> \o rend.stack \in Stacks
    BY <1>1, <1>2, ListElements, StepBegin
  <1>4. Itemed = <<Item(loop.ltype)>> \o (<<loop.ltype>> \o rend.stack)
    <2>1. loop.ltype \in Strings /\ Item(loop.ltype) \in Strings /\ rend.stack \in Seq(Strings)
      BY <1>1, <1>2, ListElements, Plainly DEF Stacks
    <2> QED
      BY <2>1, TwoOn DEF Itemed
  <1>5. Itemed \in Stacks
    BY <1>2, <1>3, <1>4, ListElements, StepBegin
  <1>6. Itemed # <<>>
    <2>1. Item(loop.ltype) \in Strings
      BY <1>2, ListElements, Plainly
    <2> QED
      BY <1>3, <1>4, <2>1, ConsFacts DEF Stacks
  <1>7. Listed \in Stacks
    BY <1>3, <1>5 DEF Listed, Itemed
  <1>8. input.doc[1].k = "quote" \/ NoTitle
    BY DEF IInv, HeaderOK, NoTitle
  <1>9. queue \in Seq(Kin) /\ loop.out \in Seq(Kin)
    BY <1>1, UntitledKin
  <1>10. Goes(rend.stack, queue, <<>>)
    <2>1. calls \o queue = queue
      BY <1>2, <1>9, NoneJoin
    <2> QED
      BY <2>1 DEF IInv, StackOK, Goes
  <1>11. Via(Kin, rend.stack, loop.out, Listed)
    BY <1>9 DEF IInv, StackOK, Goes, Via, Listed
  <1>12. loop.first => queue # <<>> /\ Head(queue).k = loop.ltype
    BY DEF IInv, StackOK
  <1> QED
    BY <1>1, <1>2, <1>3, <1>4, <1>5, <1>6, <1>7, <1>8, <1>9, <1>10, <1>11, <1>12

Grown(l, toks) ==
  l \in Loops /\ l.on = loop.on /\ l.ltype = loop.ltype /\ l.first = loop.first /\ l.out = loop.out \o toks

LEMMA LoopTakes ==
  ASSUME IInv, loop.on, queue # <<>>, NEW n \in 1 .. Len(queue), NEW l \in Loops, Takes(n, l),
         l.on, l.ltype = loop.ltype, ~l.first,
         \A i \in 1 .. n : Idling(queue[i]),
         NEW toks, Via(Kin, Listed, toks, Itemed), l.out = loop.out \o toks
  PROVE  IInv'
  <1> DEFINE q == Rest(queue, n)
             out == loop.out \o toks
  <1>1. /\ calls = <<>> /\ loop.ltype \in Lists /\ (input.doc[1].k = "quote" \/ NoTitle)
        /\ queue \in Seq(Kin) /\ Goes(rend.stack, queue, <<>>) /\ Via(Kin, rend.stack, loop.out, Listed)
    BY LoopFacts
  <1>2. Via(Kin, rend.stack, out, Itemed)
    BY <1>1, KinIn, ViaJoin
  <1>3. queue' = q /\ loop' = l /\ input' = input /\ rend' = rend /\ calls' = calls /\ done' = done /\ subs' = subs
    BY DEF Takes
  <1>4. Len(queue) \in Nat /\ n \in 0 .. Len(queue)
    BY <1>1
  <1>5. q \in Seq(Kin)
    BY <1>1, <1>4, RestFacts
  <1>6. \A i \in 1 .. n : Mark(queue[i])[1] \in {"t", "in"}
    BY StillToks DEF Idling
  <1>7. Goes(rend.stack, q, <<>>)
    <2>1. queue \in Seq(Tokens(Here))
      BY HereFacts DEF IInv
    <2> QED
      BY <1>1, <1>4, <1>6, <2>1, GoesRest
  <1> HIDE DEF q, out
  <1>8. Goes(rend.stack, out, Itemed) /\ out \in Seq(Kin)
    BY <1>2 DEF Via
  <1>9. l.out = out
    BY DEF out
  <1>10. ListGoes(l, q)
    BY <1>1, <1>8, <1>9 DEF ListGoes, Itemed
  <1>11. input.doc[1].k = "quote" \/ (Untitled(q) /\ Untitled(l.out))
    BY <1>1, <1>5, <1>8, <1>9, UntitledKin DEF IInv
  <1>12. q \in Seq(Toks(Here))
    <2>1. Kin \subseteq Toks(Here)
      BY BaseFacts DEF IInv
    <2> QED
      BY <1>5, <2>1, SeqMonotonic
  <1> QED
    BY <1>1, <1>3, <1>7, <1>10, <1>11, <1>12, LoopIs

LEMMA InfinityFacts == Infinity \in Nat
  BY SMT DEF Infinity

LEMMA NoLoopFacts == NoLoop \in Loops /\ NoLoop.first /\ ~NoLoop.on /\ NoLoop.out = <<>>
  <1>1. <<>> \in Seq(Toks(Here))
    BY NoneFacts
  <1> QED
    BY <1>1 DEF NoLoop, Loops

LEMMA ListStartKeeps == ASSUME IInv, ListStart PROVE IInv'
  <1> DEFINE kinds == Lists
             e == Tk.k
             b == Begin(e)
             bs == <<b>>
             off == Tk.off + 2
             l == [NoLoop EXCEPT !.on = TRUE, !.ltype = e, !.low = Infinity, !.base = off, !.out = bs]
  <1>1. Front1(kinds) /\ loop' = l /\ queue' = queue /\ input' = input /\ rend' = rend /\ calls' = calls /\ done' = done /\ subs' = subs
    BY DEF ListStart
  <1>2. /\ Tk.k \in kinds /\ Tk \in Toks(Here) /\ Tk = Head(queue) /\ queue # <<>> /\ calls = <<>>
        /\ Goes(rend.stack, queue, <<>>)
    BY <1>1, FrontFacts
  <1>3. e \in Lists /\ e \in Elements
    BY <1>2, ListElements
  <1>4. queue \in Seq(Toks(Here)) /\ rend.stack \in Stacks
    BY HereFacts DEF IInv
  <1>5. b \in Toks(Here) /\ Mark(b) = <<"+", e>> /\ b \in Tokens(Here)
    BY <1>3, BeginEnd
  <1>6. Step(rend.stack, <<"+", e>>, <<e>> \o rend.stack) /\ <<e>> \o rend.stack \in Stacks
    BY <1>3, <1>4, StepBegin
  <1>7. input.doc[1].k = "quote" \/ NoTitle
    <2>1. Head(queue).k \notin {"header1", "indented"}
      BY <1>2, <1>3, ListElements
    <2> QED
      BY <2>1 DEF IInv, HeaderOK, NoTitle
  <1>8. b \in Kin
    BY <1>3, KinEnds DEF IInv
  <1>9. off \in Nat
    <2>1. Tk.off \in Nat
      BY <1>2 DEF Toks, Tokens
    <2> QED
      BY <2>1
  <1>d. e = Head(queue).k
    BY <1>2
  <1> HIDE DEF b, e, off
  <1>10. bs \in Seq(Toks(Here)) /\ bs \in Seq(Kin)
    BY <1>5, <1>8
  <1>12. Goes(rend.stack, bs, <<e>> \o rend.stack)
    BY <1>4, <1>5, <1>6, GoesOne
  <1> HIDE DEF bs
  <1>11. l \in Loops /\ l.on /\ l.ltype = e /\ l.first /\ l.out = bs
    <2>1. Infinity \in Nat /\ NoLoop \in Loops /\ NoLoop.first
      BY InfinityFacts, NoLoopFacts
    <2>2. e \in Lists \cup {""}
      BY <1>3
    <2> QED
      BY <1>9, <1>10, <2>1, <2>2 DEF Loops
  <1> HIDE DEF l, kinds
  <1>13. ListGoes(l, queue)
    BY <1>2, <1>3, <1>11, <1>12, <1>d DEF ListGoes
  <1>14. NoTitle => Untitled(queue) /\ Untitled(l.out)
    BY <1>10, <1>11, UntitledKin DEF IInv, NoTitle
  <1> QED
    BY <1>1, <1>2, <1>4, <1>7, <1>11, <1>13, <1>14, LoopIs

\* A loop that has put out toks, and otherwise notes what it may.
Grows(m, l, toks) ==
  m \in Loops /\ m.on = l.on /\ m.ltype = l.ltype /\ m.first = l.first /\ m.out = l.out \o toks

LEMMA OutFacts ==
  ASSUME NEW l \in Loops, NEW A, A = Toks(Here), NEW toks \in Seq(A), NEW low \in Nat, NEW iq \in BOOLEAN
  PROVE  /\ Grows([l EXCEPT !.out = @ \o toks], l, toks)
         /\ Grows([[l EXCEPT !.out = @ \o toks] EXCEPT !.low = low], l, toks)
         /\ Grows([[l EXCEPT !.out = @ \o toks] EXCEPT !.isiquote = iq], l, toks)
         /\ Grows([[l EXCEPT !.out = @ \o toks] EXCEPT !.low = low, !.isiquote = iq], l, toks)
  <1> DEFINE out == l.out \o toks
  <1>1. out \in Seq(A)
    <2>1. l.out \in Seq(A)
      BY DEF Loops
    <2> QED
      BY <2>1
  <1> HIDE DEF out
  <1>2. [l EXCEPT !.out = @ \o toks] = [l EXCEPT !.out = out]
    BY DEF out
  <1> DEFINE o == [l EXCEPT !.out = out]
  <1>3. o \in Loops /\ o.on = l.on /\ o.ltype = l.ltype /\ o.out = out /\ o.first = l.first
    BY <1>1 DEF Loops
  <1> HIDE DEF o
  <1>4. /\ [o EXCEPT !.low = low] \in Loops /\ [o EXCEPT !.low = low].on = o.on
        /\ [o EXCEPT !.low = low].ltype = o.ltype /\ [o EXCEPT !.low = low].out = o.out
        /\ [o EXCEPT !.low = low].first = o.first
    BY <1>3 DEF Loops
  <1>5. /\ [o EXCEPT !.isiquote = iq] \in Loops /\ [o EXCEPT !.isiquote = iq].on = o.on
        /\ [o EXCEPT !.isiquote = iq].ltype = o.ltype /\ [o EXCEPT !.isiquote = iq].out = o.out
        /\ [o EXCEPT !.isiquote = iq].first = o.first
    BY <1>3 DEF Loops
  <1>6. /\ [o EXCEPT !.low = low, !.isiquote = iq] \in Loops /\ [o EXCEPT !.low = low, !.isiquote = iq].on = o.on
        /\ [o EXCEPT !.low = low, !.isiquote = iq].ltype = o.ltype
        /\ [o EXCEPT !.low = low, !.isiquote = iq].out = o.out
        /\ [o EXCEPT !.low = low, !.isiquote = iq].first = o.first
    BY <1>3 DEF Loops
  <1> QED
    BY <1>2, <1>3, <1>4, <1>5, <1>6 DEF out, o, Grows

\* One token is taken, and toks are put out within the item.
LEMMA LoopOne ==
  ASSUME IInv, loop.on, queue # <<>>, Tk.k \in {"indented", "innerlist", "blank"}, NEW n \in 1 .. Len(queue),
         \A i \in 1 .. n : queue[i].k \in {"indented", "innerlist", "blank"},
         NEW toks, Via(Kin, Itemed, toks, Itemed), NEW l, Grows(l, loop, toks), Takes(n, l)
  PROVE  IInv'
  <1>g. l \in Loops /\ l.on = loop.on /\ l.ltype = loop.ltype /\ l.first = loop.first /\ l.out = loop.out \o toks
    BY DEF Grows
  <1>1. ~loop.first
    BY LoopFacts, ListElements
  <1>2. Listed = Itemed
    BY <1>1 DEF Listed, Itemed
  <1>3. \A i \in 1 .. n : Idling(queue[i])
    BY DEF Idling
  <1> QED
    BY <1>g, <1>1, <1>2, <1>3, LoopTakes

\* The token in front, in the loop.
LEMMA LoopFront ==
  ASSUME IInv, loop.on, queue # <<>>
  PROVE  /\ Tk \in Kin /\ Tk = queue[1] /\ 1 \in 1 .. Len(queue) /\ Tk.off \in Nat /\ Len(queue) \in Nat
         /\ Tk.txt \in Seq(Strings) /\ Tk.def \in Seq(Strings)
  <1>1. queue \in Seq(Kin)
    BY LoopFacts
  <1> DEFINE q == queue
             K == Kin
  <1>a. q \in Seq(K)
    BY <1>1
  <1> HIDE DEF q, K
  <1>2. q # <<>> => Head(q) \in K /\ Head(q) = q[1] /\ Len(q) \in Nat /\ Len(q) >= 1
    BY <1>a, HeadAndTail
  <1>b. Tk \in Kin /\ Tk = queue[1] /\ Len(queue) \in Nat /\ Len(queue) >= 1
    BY <1>2 DEF q, K, Tk
  <1>3. Tk \in Tokens(Here)
    BY <1>b, KinIn
  <1> QED
    BY <1>b, <1>3 DEF Tokens

LEMMA IQuoteType ==
  ASSUME IInv, NEW s \in Kin, s \in Base, s.k \in LineKinds \cup {"header1"}, NEW txt \in Seq(Strings)
  PROVE  LET t == [Blank EXCEPT !.k = "iquote", !.kid = <<s>>, !.txt = txt]
         IN t \in Kin /\ Mark(t) = <<"in", "">>
  <1> DEFINE kid == <<s>>
             t == [Blank EXCEPT !.k = "iquote", !.kid = kid, !.txt = txt]
  <1>1. kid \in Seq(Base) /\ Len(kid) = 1 /\ kid[1] = s
    OBVIOUS
  <1> HIDE DEF kid
  <1>2. "iquote" \in QueueKinds
    BY DEF QueueKinds
  <1>3. t \in Tokens(Base) /\ t.k = "iquote" /\ t.kid = kid
    BY <1>1, <1>2, BlankType DEF Tokens
  <1> HIDE DEF t
  <1>4. Fits(t)
    BY <1>1, <1>2, <1>3 DEF Fits
  <1>5. t \in Kin
    BY <1>3, <1>4 DEF Kin, Toks
  <1>6. Mark(t) = <<"in", "">>
    BY <1>3 DEF Mark
  <1> QED
    BY <1>5, <1>6 DEF t, kid

LEMMA ListIndentedKeeps == ASSUME IInv, ListIndented PROVE IInv'
  <1> DEFINE s == Tk.kid[1]
             iq == [Blank EXCEPT !.k = "iquote", !.kid = <<s>>, !.txt = s.txt]
             pt == Text("ptext", s.txt)
             n == 1
  <1>1. loop.on /\ queue # <<>> /\ Tk.k = "indented"
    BY DEF ListIndented, InList
  <1>2. /\ Tk \in Kin /\ Tk = queue[1] /\ n \in 1 .. Len(queue)
    BY <1>1, LoopFront
  <1>3. Tk.k \in Inners \cup {"iquote"}
    BY <1>1 DEF Inners
  <1>4. Itemed \in Stacks /\ Itemed # <<>> /\ loop \in Loops
    BY <1>1, LoopFacts
  <1>5. s \in Kin /\ s \in Base /\ s.k \in LineKinds \cup {"header1"} /\ Via(Kin, Itemed, <<s>>, Itemed)
    BY <1>2, <1>3, <1>4, KidGoes
  <1> HIDE DEF s, n
  <1>6. s.off \in Nat /\ s.txt \in Seq(Strings)
    <2>1. s \in Tokens(Here)
      BY <1>5, KinIn
    <2> QED
      BY <2>1 DEF Tokens
  <1>7. Step(Itemed, <<"in", "">>, Itemed) /\ Step(Itemed, <<"t", "">>, Itemed)
    BY <1>4, StepStill
  <1>8. Via(Kin, Itemed, <<iq>>, Itemed)
    <2>1. iq \in Kin /\ Mark(iq) = <<"in", "">>
      BY <1>5, <1>6, IQuoteType
    <2> HIDE DEF iq
    <2> QED
      BY <1>4, <1>7, <2>1, KinIn, ViaOne
  <1>9. Via(Kin, Itemed, <<pt>>, Itemed)
    <2>1. pt \in Kin
      BY <1>6, KinTexts DEF IInv
    <2>2. pt.k = "ptext"
      BY DEF Text, Blank
    <2>3. Mark(pt) = <<"in", "">>
      BY <2>2 DEF Mark
    <2> HIDE DEF pt
    <2> QED
      BY <1>4, <1>7, <2>1, <2>3, KinIn, ViaOne
  <1>10. Via(Kin, Itemed, <<Tk>>, Itemed)
    <2>1. Mark(Tk) = <<"t", "">>
      BY <1>1 DEF Mark
    <2> QED
      BY <1>2, <1>4, <1>7, <2>1, KinIn, ViaOne
  <1> DEFINE o(toks) == [loop EXCEPT !.out = @ \o toks]
  <1>11. \/ Takes(n, o(<<Tk>>))
         \/ Takes(n, o(<<iq>>))
         \/ Takes(n, [o(<<s>>) EXCEPT !.low = s.off])
         \/ Takes(n, [o(<<iq>>) EXCEPT !.isiquote = TRUE])
         \/ Takes(n, [o(<<pt>>) EXCEPT !.low = Infinity, !.isiquote = FALSE])
    BY DEF ListIndented, Out, s, n
  <1> HIDE DEF iq, pt
  <1>12. \A i \in 1 .. n : queue[i].k \in {"indented", "innerlist", "blank"}
    BY <1>1, <1>2 DEF n
  <1>13. Tk.k \in {"indented", "innerlist", "blank"}
    BY <1>1
  <1> DEFINE Fit(toks) == Via(Kin, Itemed, toks, Itemed)
  <1>14. \A toks, l : Fit(toks) /\ Grows(l, loop, toks) /\ Takes(n, l) => IInv'
    <2>1. SUFFICES ASSUME NEW toks, NEW l, Fit(toks), Grows(l, loop, toks), Takes(n, l) PROVE IInv'
      OBVIOUS
    <2> QED
      BY <1>1, <1>2, <1>12, <1>13, <2>1, LoopOne
  <1>15. \A toks : Fit(toks) => /\ Grows(o(toks), loop, toks) /\ Grows([o(toks) EXCEPT !.low = s.off], loop, toks)
                                /\ Grows([o(toks) EXCEPT !.isiquote = TRUE], loop, toks)
                                /\ Grows([o(toks) EXCEPT !.low = Infinity, !.isiquote = FALSE], loop, toks)
    <2>1. SUFFICES ASSUME NEW toks, Fit(toks)
                   PROVE /\ Grows(o(toks), loop, toks) /\ Grows([o(toks) EXCEPT !.low = s.off], loop, toks)
                         /\ Grows([o(toks) EXCEPT !.isiquote = TRUE], loop, toks)
                         /\ Grows([o(toks) EXCEPT !.low = Infinity, !.isiquote = FALSE], loop, toks)
      OBVIOUS
    <2>2. toks \in Seq(Toks(Here))
      <3>1. toks \in Seq(Kin) /\ Kin \subseteq Toks(Here)
        BY <2>1, BaseFacts DEF Via, IInv
      <3> QED
        BY <3>1, SeqMonotonic
    <2>3. TRUE \in BOOLEAN /\ FALSE \in BOOLEAN /\ Infinity \in Nat
      BY InfinityFacts
    <2>4. Grows(o(toks), loop, toks) /\ Grows([o(toks) EXCEPT !.low = s.off], loop, toks)
      BY <1>4, <1>6, <2>2, <2>3, OutFacts, Zenon
    <2>5. Grows([o(toks) EXCEPT !.isiquote = TRUE], loop, toks)
      BY <1>4, <1>6, <2>2, <2>3, OutFacts, Zenon
    <2>6. Grows([o(toks) EXCEPT !.low = Infinity, !.isiquote = FALSE], loop, toks)
      BY <1>4, <1>6, <2>2, <2>3, OutFacts, Zenon
    <2> QED
      BY <2>4, <2>5, <2>6
  <1>16. Fit(<<Tk>>) /\ Fit(<<iq>>) /\ Fit(<<s>>) /\ Fit(<<pt>>)
    BY <1>5, <1>8, <1>9, <1>10
  <1> HIDE DEF Fit, o
  <1> QED
    BY <1>11, <1>14, <1>15, <1>16, Zenon

LEMMA ListInnerKeeps == ASSUME IInv, ListInner PROVE IInv'
  <1> DEFINE n == 1
             l == [Out(Tk.kid) EXCEPT !.low = Tk.kid[1].off, !.isiquote = FALSE]
  <1>1. loop.on /\ queue # <<>> /\ Tk.k = "innerlist" /\ Takes(n, l)
    BY DEF ListInner, InList
  <1>2. /\ Tk \in Kin /\ Tk = queue[1] /\ n \in 1 .. Len(queue)
    BY <1>1, LoopFront
  <1>3. Tk.k \in Inners \cup {"iquote"}
    BY <1>1 DEF Inners
  <1>4. Itemed \in Stacks /\ Itemed # <<>> /\ loop \in Loops
    BY <1>1, LoopFacts
  <1>5. Via(Kin, Itemed, Tk.kid, Itemed) /\ Tk.kid[1] \in Kin
    BY <1>2, <1>3, <1>4, KidGoes
  <1>6. Tk.kid[1].off \in Nat
    <2>1. Tk.kid[1] \in Tokens(Here)
      BY <1>5, KinIn
    <2> QED
      BY <2>1 DEF Tokens
  <1>7. Tk.kid \in Seq(Toks(Here))
    <3>1. Tk.kid \in Seq(Kin) /\ Kin \subseteq Toks(Here)
      BY <1>5, BaseFacts DEF Via, IInv
    <3> QED
      BY <3>1, SeqMonotonic
  <1>8. Grows(l, loop, Tk.kid)
    <2>1. FALSE \in BOOLEAN
      OBVIOUS
    <2> QED
      BY <1>4, <1>6, <1>7, <2>1, OutFacts, Zenon DEF Out
  <1>9. \A i \in 1 .. n : queue[i].k \in {"indented", "innerlist", "blank"}
    BY <1>1, <1>2
  <1>10. Tk.k \in {"indented", "innerlist", "blank"}
    BY <1>1
  <1> HIDE DEF n, l
  <1> QED
    BY <1>1, <1>2, <1>5, <1>8, <1>9, <1>10, LoopOne

LEMMA SayGoes ==
  ASSUME IInv, NEW a \in Stacks, a # <<>>, NEW k \in {"para", "ptext"}, NEW txt \in Seq(Strings)
  PROVE  Via(Kin, a, IF txt = <<>> THEN <<>> ELSE <<Text(k, txt)>>, a)
  <1> DEFINE t == Text(k, txt)
  <1>1. t \in Kin
    BY KinTexts DEF IInv
  <1>2. t.k = k
    BY TextType
  <1>3. Mark(t) \in {<<"t", "">>, <<"in", "">>}
    BY <1>2 DEF Mark
  <1> HIDE DEF t
  <1>4. Step(a, <<"t", "">>, a) /\ Step(a, <<"in", "">>, a)
    BY StepStill
  <1>5. Step(a, Mark(t), a)
    BY <1>3, <1>4
  <1>6. Via(Kin, a, <<t>>, a)
    BY <1>1, <1>5, KinIn, ViaOne
  <1>7. Via(Kin, a, <<>>, a)
    BY ViaNone
  <1> QED
    BY <1>6, <1>7 DEF t

LEMMA EndsKin ==
  ASSUME IInv, NEW e \in Elements, NEW a \in Stacks
  PROVE  Via(Kin, a, <<Begin(e)>>, <<e>> \o a) /\ Via(Kin, <<e>> \o a, <<End(e)>>, a) /\ <<e>> \o a \in Stacks
         /\ <<e>> \o a # <<>>
  <1> DEFINE s == <<e>> \o a
             b == Begin(e)
             d == End(e)
  <1>1. b \in Kin /\ d \in Kin /\ s \in Stacks /\ Step(a, Mark(b), s) /\ Step(s, Mark(d), a)
    <2>1. <<>> \in Seq(Strings) /\ SubsOK
      BY NoneFacts DEF IInv
    <2> QED
      BY <2>1, SpeechFacts, KinEnds, KinIn
  <1>2. s # <<>>
    <2>1. e \in Strings
      BY Plainly
    <2> QED
      BY <2>1, ConsFacts DEF Stacks
  <1> HIDE DEF s, b, d
  <1>3. Via(Kin, s, <<d>>, a) /\ Via(Kin, a, <<b>>, s)
    BY <1>1, KinIn, ViaOne
  <1> QED
    BY <1>1, <1>2, <1>3 DEF b, d, s

LEMMA ListItemKeeps == ASSUME IInv, ListItem PROVE IInv'
  <1> DEFINE first(e) == IF loop.first THEN <<>> ELSE <<End(e)>>
             Say(k, txt) == IF txt = <<>> THEN <<>> ELSE <<Text(k, txt)>>
             d == "dl"
             item1 == first("dd") \o <<Begin("dt")>> \o Say("ptext", Tk.txt)
                        \o <<End("dt"), Begin("dd")>> \o Say("ptext", Tk.def)
             item2 == first("li") \o <<Begin("li")>> \o Say(IF Tk.para THEN "para" ELSE "ptext", Tk.txt)
             item == IF Tk.k = d THEN item1 ELSE item2
             l == [Out(item) EXCEPT !.first = FALSE, !.low = Infinity, !.isiquote = FALSE]
             n == 1
             b == <<loop.ltype>> \o rend.stack
  <1>1. loop.on /\ queue # <<>> /\ Tk.k = loop.ltype /\ Takes(n, l)
    BY DEF ListItem, InList
  <1>2. /\ Tk \in Kin /\ Tk = queue[1] /\ n \in 1 .. Len(queue) /\ Tk.txt \in Seq(Strings) /\ Tk.def \in Seq(Strings)
    BY <1>1, LoopFront
  <1>3. /\ b \in Stacks /\ loop \in Loops /\ loop.ltype \in Lists
        /\ Itemed = <<Item(loop.ltype)>> \o b
        /\ (loop.first => Listed = b) /\ (~loop.first => Listed = Itemed)
    BY <1>1, LoopFacts DEF Listed, Itemed
  <1>4. Idling(queue[1])
    BY <1>1, <1>2, <1>3 DEF Lists, Idling
  <1> HIDE DEF b
  <1> DEFINE it == Item(loop.ltype)
  <1>5. it \in Elements /\ it = (IF Tk.k = d THEN "dd" ELSE "li")
    BY <1>1, <1>3, ListElements
  <1>6. Via(Kin, Listed, first(it), b)
    BY <1>3, <1>5, EndsKin, ViaNone
  <1> HIDE DEF first, it
  <1>7. ASSUME Tk.k = d PROVE Via(Kin, Listed, item, Itemed)
    <2>1. it = "dd" /\ "dt" \in Elements /\ "dd" \in Elements /\ "ptext" \in {"para", "ptext"}
      BY <1>5, <1>7 DEF Elements
    <2> DEFINE t == <<"dt">> \o b
               u == <<"dd">> \o b
    <2>2. /\ t \in Stacks /\ t # <<>> /\ u \in Stacks /\ u # <<>>
          /\ Via(Kin, b, <<Begin("dt")>>, t) /\ Via(Kin, t, <<End("dt")>>, b) /\ Via(Kin, b, <<Begin("dd")>>, u)
      BY <1>3, <2>1, EndsKin
    <2>3. u = Itemed
      BY <1>3, <2>1 DEF it
    <2> HIDE DEF t, u
    <2>4. Via(Kin, t, Say("ptext", Tk.txt), t) /\ Via(Kin, u, Say("ptext", Tk.def), u)
      BY <1>2, <2>1, <2>2, SayGoes
    <2>5. Via(Kin, t, <<End("dt"), Begin("dd")>>, u)
      <3>1. <<End("dt"), Begin("dd")>> = <<End("dt")>> \o <<Begin("dd")>>
        BY PairOf DEF Two
      <3> QED
        BY <2>2, <3>1, KinIn, ViaJoin
    <2> HIDE DEF Say
    <2>6. Via(Kin, Listed, first("dd"), b)
      BY <1>6, <2>1
    <2>7. Via(Kin, Listed, first("dd") \o <<Begin("dt")>>, t)
      BY <2>2, <2>6, KinIn, ViaJoin
    <2>8. Via(Kin, Listed, first("dd") \o <<Begin("dt")>> \o Say("ptext", Tk.txt), t)
      BY <2>4, <2>7, KinIn, ViaJoin
    <2>9. Via(Kin, Listed, first("dd") \o <<Begin("dt")>> \o Say("ptext", Tk.txt) \o <<End("dt"), Begin("dd")>>, u)
      BY <2>5, <2>8, KinIn, ViaJoin
    <2>10. Via(Kin, Listed, item1, u)
      BY <2>4, <2>9, KinIn, ViaJoin
    <2> HIDE DEF item1, item2
    <2> QED
      BY <1>7, <2>3, <2>10
  <1>8. ASSUME Tk.k # d PROVE Via(Kin, Listed, item, Itemed)
    <2>1. it = "li" /\ "li" \in Elements /\ (IF Tk.para THEN "para" ELSE "ptext") \in {"para", "ptext"}
      BY <1>5, <1>8 DEF Elements
    <2> DEFINE k == IF Tk.para THEN "para" ELSE "ptext"
               u == <<"li">> \o b
    <2>2. u \in Stacks /\ u # <<>> /\ Via(Kin, b, <<Begin("li")>>, u)
      BY <1>3, <2>1, EndsKin
    <2>3. u = Itemed
      BY <1>3, <2>1 DEF it
    <2> HIDE DEF u
    <2>4. Via(Kin, u, Say(k, Tk.txt), u)
      BY <1>2, <2>1, <2>2, SayGoes
    <2> HIDE DEF Say
    <2>6. Via(Kin, Listed, first("li"), b)
      BY <1>6, <2>1
    <2>7. Via(Kin, Listed, first("li") \o <<Begin("li")>>, u)
      BY <2>2, <2>6, KinIn, ViaJoin
    <2>8. Via(Kin, Listed, item2, u)
      BY <2>4, <2>7, KinIn, ViaJoin
    <2> HIDE DEF item1, item2
    <2> QED
      BY <1>8, <2>3, <2>8
  <1>9. Via(Kin, Listed, item, Itemed)
    BY <1>7, <1>8
  <1> HIDE DEF item
  <1>10. l \in Loops /\ l.on = loop.on /\ l.ltype = loop.ltype /\ ~l.first /\ l.out = loop.out \o item
    <2> DEFINE out == loop.out \o item
               toks == Toks(Here)
    <2>1. item \in Seq(toks)
      <3>1. item \in Seq(Kin) /\ Kin \subseteq Toks(Here)
        BY <1>9, BaseFacts DEF Via, IInv
      <3> QED
        BY <3>1, SeqMonotonic
    <2>2. loop.out \in Seq(toks)
      BY <1>3 DEF Loops
    <2>3. out \in Seq(toks)
      BY <2>1, <2>2
    <2>4. l = [[loop EXCEPT !.out = out] EXCEPT !.first = FALSE, !.low = Infinity, !.isiquote = FALSE]
      BY DEF Out
    <2> HIDE DEF out
    <2> DEFINE o == [loop EXCEPT !.out = out]
    <2>5. o \in Loops /\ o.on = loop.on /\ o.ltype = loop.ltype /\ o.out = out
      BY <1>3, <2>3 DEF Loops
    <2>6. l = [o EXCEPT !.first = FALSE, !.low = Infinity, !.isiquote = FALSE]
      BY <2>4
    <2> HIDE DEF o
    <2> HIDE DEF l
    <2>7. l \in Loops /\ l.on = o.on /\ l.ltype = o.ltype /\ ~l.first /\ l.out = o.out
      BY <2>5, <2>6, InfinityFacts DEF Loops
    <2> QED
      BY <2>5, <2>7 DEF out
  <1> HIDE DEF l
  <1>11. \A i \in 1 .. n : Idling(queue[i])
    BY <1>4
  <1> HIDE DEF n
  <1> QED
    BY <1>1, <1>2, <1>9, <1>10, <1>11, LoopTakes

LEMMA InsertGoes ==
  ASSUME IInv, NEW a \in Stacks
  PROVE  Via(Kin, a, <<Insert("p")>>, a)
  <1> DEFINE t == Insert("p")
  <1>1. t \in Tokens(Base) /\ t.k = "insert"
    <2>1. "p" \in Strings /\ "insert" \in QueueKinds
      BY Plainly DEF Elements, QueueKinds
    <2> QED
      BY <2>1, BlankType DEF Insert, Tokens
  <1> HIDE DEF t
  <1>2. t.k \notin {"begin", "end", "procnote", "header1"} \cup Inners \cup {"iquote"} /\ t.k \in QueueKinds
    BY <1>1 DEF Inners, QueueKinds
  <1>3. t \in Kin
    BY <1>1, <1>2, KinPara DEF IInv
  <1>4. Mark(t) = <<"t", "">>
    BY <1>1 DEF Mark
  <1>5. Step(a, <<"t", "">>, a)
    BY StepStill
  <1>6. Step(a, Mark(t), a)
    BY <1>4, <1>5
  <1>7. Via(Kin, a, <<t>>, a)
    BY <1>3, <1>6, KinIn, ViaOne
  <1> QED
    BY <1>7 DEF t

LEMMA ListBlankKeeps == ASSUME IInv, ListBlank PROVE IInv'
  <1>1. loop.on /\ queue # <<>> /\ Tk.k = "blank" /\ Len(queue) > 1
    BY DEF ListBlank, InList
  <1>2. /\ Tk \in Kin /\ Tk = queue[1] /\ 1 \in 1 .. Len(queue) /\ Len(queue) \in Nat
    BY <1>1, LoopFront
  <1>3. Itemed \in Stacks /\ Itemed # <<>> /\ loop \in Loops /\ queue \in Seq(Kin)
    BY <1>1, LoopFacts
  <1>4. Tk.k \in {"indented", "innerlist", "blank"}
    BY <1>1
  <1>5. ASSUME NEW toks, Via(Kin, Itemed, toks, Itemed)
        PROVE  Grows(Out(toks), loop, toks)
    <2>1. toks \in Seq(Toks(Here))
      <3>1. toks \in Seq(Kin) /\ Kin \subseteq Toks(Here)
        BY <1>5, BaseFacts DEF Via, IInv
      <3> QED
        BY <3>1, SeqMonotonic
    <2>2. FALSE \in BOOLEAN /\ 0 \in Nat
      OBVIOUS
    <2> QED
      BY <1>3, <2>1, <2>2, OutFacts, Zenon DEF Out
  <1>6. CASE Continues(queue[2]) /\ Takes(1, Out(<<Insert("p")>>))
    <2> DEFINE n == 1
               toks == <<Insert("p")>>
               l == Out(toks)
    <2>1. Via(Kin, Itemed, toks, Itemed)
      BY <1>3, InsertGoes
    <2> HIDE DEF toks
    <2>2. Grows(l, loop, toks)
      BY <1>5, <2>1
    <2>3. Takes(n, l)
      BY <1>6 DEF toks
    <2>4. \A i \in 1 .. n : queue[i].k \in {"indented", "innerlist", "blank"}
      BY <1>1, <1>2
    <2>5. n \in 1 .. Len(queue)
      BY <1>2
    <2> HIDE DEF n, l
    <2> QED
      BY <1>1, <1>4, <2>1, <2>2, <2>3, <2>4, <2>5, LoopOne
  <1>7. CASE Swallows(queue[2]) /\ Takes(2, Out(SubSeq(queue, 1, 2)))
    <2> DEFINE n == 2
               toks == SubSeq(queue, 1, n)
               l == Out(toks)
    <2>1. n \in 1 .. Len(queue) /\ n \in 0 .. Len(queue)
      BY <1>1, <1>2
    <2>2. \A i \in 1 .. n : queue[i].k \in {"indented", "innerlist", "blank"}
      <3>1. queue[2].k = "indented"
        BY <1>7 DEF Swallows
      <3>2. \A i \in 1 .. n : i = 1 \/ i = 2
        OBVIOUS
      <3> QED
        BY <1>1, <1>2, <3>1, <3>2
    <2>3. Takes(n, l)
      BY <1>7
    <2> HIDE DEF n
    <2>4. toks \in Seq(Kin) /\ Len(toks) = n /\ \A i \in 1 .. n : toks[i] = queue[i]
      BY <1>3, <2>1, RestFacts
    <2> HIDE DEF toks
    <2>5. \A i \in 1 .. Len(toks) : Mark(toks[i]) = <<"t", "">>
      BY <2>2, <2>4 DEF Mark
    <2>6. Via(Kin, Itemed, toks, Itemed)
      BY <1>3, <2>4, <2>5, IdlesVia
    <2>7. Grows(l, loop, toks)
      BY <1>5, <2>6
    <2> HIDE DEF l
    <2> QED
      BY <1>1, <1>4, <2>1, <2>2, <2>3, <2>6, <2>7, LoopOne
  <1> QED
    BY <1>6, <1>7 DEF ListBlank

LEMMA ListEndKeeps == ASSUME IInv, ListEnd PROVE IInv'
  <1> DEFINE it == Item(loop.ltype)
             e == loop.ltype
             ends == <<End(it), End(e)>>
             q == loop.out \o ends \o queue
             b == <<e>> \o rend.stack
  <1>1. loop.on /\ queue' = q /\ loop' = NoLoop /\ input' = input /\ rend' = rend /\ calls' = calls /\ done' = done /\ subs' = subs
    BY DEF ListEnd, Item
  <1>2. /\ calls = <<>> /\ loop.ltype \in Lists /\ rend.stack \in Stacks
        /\ Itemed = <<it>> \o b /\ b \in Stacks
        /\ input.doc[1].k = "quote" \/ NoTitle
        /\ queue \in Seq(Kin) /\ Goes(rend.stack, queue, <<>>) /\ Via(Kin, rend.stack, loop.out, Listed)
        /\ loop.first => queue # <<>> /\ Head(queue).k = loop.ltype
    BY <1>1, LoopFacts
  <1>3. ~loop.first
    <2>1. loop.first => queue # <<>> /\ Tk.k = loop.ltype /\ Tk.k # "blank"
      BY <1>2, ListElements DEF Tk
    <2> QED
      BY <2>1 DEF ListEnd, InList
  <1>4. Listed = Itemed
    BY <1>3 DEF Listed, Itemed
  <1>5. it \in Elements /\ e \in Elements
    BY <1>2, ListElements
  <1>6. Via(Kin, <<it>> \o b, <<End(it)>>, b) /\ Via(Kin, <<e>> \o rend.stack, <<End(e)>>, rend.stack)
    BY <1>2, <1>5, EndsKin
  <1>7. <<End(it), End(e)>> = <<End(it)>> \o <<End(e)>>
    BY PairOf DEF Two
  <1>8. Via(Kin, Itemed, ends, rend.stack)
    BY <1>2, <1>6, <1>7, KinIn, ViaJoin
  <1> HIDE DEF ends
  <1>9. Via(Kin, rend.stack, queue, <<>>)
    BY <1>2 DEF Via
  <1>10. Via(Kin, rend.stack, loop.out \o ends, rend.stack)
    BY <1>2, <1>4, <1>8, KinIn, ViaJoin
  <1>11. Via(Kin, rend.stack, q, <<>>)
    BY <1>9, <1>10, KinIn, ViaJoin
  <1> HIDE DEF q
  <1>12. q \in Seq(Kin) /\ Goes(rend.stack, q, <<>>)
    BY <1>11 DEF Via
  <1>13. q \in Seq(Toks(Here))
    <2>1. Kin \subseteq Toks(Here)
      BY BaseFacts DEF IInv
    <2> QED
      BY <1>12, <2>1, SeqMonotonic
  <1>14. NoLoop \in Loops /\ ~NoLoop.on /\ NoLoop.out = <<>>
    BY NoLoopFacts
  <1>15. input.doc[1].k = "quote" \/ (Untitled(q) /\ Untitled(NoLoop.out))
    <2>1. Untitled(<<>>)
      BY NoneFacts DEF Untitled
    <2> QED
      BY <1>2, <1>12, <1>14, <2>1, UntitledKin DEF IInv
  <1> QED
    BY <1>1, <1>2, <1>12, <1>13, <1>14, <1>15, LoopIs

LEMMA HandlerKeeps == ASSUME IInv, Handler PROVE IInv'
  BY BlankLineKeeps, RuleKeeps, NewlineKeeps, HeaderKeeps, Header1Keeps, ParagraphKeeps, ParaKeeps, PTextKeeps,
     IndentedKeeps, TableRowsKeeps, QuoteKeeps, IQuoteKeeps, InnerListKeeps,
     ListStartKeeps, ListIndentedKeeps, ListInnerKeeps, ListItemKeeps, ListBlankKeeps, ListEndKeeps,
     ProcNoteKeeps, CutShortKeeps, BeginElementKeeps, EndElementKeeps, InsertElementKeeps
     DEF Handler

-----------------------------------------------------------------------------
(* The end, and the beginning.                                             *)

LEMMA FinishFacts ==
  ASSUME NEW r \in Rends
  PROVE  LET f == [r EXCEPT !.res = @ \o Ends(r.styles) \o Ends(r.stack), !.styles = <<>>, !.stack = <<>>]
             h == r.res \o Ends(r.styles) \o Ends(r.stack)
         IN /\ f \in Rends /\ f.stack = <<>> /\ f.styles = <<>> /\ f.res = h /\ h \in Seq(Html)
            /\ f.barrier = r.barrier /\ f.lits = r.lits /\ f.err = r.err /\ f.floor = r.floor
            /\ f.leak = r.leak /\ f.blocks = r.blocks /\ f.title = r.title /\ f.mode = r.mode
  <1> DEFINE h == r.res \o Ends(r.styles) \o Ends(r.stack)
             none == <<>>
             f == [r EXCEPT !.res = h, !.styles = none, !.stack = none]
  <1>1. h \in Seq(Html)
    <2>1. r.res \in Seq(Html) /\ Ends(r.styles) \in Seq(Html) /\ Ends(r.stack) \in Seq(Html)
      BY StylesType, EndsFacts DEF Stacks
    <2>2. r.res \o Ends(r.styles) \in Seq(Html)
      BY <2>1
    <2> QED
      BY <2>1, <2>2
  <1>2. none \in Seq(Fonts) /\ none \in Seq(Elements)
    BY NoneFacts
  <1>3. [r EXCEPT !.res = @ \o Ends(r.styles) \o Ends(r.stack), !.styles = <<>>, !.stack = <<>>] = f
    OBVIOUS
  <1> HIDE DEF h, none
  <1>4. /\ f \in Rends /\ f.stack = none /\ f.styles = none /\ f.res = h
        /\ f.barrier = r.barrier /\ f.lits = r.lits /\ f.err = r.err /\ f.floor = r.floor
        /\ f.leak = r.leak /\ f.blocks = r.blocks /\ f.title = r.title /\ f.mode = r.mode
    BY <1>1, <1>2 DEF Rends
  <1> HIDE DEF f
  <1> QED
    BY <1>1, <1>3, <1>4 DEF none, h

LEMMA FinishKeeps == ASSUME IInv, Finish PROVE IInv'
  <1> DEFINE f == [rend EXCEPT !.res = @ \o Ends(rend.styles) \o Ends(rend.stack), !.styles = <<>>, !.stack = <<>>]
             r == ForceBlock(f, "end")
  <1>1. /\ ~done /\ ~loop.on /\ calls = <<>> /\ queue = <<>> /\ rend.err = ""
        /\ rend' = r /\ done' = TRUE /\ input' = input /\ queue' = queue /\ calls' = calls /\ loop' = loop /\ subs' = subs
    BY DEF Finish
  <1>2. TypeOK /\ rend \in Rends
    BY DEF IInv, TypeOK
  <1>3. f \in Rends /\ f.stack = <<>> /\ f.styles = <<>> /\ f.barrier = rend.barrier /\ f.lits = rend.lits /\ f.err = rend.err
    BY <1>2, FinishFacts
  <1> HIDE DEF f
  <1>4. r \in Rends /\ r.stack = <<>> /\ r.styles = <<>> /\ r.barrier = rend.barrier /\ r.lits = rend.lits /\ r.err = rend.err
    <2>1. Blocked(r, f, "end") /\ "end" \in Whats
      BY <1>3, PushFacts DEF Whats
    <2> HIDE DEF r
    <2> QED
      BY <1>3, <2>1, BlockedFacts
  <1> HIDE DEF r
  <1>5. Here' = Here
    BY <1>1 DEF Here
  <1>6. TypeOK'
    <2>1. queue' \in Seq(Toks(Here')) /\ calls' \in Seq(CallToks(Here'))
      BY <1>1, <1>2, <1>5 DEF TypeOK
    <2>2. loop' \in Loops'
      BY <1>1, <1>2, <1>5 DEF TypeOK, Loops
    <2>3. \A i \in DOMAIN rend'.lits : Len(rend'.lits[i]) = 3
      BY <1>1, <1>2, <1>4 DEF TypeOK
    <2> QED
      BY <1>1, <1>2, <1>4, <2>1, <2>2, <2>3 DEF TypeOK
  <1>7. StackOK'
    <2>1. <<>> \in Stacks
      BY NoneFacts DEF Stacks
    <2>2. <<>> \o <<>> = <<>>
      BY NoneFacts, NoneJoin
    <2>3. Goes(<<>>, <<>>, <<>>)
      BY <2>1, GoesNone
    <2> QED
      BY <1>1, <1>4, <2>2, <2>3 DEF StackOK, Goes
  <1>8. HeaderOK'
    BY <1>1 DEF IInv, HeaderOK, Untitled
  <1>9. CallsOK' /\ SubsOK' /\ DepthOK' /\ Substitutes' = Substitutes
    BY <1>1, SameCalls
  <1>10. StylesOK'
    <2>s. SUFFICES ASSUME ~Substitutes PROVE StylesHold'
      BY <1>9 DEF StylesOK
    <2>1. ~Pending("endstyle") /\ ~Pending("endlink")
      BY <1>1, NoneFacts DEF Pending
    <2>2. Len(rend.barrier) = 0
      BY <2>1, <2>s DEF IInv, StylesOK, StylesHold
    <2>3. DOMAIN <<>> = {} /\ ~Contains(<<>>, "big")
      BY NoneFacts, ContainsNone
    <2>4. ~Pending("endstyle")' /\ ~Pending("endlink")'
      BY <1>1, <2>1 DEF Pending
    <2>5. rend'.styles = <<>> /\ Len(rend'.barrier) = 0
      BY <1>1, <1>4, <2>2
    <2>6. DOMAIN rend'.styles = {} /\ ~Contains(rend'.styles, "big")
      BY <2>3, <2>5
    <2> QED
      BY <2>4, <2>5, <2>6 DEF StylesHold
  <1>11. FailsAsKnown'
    BY <1>1, <1>4 DEF FailsAsKnown
  <1> QED
    BY <1>6, <1>7, <1>8, <1>9, <1>10, <1>11 DEF IInv

LEMMA NothingFacts ==
  ASSUME NEW r \in Rends
  PROVE  LET f == [r EXCEPT !.res = <<>>, !.blocks = <<>>, !.empty = TRUE, !.title = <<>>,
                            !.feats = @ \cup {"restricted"}]
         IN /\ f \in Rends /\ f.stack = r.stack /\ f.styles = r.styles /\ f.res = <<>> /\ f.blocks = <<>>
            /\ f.barrier = r.barrier /\ f.lits = r.lits /\ f.err = r.err /\ f.floor = r.floor
            /\ f.leak = r.leak /\ f.title = <<>> /\ f.mode = r.mode
  <1> DEFINE none == <<>>
             feats == r.feats \cup {"restricted"}
             f == [r EXCEPT !.res = none, !.blocks = none, !.empty = TRUE, !.title = none, !.feats = feats]
  <1>1. none \in Seq(Html) /\ none \in Seq([what : Whats, html : Seq(Html)])
    BY NoneFacts
  <1>2. feats \in SUBSET Feats
    BY DEF Rends, Feats
  <1>3. [r EXCEPT !.res = <<>>, !.blocks = <<>>, !.empty = TRUE, !.title = <<>>,
                  !.feats = @ \cup {"restricted"}] = f
    OBVIOUS
  <1> HIDE DEF none, feats
  <1>4. /\ f \in Rends /\ f.stack = r.stack /\ f.styles = r.styles /\ f.res = none /\ f.blocks = none
        /\ f.barrier = r.barrier /\ f.lits = r.lits /\ f.err = r.err /\ f.floor = r.floor
        /\ f.leak = r.leak /\ f.title = none /\ f.mode = r.mode
    BY <1>1, <1>2 DEF Rends
  <1> HIDE DEF f
  <1> QED
    BY <1>3, <1>4 DEF none

\* Nothing but what is written, or the end, has changed.
LEMMA SameKeeps ==
  ASSUME IInv, input' = input, queue' = queue, calls' = calls, loop' = loop, subs' = subs, done' \in BOOLEAN,
         NEW r \in Rends, rend' = r, r.stack = rend.stack, r.styles = rend.styles, r.barrier = rend.barrier,
         r.lits = rend.lits, r.err = rend.err, r.res = rend.res \/ r.res = <<>>
  PROVE  IInv'
  <1>1. TypeOK
    BY DEF IInv
  <1>5. Here' = Here
    BY DEF Here
  <1>6. TypeOK'
    <2>1. queue' \in Seq(Toks(Here')) /\ calls' \in Seq(CallToks(Here'))
      BY <1>1, <1>5 DEF TypeOK
    <2>2. loop' \in Loops'
      BY <1>1, <1>5 DEF TypeOK, Loops
    <2>3. \A i \in DOMAIN rend'.lits : Len(rend'.lits[i]) = 3
      BY <1>1 DEF TypeOK
    <2> QED
      BY <1>1, <2>1, <2>2, <2>3 DEF TypeOK
  <1>7. StackOK'
    BY DEF IInv, StackOK
  <1>8. HeaderOK'
    <2>1. rend.res = <<>> => rend'.res = <<>>
      OBVIOUS
    <2> QED
      BY <2>1 DEF IInv, HeaderOK, Untitled
  <1>9. CallsOK' /\ SubsOK' /\ DepthOK' /\ Substitutes' = Substitutes
    BY SameCalls
  <1>10. StylesOK'
    BY <1>9 DEF IInv, StylesOK, StylesHold, Pending
  <1>11. FailsAsKnown'
    BY FailsSame DEF IInv
  <1> QED
    BY <1>6, <1>7, <1>8, <1>9, <1>10, <1>11 DEF IInv

LEMMA NothingKeeps == ASSUME IInv, Nothing PROVE IInv'
  <1> DEFINE r == [rend EXCEPT !.res = <<>>, !.blocks = <<>>, !.empty = TRUE, !.title = <<>>,
                               !.feats = @ \cup {"restricted"}]
  <1>1. rend' = r /\ done' \in BOOLEAN /\ input' = input /\ queue' = queue /\ calls' = calls /\ loop' = loop /\ subs' = subs
    BY DEF Nothing
  <1>2. rend \in Rends
    BY DEF IInv, TypeOK
  <1>3. /\ r \in Rends /\ r.stack = rend.stack /\ r.styles = rend.styles /\ r.barrier = rend.barrier
        /\ r.lits = rend.lits /\ r.err = rend.err /\ r.res = <<>>
    BY <1>2, NothingFacts
  <1> HIDE DEF r
  <1> QED
    BY <1>1, <1>3, SameKeeps

LEMMA RaiseKeeps == ASSUME IInv, Raise PROVE IInv'
  <1>1. rend' = rend /\ done' \in BOOLEAN /\ input' = input /\ queue' = queue /\ calls' = calls /\ loop' = loop /\ subs' = subs
    BY DEF Raise
  <1>2. rend \in Rends
    BY DEF IInv, TypeOK
  <1> QED
    BY <1>1, <1>2, SameKeeps

LEMMA StutterKeeps == ASSUME IInv, UNCHANGED vars PROVE IInv'
  <1>1. rend' = rend /\ done' = done /\ input' = input /\ queue' = queue /\ calls' = calls /\ loop' = loop /\ subs' = subs
    BY DEF vars
  <1>2. rend \in Rends /\ done' \in BOOLEAN
    BY <1>1 DEF IInv, TypeOK
  <1> QED
    BY <1>1, <1>2, SameKeeps

LEMMA NextKeeps == ASSUME IInv, [Next]_vars PROVE IInv'
  BY CallKeeps, HandlerKeeps, FinishKeeps, NothingKeeps, RaiseKeeps, StutterKeeps DEF Next, Terminated

LEMMA NewRendType ==
  ASSUME NEW mode \in Modes
  PROVE  LET r == NewRend(mode)
         IN /\ r \in Rends /\ r.stack = <<>> /\ r.styles = <<>> /\ r.res = <<>> /\ r.barrier = <<>> /\ r.lits = <<>>
            /\ r.err = "" /\ r.blocks = <<>> /\ r.title = <<>> /\ r.floor = 0
  <1> DEFINE none == <<>>
             r == NewRend(mode)
  <1>1. /\ none \in Seq(Html) /\ none \in Seq([what : Whats, html : Seq(Html)]) /\ none \in Seq(Elements)
        /\ none \in Seq(Fonts) /\ none \in Seq(Seq(Fonts)) /\ none \in Seq(Seq(Strings))
    BY NoneFacts
  <1>2. r = [mode |-> mode, res |-> none, blocks |-> none, spos |-> 0, pushing |-> TRUE,
            stack |-> none, styles |-> none, barrier |-> none, off |-> {},
            lits |-> none, abbrs |-> {}, known |-> {}, title |-> none,
            feats |-> {}, empty |-> FALSE, err |-> "", floor |-> 0, leak |-> FALSE]
    BY DEF NewRend
  <1>3. "" \in Errors
    BY DEF Errors
  <1> HIDE DEF none, r
  <1>4. r \in Rends
    BY <1>1, <1>2, <1>3 DEF Rends
  <1>5. /\ r.stack = none /\ r.styles = none /\ r.res = none /\ r.barrier = none /\ r.lits = none
        /\ r.err = "" /\ r.blocks = none /\ r.title = none /\ r.floor = 0
    BY <1>2
  <1> QED
    BY <1>4, <1>5 DEF none, r

LEMMA FirstQueue ==
  ASSUME Init
  PROVE  LET W == Within(input.doc)
             t == FirstLine(input.doc[1])
         IN /\ input \in Inputs /\ queue = <<t>> \o Tail(input.doc) /\ t \in Toks(Here)
            /\ queue \in Seq(Toks(Here)) /\ queue # <<>> /\ Head(queue) = t /\ Tail(queue) = Tail(input.doc)
            /\ Untitled(Tail(queue))
            /\ \A i \in 1 .. Len(queue) : queue[i].k \in LineKinds \cup {"header1"}
  <1> DEFINE W == Within(input.doc)
             doc == input.doc
             t == FirstLine(doc[1])
             tail == Tail(doc)
  <1>1. input \in Inputs /\ queue = <<t>> \o tail
    BY DEF Init
  <1>2. /\ doc \in Seq(W) /\ doc # <<>> /\ doc[1] \in W
        /\ \A i \in DOMAIN doc : doc[i].k \in LineKinds
        /\ Sound(W) /\ \A u \in W : IsLine(u) /\ u.k \in LineKinds \cup NoteKinds
    BY <1>1, WithinFacts
  <1>3. W \subseteq Here /\ Sound(Here) /\ t \in Toks(Here)
    BY <1>1, TitledFacts DEF Here
  <1> HIDE DEF W, doc
  <1>4. doc[1].k \in LineKinds
    BY <1>2, HeadAndTail, DomainFacts
  <1>5. t.k \in LineKinds \cup {"header1"}
    <2> DEFINE u == doc[1]
               V == W
    <2>a. u \in V /\ u.k \in LineKinds /\ Sound(V) /\ \A x \in V : IsLine(x) /\ x.k \in LineKinds \cup NoteKinds
      BY <1>2, <1>4
    <2>b. t = FirstLine(u)
      OBVIOUS
    <2> HIDE DEF u, V
    <2>c. FirstLine(u).k = Titular(u.k)
      BY <2>a, FirstLineFacts
    <2>1. t.k = Titular(doc[1].k)
      BY <2>b, <2>c DEF u
    <2> QED
      BY <1>4, <2>1 DEF Titular
  <1>6. tail \in Seq(W) /\ \A i \in 1 .. Len(tail) : tail[i].k \in LineKinds
    <2>1. tail \in Seq(W)
      BY <1>2, HeadAndTail
    <2>2. \A i \in 1 .. Len(tail) : i + 1 \in 2 .. Len(doc) /\ tail[i] = doc[i + 1]
      BY <1>2, TailFacts
    <2>3. DOMAIN doc = 1 .. Len(doc) /\ Len(doc) \in Nat
      BY <1>2, DomainFacts
    <2>4. \A i \in 1 .. Len(tail) : i + 1 \in DOMAIN doc
      BY <2>2, <2>3
    <2> QED
      BY <1>2, <2>1, <2>2, <2>4
  <1>7. \A i \in 1 .. Len(tail) : tail[i] \in Toks(W)
    <2>1. \A i \in 1 .. Len(tail) : tail[i] \in W /\ tail[i].k \notin NoteKinds
      <3>1. \A i \in 1 .. Len(tail) : tail[i] \in W
        BY <1>6
      <3>2. \A k \in LineKinds : k \notin NoteKinds
        BY KindFacts
      <3> HIDE DEF tail
      <3> QED
        BY <1>6, <3>1, <3>2
    <2> QED
      BY <1>2, <2>1, TokOf
  <1> HIDE DEF t, tail
  <1>8. tail \in Seq(Toks(W)) /\ DOMAIN tail = 1 .. Len(tail)
    BY <1>6, <1>7, SeqWithin, DomainFacts
  <1>9. Untitled(tail)
    <2>1. \A i \in DOMAIN tail : tail[i].k # "header1"
      BY <1>6, <1>8, KindFacts
    <2> QED
      BY <1>8, <2>1 DEF Untitled, W, doc
  <1>10. tail \in Seq(Toks(Here))
    <2>1. Toks(W) \subseteq Toks(Here)
      BY <1>3, TokensGrow
    <2> QED
      BY <1>8, <2>1, SeqMonotonic
  <1>11. queue \in Seq(Toks(Here)) /\ queue # <<>> /\ Head(queue) = t /\ Tail(queue) = tail
         /\ Len(queue) = Len(tail) + 1 /\ queue[1] = t /\ \A i \in 1 .. Len(tail) : queue[i + 1] = tail[i]
    BY <1>1, <1>3, <1>10, ConsFacts
  <1>12. \A i \in 1 .. Len(queue) : i = 1 \/ i - 1 \in 1 .. Len(tail)
    BY <1>10, <1>11
  <1>13. \A i \in 1 .. Len(queue) : queue[i].k \in LineKinds \cup {"header1"}
    <2>1. SUFFICES ASSUME NEW i \in 1 .. Len(queue) PROVE queue[i].k \in LineKinds \cup {"header1"}
      OBVIOUS
    <2>2. CASE i = 1
      BY <1>5, <1>11, <2>2
    <2>3. CASE i - 1 \in 1 .. Len(tail)
      <3>1. queue[(i - 1) + 1] = tail[i - 1] /\ (i - 1) + 1 = i
        BY <1>11, <2>3
      <3>2. queue[i] = tail[i - 1]
        BY <3>1
      <3> QED
        BY <1>6, <2>3, <3>2
    <2> QED
      BY <1>12, <2>2, <2>3
  <1> QED
    BY <1>1, <1>3, <1>9, <1>11, <1>13 DEF t, tail, doc

LEMMA InitHolds == ASSUME Init PROVE IInv
  <1> DEFINE t == FirstLine(input.doc[1])
             W == Within(input.doc)
  <1>1. /\ input \in Inputs /\ queue = <<t>> \o Tail(input.doc) /\ t \in Toks(Here)
        /\ queue \in Seq(Toks(Here)) /\ queue # <<>> /\ Head(queue) = t /\ Tail(queue) = Tail(input.doc)
        /\ Untitled(Tail(queue))
        /\ \A i \in 1 .. Len(queue) : queue[i].k \in LineKinds \cup {"header1"}
    BY FirstQueue
  <1>2. rend = NewRend(input.mode) /\ subs = <<>> /\ calls = <<>> /\ loop = NoLoop /\ done = FALSE
    BY DEF Init
  <1>3. input.mode \in Modes
    BY <1>1, WikitextAssumption
  <1>4. /\ rend \in Rends /\ rend.stack = <<>> /\ rend.styles = <<>> /\ rend.res = <<>> /\ rend.barrier = <<>>
        /\ rend.lits = <<>> /\ rend.err = ""
    BY <1>2, <1>3, NewRendType
  <1>5. loop \in Loops /\ ~loop.on /\ loop.out = <<>>
    BY <1>2, NoLoopFacts
  <1>6. TypeOK
    <2>1. calls \in Seq(CallToks(Here))
      BY <1>2, NoneFacts
    <2>2. DOMAIN rend.lits = {}
      BY <1>4, NoneFacts
    <2>3. done \in BOOLEAN
      BY <1>2
    <2> QED
      BY <1>1, <1>2, <1>4, <1>5, <2>1, <2>2, <2>3 DEF TypeOK
  <1>7. StackOK
    <2>1. \A i \in 1 .. Len(queue) : Mark(queue[i])[1] = "t"
      <3>1. \A k \in LineKinds \cup {"header1"} :
              k \notin {"begin", "end", "title", "text", "ltext", "ptext", "iquote", "{{", "[["}
        BY KindFacts
      <3>2. SUFFICES ASSUME NEW i \in 1 .. Len(queue) PROVE Mark(queue[i])[1] = "t"
        OBVIOUS
      <3>3. queue[i].k \notin {"begin", "end", "title", "text", "ltext", "ptext", "iquote", "{{", "[["}
        BY <1>1, <3>1
      <3> QED
        BY <3>3 DEF Mark
    <2>2. queue \in Seq(Tokens(Here)) /\ rend.stack \in Stacks
      BY <1>6, HereFacts
    <2>3. \A i \in 1 .. Len(queue) : Idle(Mark(queue[i]), rend.stack)
      BY <2>1 DEF Idle
    <2>4. Goes(rend.stack, queue, rend.stack)
      BY <2>2, <2>3, GoesIdle
    <2>5. calls \o queue = queue
      BY <1>2, <2>2, NoneJoin
    <2> QED
      BY <1>4, <1>5, <2>4, <2>5 DEF StackOK, Goes
  <1>8. HeaderOK
    <2>1. Untitled(<<>>)
      BY NoneFacts DEF Untitled
    <2>2. CASE input.doc[1].k = "quote"
      BY <2>2 DEF HeaderOK
    <2>3. CASE t \in Toks(W) /\ t.k # "header1"
      <3>1. Untitled(queue)
        <4>1. t \in Toks(Within(input.doc)) /\ t.k # "header1"
          BY <2>3
        <4>2. queue = <<t>> \o Tail(queue)
          BY <1>1
        <4> HIDE DEF t, W
        <4>3. Untitled(<<t>> \o Tail(queue))
          BY <1>1, <4>1, UntitledCons
        <4> QED
          BY <4>2, <4>3
      <3> QED
        BY <1>5, <2>1, <3>1 DEF HeaderOK
    <2>4. CASE t.k \in {"header1", "indented"}
      BY <1>1, <1>2, <1>4, <1>5, <2>4 DEF HeaderOK
    <2> HIDE DEF t, W
    <2> QED
      BY <1>1, <2>2, <2>3, <2>4, TitledFacts DEF t, W
  <1>9. CallsOK
    <2>1. DOMAIN calls = {}
      BY <1>2, NoneFacts
    <2> QED
      BY <2>1 DEF CallsOK
  <1>d. DepthOK
    <2>1. DOMAIN calls = {}
      BY <1>2, NoneFacts
    <2> QED
      BY <2>1 DEF DepthOK
  <1>s. SubsOK
    BY <1>2, NoneFacts DEF SubsOK
  <1>10. StylesOK
    <2>1. ~Pending("endstyle") /\ ~Pending("endlink")
      BY <1>2, NoneFacts DEF Pending
    <2>2. Len(rend.barrier) = 0 /\ DOMAIN rend.styles = {} /\ ~Contains(rend.styles, "big")
      BY <1>4, NoneFacts, ContainsNone
    <2> QED
      BY <2>1, <2>2 DEF StylesOK, StylesHold
  <1>11. FailsAsKnown
    BY <1>4 DEF FailsAsKnown
  <1> QED
    BY <1>d, <1>s, <1>6, <1>7, <1>8, <1>9, <1>10, <1>11 DEF IInv

\* Whatever a handler pushes back and calls for, the elements that are open and
\* those that are yet to begin are ended in their order; and on a page that
\* substitutes nothing, handle_text() is but so deep in itself, and the style that
\* a macro has started is open where the macro ends it.
THEOREM Inductive == Spec => []IInv
  BY InitHolds, NextKeeps, PTL DEF Spec

\* The queue holds tokens that handlers are made for, and the calls are such
\* as the code makes.
THEOREM TypeCorrect == Spec => []TypeOK
  <1>1. IInv => TypeOK
    BY DEF IInv
  <1> QED
    BY <1>1, Inductive, PTL

\* handle_end() never ends another element than the one that was begun last
\* ("Programming error"), on any page, and nothing else fails but a title in a
\* quote, a literal that is taken back and, on a page that substitutes, what a
\* substitution puts where it does not belong: nothing at all in a header that is
\* empty, a text in itself, a list in a style.
THEOREM FailsKnown == Spec => []FailsAsKnown
  <1>1. IInv => FailsAsKnown
    BY DEF IInv
  <1> QED
    BY <1>1, Inductive, PTL

=============================================================================
