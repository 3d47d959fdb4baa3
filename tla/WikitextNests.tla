---------------------------- MODULE WikitextNests ----------------------------
(***************************************************************************)
(* Proofs that what the renderer of wikitext writes nests: the title, each *)
(* block, and so what any view takes of the page.                          *)
(***************************************************************************)
EXTENDS WikitextProofs

-----------------------------------------------------------------------------
(* Walks over what is written.                                             *)

LEMMA HtmlMarks == Html \subseteq Marks_ /\ Seq(Html) \subseteq Seq(Marks_)
  <1>1. Html \subseteq Marks_
    BY DEF Html, Marks_
  <1> QED
    BY <1>1, SeqMonotonic

LEMMA WalkOn ==
  ASSUME NEW h \in Seq(Html), NEW x \in Html, NEW a, NEW b, NEW c \in Stacks, Walk(a, h, b), Step(b, x, c)
  PROVE  Walk(a, Append(h, x), c) /\ Append(h, x) \in Seq(Html)
  <1>1. h \in Seq(Marks_) /\ x \in Marks_ /\ <<x>> \in Seq(Marks_)
    BY HtmlMarks
  <1>2. b \in Stacks
    BY <1>1, WalkStacks
  <1>3. Walk(b, <<x>>, c)
    BY <1>1, <1>2, WalkOne
  <1>4. Walk(a, h \o <<x>>, c)
    BY <1>1, <1>3, WalkJoin
  <1>5. Append(h, x) = h \o <<x>>
    BY AppendIsConcat
  <1> QED
    BY <1>4, <1>5

LEMMA SaysWalk ==
  ASSUME NEW s \in Seq(Strings), NEW a \in Stacks
  PROVE  Walk(a, Says(s), a)
  <1>1. Says(s) \in Seq(Html) /\ Says(s) \in Seq(Marks_) /\ Len(Says(s)) = Len(s)
        /\ \A i \in 1 .. Len(s) : Says(s)[i] = <<"t", s[i]>>
    BY SaysFacts, HtmlMarks
  <1>2. \A i \in 1 .. Len(Says(s)) : Idle(Says(s)[i], a)
    BY <1>1 DEF Idle
  <1> QED
    BY <1>1, <1>2, WalkIdle

LEMMA RestCons ==
  ASSUME NEW S, NEW s \in Seq(S), NEW i \in 1 .. Len(s)
  PROVE  Rest(s, i - 1) = <<s[i]>> \o Rest(s, i) /\ Rest(s, i - 1) \in Seq(S) /\ Rest(s, i) \in Seq(S) /\ s[i] \in S
  <1>1. Len(s) \in Nat /\ i \in 0 .. Len(s) /\ i - 1 \in 0 .. Len(s) /\ s[i] \in S
    OBVIOUS
  <1> DEFINE e == s[i]
             p == Rest(s, i - 1)
             q == Rest(s, i)
             r == <<e>> \o q
  <1>2. p \in Seq(S) /\ Len(p) = Len(s) - (i - 1) /\ \A k \in 1 .. Len(s) - (i - 1) : p[k] = s[(i - 1) + k]
    <2> DEFINE m == i - 1
    <2>1. m \in 0 .. Len(s)
      BY <1>1
    <2> HIDE DEF m
    <2>2. Rest(s, m) \in Seq(S) /\ Len(Rest(s, m)) = Len(s) - m /\ \A k \in 1 .. Len(s) - m : Rest(s, m)[k] = s[m + k]
      BY <2>1, RestFacts
    <2> QED
      BY <2>2, Zenon DEF m
  <1>3. q \in Seq(S) /\ Len(q) = Len(s) - i /\ \A k \in 1 .. Len(s) - i : q[k] = s[i + k]
    BY <1>1, RestFacts
  <1>0. e \in S /\ e = s[i]
    BY <1>1
  <1> HIDE DEF e, p, q
  <1>4. r \in Seq(S) /\ Len(r) = Len(q) + 1 /\ r[1] = e /\ \A k \in 1 .. Len(q) : r[k + 1] = q[k]
    <2>1. e \in S /\ q \in Seq(S)
      BY <1>0, <1>3
    <2> QED
      BY <2>1, ConsFacts
  <1> HIDE DEF r
  <1>5. Len(p) = Len(r)
    BY <1>1, <1>2, <1>3, <1>4
  <1>6. ASSUME NEW k \in 1 .. Len(p) PROVE p[k] = r[k]
    <2>1. p[k] = s[(i - 1) + k]
      BY <1>1, <1>2
    <2>2. CASE k = 1
      BY <1>0, <1>1, <1>4, <2>1, <2>2
    <2>3. CASE k # 1
      <3>1. k - 1 \in 1 .. Len(q) /\ (k - 1) + 1 = k /\ i + (k - 1) = (i - 1) + k /\ k - 1 \in 1 .. Len(s) - i
        BY <1>1, <1>2, <1>3, <2>3
      <3>2. r[k] = q[k - 1]
        BY <1>4, <3>1
      <3>3. q[k - 1] = s[i + (k - 1)]
        BY <1>3, <3>1
      <3> QED
        BY <2>1, <3>1, <3>2, <3>3
    <2> QED
      BY <2>2, <2>3
  <1>7. p = r
    BY <1>2, <1>4, <1>5, <1>6, SeqEqual
  <1> QED
    BY <1>0, <1>1, <1>2, <1>3, <1>7 DEF e, p, q, r

LEMMA RestZero ==
  ASSUME NEW S, NEW s \in Seq(S)
  PROVE  Rest(s, 0) = s
  <1>1. 0 \in 0 .. Len(s) /\ Len(s) \in Nat
    OBVIOUS
  <1> DEFINE p == Rest(s, 0)
  <1>2. p \in Seq(S) /\ Len(p) = Len(s) - 0 /\ \A i \in 1 .. Len(s) - 0 : p[i] = s[0 + i]
    BY <1>1, RestFacts
  <1> HIDE DEF p
  <1>3. Len(p) = Len(s) /\ \A i \in 1 .. Len(p) : p[i] = s[i]
    BY <1>1, <1>2
  <1>4. p = s
    BY <1>2, <1>3, SeqEqual
  <1> QED
    BY <1>4 DEF p

LEMMA RestAll ==
  ASSUME NEW S, NEW s \in Seq(S)
  PROVE  Rest(s, Len(s)) = <<>>
  <1>1. Len(s) \in 0 .. Len(s) /\ Len(s) \in Nat
    OBVIOUS
  <1>2. Len(Rest(s, Len(s))) = 0 /\ Rest(s, Len(s)) \in Seq(S)
    BY <1>1, RestFacts
  <1> QED
    BY <1>2, EmptySeq

\* Ends come off in their order.
LEMMA EndsWalk ==
  ASSUME NEW u \in Stacks, NEW s \in Stacks
  PROVE  Walk(u \o s, Ends(u), s) /\ Ends(u) \in Seq(Html)
  <1> DEFINE g == [i \in 0 .. Len(u) |-> Rest(u, i) \o s]
             h == Ends(u)
  <1>1. u \in Seq(Strings) /\ s \in Seq(Strings) /\ Len(u) \in Nat
    BY DEF Stacks
  <1>2. h \in Seq(Html) /\ Len(h) = Len(u) /\ h \in Seq(Marks_) /\ \A i \in 1 .. Len(u) : h[i] = <<"-", u[i]>>
    BY <1>1, EndsFacts, HtmlMarks
  <1>3. \A i \in 0 .. Len(u) : g[i] \in Stacks
    <2>1. SUFFICES ASSUME NEW i \in 0 .. Len(u) PROVE Rest(u, i) \o s \in Seq(Strings)
      BY DEF Stacks
    <2>2. Rest(u, i) \in Seq(Strings)
      BY <1>1, RestFacts
    <2> QED
      BY <1>1, <2>2
  <1>4. \A i \in 1 .. Len(u) : Step(g[i - 1], h[i], g[i])
    <2>1. SUFFICES ASSUME NEW i \in 1 .. Len(u) PROVE Step(g[i - 1], h[i], g[i])
      OBVIOUS
    <2>2. Rest(u, i - 1) = <<u[i]>> \o Rest(u, i) /\ Rest(u, i) \in Seq(Strings) /\ u[i] \in Strings
      BY <1>1, RestCons
    <2>3. i \in 0 .. Len(u) /\ i - 1 \in 0 .. Len(u)
      OBVIOUS
    <2>4. g[i] = Rest(u, i) \o s /\ g[i - 1] = Rest(u, i - 1) \o s /\ g[i] \in Stacks
      BY <1>3, <2>3
    <2> DEFINE r == Rest(u, i)
    <2>5. g[i - 1] = (<<u[i]>> \o r) \o s /\ g[i] = r \o s /\ r \in Seq(Strings)
      BY <2>2, <2>4
    <2> HIDE DEF g, r, h
    <2>6. (<<u[i]>> \o r) \o s = <<u[i]>> \o (r \o s)
      BY <1>1, <2>2, <2>5
    <2>7. g[i - 1] = <<u[i]>> \o g[i]
      BY <2>5, <2>6
    <2> QED
      BY <1>2, <2>2, <2>4, <2>7, StepEnd
  <1>5. g \in [0 .. Len(h) -> Stacks]
    BY <1>2, <1>3
  <1>6. g[0] = u \o s /\ g[Len(h)] = s
    <2>1. Rest(u, 0) = u
      BY <1>1, RestZero
    <2>2. Rest(u, Len(u)) = <<>>
      BY <1>1, RestAll
    <2>3. <<>> \o s = s
      BY <1>1, NoneJoin
    <2>4. 0 \in 0 .. Len(u) /\ Len(u) \in 0 .. Len(u)
      BY <1>1
    <2> QED
      BY <1>2, <2>1, <2>2, <2>3, <2>4
  <1> HIDE DEF g, h
  <1>7. Walk(g[0], h, g[Len(h)])
    BY <1>2, <1>4, <1>5, WalkBy
  <1> QED
    BY <1>2, <1>6, <1>7 DEF h

\* All but the last of a sequence.
Upper(s) == SubSeq(s, 1, Len(s) - 1)
LEMMA UpperFacts ==
  ASSUME NEW a \in Stacks, NEW x \in Strings
  PROVE  Upper(a \o <<x>>) = a /\ a \o <<x>> \in Stacks /\ (a \o <<x>>)[Len(a) + 1] = x
         /\ Len(a \o <<x>>) = Len(a) + 1 /\ \A i \in 1 .. Len(a) : (a \o <<x>>)[i] = a[i]
  <1> DEFINE p == <<x>>
             s == a \o p
             u == SubSeq(s, 1, Len(a))
  <1>1. a \in Seq(Strings) /\ p \in Seq(Strings) /\ Len(p) = 1 /\ p[1] = x /\ Len(a) \in Nat
    BY OneOf DEF Stacks
  <1> HIDE DEF p
  <1>2. s \in Seq(Strings) /\ Len(s) = Len(a) + 1 /\ (\A i \in 1 .. Len(a) : s[i] = a[i]) /\ s[Len(a) + 1] = p[1]
    <2>1. s \in Seq(Strings) /\ Len(s) = Len(a) + Len(p) /\ (\A i \in 1 .. Len(a) : s[i] = a[i])
          /\ \A i \in 1 .. Len(p) : s[Len(a) + i] = p[i]
      <3>1. a \in Seq(Strings) /\ p \in Seq(Strings)
        BY <1>1
      <3> QED
        BY <3>1, JoinFacts
    <2> QED
      BY <1>1, <2>1
  <1> HIDE DEF s
  <1>3. Len(a) \in 0 .. Len(s)
    BY <1>1, <1>2
  <1>4. u \in Seq(Strings) /\ Len(u) = Len(a) /\ \A i \in 1 .. Len(a) : u[i] = s[i]
    BY <1>2, <1>3, RestFacts
  <1> HIDE DEF u
  <1>5. u = a
    BY <1>1, <1>2, <1>4, SeqEqual
  <1>6. Len(s) - 1 = Len(a)
    BY <1>1, <1>2
  <1>7. Upper(s) = a
    BY <1>5, <1>6 DEF Upper, u
  <1> QED
    BY <1>1, <1>2, <1>7 DEF s, p, Stacks

\* What is above an element that no tag names.
Clear(a, x) == \A i \in 1 .. Len(a) : a[i] # x
Above(b, x) == b \in Stacks /\ Upper(b) \in Stacks /\ b = Upper(b) \o <<x>> /\ Clear(Upper(b), x)
LEMMA AboveIs ==
  ASSUME NEW a \in Stacks, NEW x \in Strings, Clear(a, x), NEW b, b = a \o <<x>>
  PROVE  Above(b, x) /\ Upper(b) = a
  BY UpperFacts DEF Above

LEMMA StepAbove ==
  ASSUME NEW a \in Stacks, NEW x \in Strings, Clear(a, x), NEW b, NEW y \in Html,
         Step(a \o <<x>>, y, b), y[1] # "t" => y[2] # x
  PROVE  Above(b, x) /\ Step(a, y, Upper(b))
  <1> DEFINE s == a \o <<x>>
  <1>1. /\ s \in Stacks /\ Len(s) = Len(a) + 1 /\ Len(a) \in Nat /\ s[Len(a) + 1] = x
        /\ \A i \in 1 .. Len(a) : s[i] = a[i]
    BY UpperFacts DEF Stacks
  <1>2. a \in Seq(Strings) /\ <<x>> \in Seq(Strings) /\ y[1] \in {"+", "-", "t"} /\ y[2] \in Strings
        /\ s \in Seq(Strings) /\ DOMAIN s = 1 .. Len(s) /\ DOMAIN a = 1 .. Len(a)
    BY <1>1, OneOf, DomainFacts DEF Stacks, Html
  <1>3. CASE y[1] = "+"
    <2> DEFINE e == y[2]
               c == <<e>> \o a
    <2>1. b = <<e>> \o s /\ (e \in Single => \A i \in DOMAIN s : s[i] # e) /\ e # x /\ e \in Strings
      BY <1>2, <1>3 DEF Step
    <2>2. e \in Single => \A i \in DOMAIN a : a[i] # e
      BY <1>1, <1>2, <2>1
    <2> HIDE DEF e
    <2>3. c \in Seq(Strings) /\ Len(c) = Len(a) + 1 /\ c[1] = e /\ \A k \in 1 .. Len(a) : c[k + 1] = a[k]
      BY <1>2, <2>1, ConsFacts
    <2>4. <<e>> \o (a \o <<x>>) = c \o <<x>>
      <3>1. <<e>> \in Seq(Strings)
        BY <2>1, OneOf
      <3> QED
        BY <1>2, <3>1
    <2>5. Step(a, y, c)
      BY <1>3, <2>2 DEF Step, e
    <2> HIDE DEF c
    <2>6. Clear(c, x)
      <3>1. SUFFICES ASSUME NEW i \in 1 .. Len(c) PROVE c[i] # x
        BY DEF Clear
      <3>2. CASE i = 1
        BY <2>1, <2>3, <3>2
      <3>3. CASE i # 1
        <4>1. i - 1 \in 1 .. Len(a) /\ (i - 1) + 1 = i
          BY <1>1, <2>3, <3>3
        <4> QED
          BY <2>3, <4>1 DEF Clear
      <3> QED
        BY <3>2, <3>3
    <2>7. c \in Stacks /\ b = c \o <<x>>
      BY <2>1, <2>3, <2>4 DEF Stacks
    <2> QED
      BY <2>5, <2>6, <2>7, AboveIs
  <1>4. CASE y[1] = "-"
    <2>1. s # <<>> /\ Head(s) = y[2] /\ b = Tail(s) /\ y[2] # x
      BY <1>2, <1>4 DEF Step
    <2>2. a # <<>>
      <3> SUFFICES ASSUME a = <<>> PROVE FALSE
        OBVIOUS
      <3>1. s = <<x>>
        BY <1>2, NoneJoin
      <3>2. Head(s) = x
        BY <3>1
      <3> QED
        BY <2>1, <3>2
    <2>3. a = <<Head(a)>> \o Tail(a) /\ Head(a) \in Strings /\ Tail(a) \in Seq(Strings) /\ <<Head(a)>> \in Seq(Strings)
      BY <1>2, <2>2, HeadAndTail
    <2> DEFINE e == Head(a)
               c == Tail(a)
    <2>4. e \in Strings /\ c \in Seq(Strings) /\ <<e>> \in Seq(Strings) /\ a = <<e>> \o c
      BY <2>3
    <2>5. \A i \in 1 .. Len(c) : c[i] = a[i + 1] /\ i + 1 \in 1 .. Len(a)
      BY <1>2, <2>2, TailFacts
    <2>8. c = Tail(a) /\ e = Head(a)
      OBVIOUS
    <2> HIDE DEF e, c
    <2> DEFINE d == c \o <<x>>
    <2>6. (<<e>> \o c) \o <<x>> = <<e>> \o d /\ d \in Seq(Strings)
      BY <1>2, <2>4, JoinFacts
    <2>7. s = <<e>> \o d
      BY <2>4, <2>6
    <2> HIDE DEF d
    <2>9. Head(s) = e /\ Tail(s) = d
      BY <2>4, <2>6, <2>7, ConsFacts
    <2>10. Clear(c, x)
      BY <2>5 DEF Clear
    <2>11. b = c \o <<x>> /\ c \in Stacks
      BY <2>1, <2>4, <2>9 DEF d, Stacks
    <2>12. Step(a, y, c)
      BY <1>4, <2>1, <2>2, <2>8, <2>9 DEF Step
    <2> QED
      BY <2>10, <2>11, <2>12, AboveIs
  <1>5. CASE y[1] = "t"
    <2>1. b = s
      BY <1>5 DEF Step
    <2>2. Step(a, y, a)
      BY <1>5 DEF Step
    <2> QED
      BY <2>1, <2>2, AboveIs
  <1> QED
    BY <1>2, <1>3, <1>4, <1>5

-----------------------------------------------------------------------------
(* What each operation of the renderer writes.                             *)

LEMMA WalkAbove ==
  ASSUME NEW a \in Stacks, NEW x \in Strings, Clear(a, x), NEW t \in Seq(Html), NEW b, Walk(a \o <<x>>, t, b),
         \A i \in 1 .. Len(t) : t[i][1] # "t" => t[i][2] # x
  PROVE  Above(b, x) /\ Walk(a, t, Upper(b))
  <1> DEFINE s == a \o <<x>>
             n == Len(t)
  <1>1. t \in Seq(Marks_) /\ n \in Nat /\ \A i \in 1 .. n : t[i] \in Html
    BY HtmlMarks
  <1>4. Above(s, x) /\ Upper(s) = a
    BY AboveIs
  <1>2. PICK f \in Trails(s, t, b) : TRUE
    BY DEF Walk
  <1> HIDE DEF s, n
  <1>3. f[0] = s /\ f[n] = b /\ \A i \in 1 .. n : Step(f[i - 1], t[i], f[i])
    <2>1. t \in Seq(Marks_)
      BY <1>1
    <2>2. f[0] = s /\ f[Len(t)] = b /\ \A i \in 1 .. Len(t) : Step(f[i - 1], t[i], f[i])
      BY <1>2 DEF Trails
    <2> QED
      BY <2>2 DEF n
  <1> DEFINE P == {i \in Nat : i <= n => Above(f[i], x) /\ (i # 0 => Step(Upper(f[i - 1]), t[i], Upper(f[i])))}
  <1>5. 0 \in P
    BY <1>3, <1>4
  <1>6. ASSUME NEW i \in Nat, i \in P PROVE i + 1 \in P
    <2>1. SUFFICES ASSUME i + 1 <= n
                   PROVE  Above(f[i + 1], x) /\ Step(Upper(f[(i + 1) - 1]), t[i + 1], Upper(f[i + 1]))
      OBVIOUS
    <2>2. i <= n /\ i + 1 \in 1 .. n /\ (i + 1) - 1 = i
      BY <1>1, <2>1
    <2>3. Above(f[i], x)
      BY <1>6, <2>2
    <2>4. Step(f[i], t[i + 1], f[i + 1]) /\ t[i + 1] \in Html
      BY <1>1, <1>3, <2>2
    <2>5. t[i + 1][1] # "t" => t[i + 1][2] # x
      BY <2>2 DEF n
    <2> DEFINE u == Upper(f[i])
               y == t[i + 1]
               c == f[i + 1]
    <2>6. u \in Stacks /\ Clear(u, x) /\ Step(u \o <<x>>, y, c) /\ y \in Html /\ (y[1] # "t" => y[2] # x)
      BY <2>3, <2>4, <2>5 DEF Above
    <2> HIDE DEF u, y, c
    <2>7. Above(c, x) /\ Step(u, y, Upper(c))
      BY <2>6, StepAbove
    <2> QED
      BY <2>2, <2>7 DEF u, y, c
  <1>7. Nat \subseteq P
    <2> HIDE DEF P
    <2> QED
      BY <1>5, <1>6, SetInduction
  <1>8. ASSUME NEW i \in 0 .. n PROVE Above(f[i], x)
    BY <1>1, <1>7
  <1>9. ASSUME NEW i \in 1 .. n PROVE Step(Upper(f[i - 1]), t[i], Upper(f[i]))
    BY <1>1, <1>7
  <1> HIDE DEF P
  <1> DEFINE g == [i \in 0 .. n |-> Upper(f[i])]
  <1>10. g \in [0 .. n -> Stacks]
    BY <1>8 DEF Above
  <1>11. ASSUME NEW i \in 1 .. n PROVE Step(g[i - 1], t[i], g[i])
    <2>1. i - 1 \in 0 .. n /\ i \in 0 .. n
      BY <1>1
    <2> QED
      BY <1>9, <2>1
  <1>12. g[0] = a /\ g[n] = Upper(b)
    BY <1>1, <1>3, <1>4
  <1> HIDE DEF g
  <1>13. Walk(g[0], t, g[n])
    BY <1>1, <1>10, <1>11, WalkBy DEF n
  <1>14. Above(b, x)
    BY <1>1, <1>3, <1>8
  <1> QED
    BY <1>12, <1>13, <1>14

LEMMA HeadedWalk ==
  ASSUME NEW h \in Seq(Html), Headed(h), NEW b, Walk(<<>>, h, b)
  PROVE  Above(b, "h") /\ Walk(<<>>, Rest(h, 1), Upper(b)) /\ Rest(h, 1) \in Seq(Html)
  <1> DEFINE y == Head(h)
             t == Tail(h)
  <1>1. h # <<>> /\ h[1] = <<"+", "h">>
    BY DEF Headed
  <1>2. h = <<y>> \o t /\ y \in Html /\ t \in Seq(Html) /\ y = <<"+", "h">> /\ <<y>> \in Seq(Html)
    BY <1>1, HeadAndTail
  <1>3. \A i \in 1 .. Len(t) : i + 1 \in 2 .. Len(h) /\ t[i] = h[i + 1]
    BY <1>1, TailFacts
  <1>4. \A i \in 1 .. Len(t) : t[i][1] # "t" => t[i][2] # "h"
    BY <1>3 DEF Headed
  <1>5. Rest(h, 1) = t
    BY <1>1, RestOne
  <1> HIDE DEF y, t
  <1>6. <<y>> \in Seq(Marks_) /\ t \in Seq(Marks_) /\ y \in Marks_ /\ Walk(<<>>, <<y>> \o t, b)
    BY <1>2, HtmlMarks
  <1>7. PICK c \in Stacks : Walk(<<>>, <<y>>, c) /\ Walk(c, t, b)
    BY <1>6, WalkParts
  <1>8. <<>> \in Stacks /\ "h" \in Strings /\ "h" \notin Single
    BY NoneFacts, Plainly DEF Stacks, Elements, Single
  <1>9. Step(<<>>, y, c)
    BY <1>6, <1>7, <1>8, WalkOne
  <1>10. c = <<"h">> \o <<>>
    BY <1>2, <1>9 DEF Step
  <1>11. <<"h">> \in Seq(Strings)
    BY <1>8, OneOf
  <1>12. c = <<>> \o <<"h">>
    BY <1>10, <1>11, NoneJoin
  <1>13. Clear(<<>>, "h")
    BY LenNone DEF Clear
  <1>14. Above(b, "h") /\ Walk(<<>>, t, Upper(b))
    BY <1>2, <1>4, <1>7, <1>8, <1>12, <1>13, WalkAbove
  <1> QED
    BY <1>2, <1>5, <1>14

LEMMA HeadedOn ==
  ASSUME NEW h \in Seq(Html), Headed(h), NEW y \in Html, y[1] # "t" => y[2] # "h"
  PROVE  Headed(Append(h, y))
  <1> DEFINE g == Append(h, y)
  <1>1. Len(h) \in Nat /\ Len(h) # 0 /\ Len(g) = Len(h) + 1 /\ g[Len(h) + 1] = y
        /\ \A i \in 1 .. Len(h) : g[i] = h[i]
    BY DEF Headed
  <1> HIDE DEF g
  <1>2. g # <<>>
    <2>1. Len(g) # 0
      BY <1>1
    <2> QED
      BY <2>1, LenNone
  <1>3. g[1] = h[1]
    BY <1>1
  <1>4. ASSUME NEW i \in 2 .. Len(g) PROVE g[i][1] # "t" => g[i][2] # "h"
    <2>1. CASE i = Len(h) + 1
      BY <1>1, <2>1
    <2>2. CASE i # Len(h) + 1
      <3>1. i \in 2 .. Len(h) /\ i \in 1 .. Len(h)
        BY <1>1, <2>2
      <3>2. g[i] = h[i]
        BY <1>1, <3>1
      <3> QED
        BY <3>1, <3>2 DEF Headed
    <2> QED
      BY <2>1, <2>2
  <1> QED
    BY <1>2, <1>3, <1>4 DEF Headed, g

LEMMA HeadedJoin ==
  ASSUME NEW h \in Seq(Html), Headed(h), NEW g \in Seq(Html), \A i \in 1 .. Len(g) : g[i][1] # "t" => g[i][2] # "h"
  PROVE  Headed(h \o g)
  <1> DEFINE j == h \o g
  <1>1. Len(h) \in Nat /\ Len(g) \in Nat /\ Len(h) # 0
    BY DEF Headed
  <1>2. j \in Seq(Html) /\ Len(j) = Len(h) + Len(g) /\ (\A i \in 1 .. Len(h) : j[i] = h[i])
        /\ \A i \in 1 .. Len(g) : j[Len(h) + i] = g[i]
    BY JoinFacts
  <1> HIDE DEF j
  <1>3. j # <<>>
    <2>1. Len(j) # 0
      BY <1>1, <1>2
    <2> QED
      BY <2>1, LenNone
  <1>4. j[1] = h[1]
    BY <1>1, <1>2
  <1>5. ASSUME NEW i \in 2 .. Len(j) PROVE j[i][1] # "t" => j[i][2] # "h"
    <2>1. CASE i <= Len(h)
      <3>1. i \in 2 .. Len(h) /\ i \in 1 .. Len(h)
        BY <1>1, <2>1
      <3>2. j[i] = h[i]
        BY <1>2, <3>1
      <3> QED
        BY <3>1, <3>2 DEF Headed
    <2>2. CASE ~(i <= Len(h))
      <3>1. i - Len(h) \in 1 .. Len(g) /\ Len(h) + (i - Len(h)) = i
        BY <1>1, <1>2, <2>2
      <3>2. j[i] = g[i - Len(h)]
        BY <1>2, <3>1
      <3> QED
        BY <3>1, <3>2
    <2> QED
      BY <2>1, <2>2
  <1> QED
    BY <1>3, <1>4, <1>5 DEF Headed, j

LEMMA RestOfJoin ==
  ASSUME NEW S, NEW p \in Seq(S), NEW v \in Seq(S), NEW n \in 0 .. Len(p)
  PROVE  /\ Rest(p \o v, n) = Rest(p, n) \o v /\ SubSeq(p \o v, 1, n) = SubSeq(p, 1, n)
         /\ Rest(p, n) \in Seq(S) /\ p \o v \in Seq(S) /\ Len(p \o v) = Len(p) + Len(v)
         /\ \A i \in 1 .. Len(p) : (p \o v)[i] = p[i]
  <1> DEFINE s == p \o v
             q == Rest(p, n)
             t == q \o v
             w == Rest(s, n)
             a == SubSeq(s, 1, n)
             b == SubSeq(p, 1, n)
  <1>1. s \in Seq(S) /\ Len(s) = Len(p) + Len(v) /\ (\A i \in 1 .. Len(p) : s[i] = p[i])
        /\ \A i \in 1 .. Len(v) : s[Len(p) + i] = v[i]
    BY JoinFacts
  <1>2. Len(p) \in Nat /\ Len(v) \in Nat /\ n \in Nat /\ n <= Len(p)
    OBVIOUS
  <1>3. q \in Seq(S) /\ Len(q) = Len(p) - n /\ (\A i \in 1 .. Len(p) - n : q[i] = p[n + i])
        /\ b \in Seq(S) /\ Len(b) = n /\ \A i \in 1 .. n : b[i] = p[i]
    BY RestFacts
  <1> HIDE DEF q, s, b
  <1>4. t \in Seq(S) /\ Len(t) = Len(q) + Len(v) /\ (\A i \in 1 .. Len(q) : t[i] = q[i])
        /\ \A i \in 1 .. Len(v) : t[Len(q) + i] = v[i]
    <2>1. q \in Seq(S) /\ v \in Seq(S)
      BY <1>3
    <2> QED
      BY <2>1, JoinFacts
  <1>5. n \in 0 .. Len(s)
    BY <1>1, <1>2
  <1>6. w \in Seq(S) /\ Len(w) = Len(s) - n /\ (\A i \in 1 .. Len(s) - n : w[i] = s[n + i])
        /\ a \in Seq(S) /\ Len(a) = n /\ \A i \in 1 .. n : a[i] = s[i]
    <2>1. s \in Seq(S)
      BY <1>1
    <2> QED
      BY <1>5, <2>1, RestFacts
  <1> HIDE DEF t, w, a
  <1>7. Len(w) = Len(t)
    BY <1>1, <1>2, <1>3, <1>4, <1>6
  <1>8. ASSUME NEW i \in 1 .. Len(w) PROVE w[i] = t[i]
    <2>1. w[i] = s[n + i]
      BY <1>6
    <2>2. CASE i <= Len(q)
      <3>1. i \in 1 .. Len(q) /\ i \in 1 .. Len(p) - n /\ n + i \in 1 .. Len(p)
        BY <1>2, <1>3, <2>2
      <3> QED
        BY <1>1, <1>3, <1>4, <2>1, <3>1
    <2>3. CASE ~(i <= Len(q))
      <3>1. i - Len(q) \in 1 .. Len(v) /\ Len(q) + (i - Len(q)) = i /\ Len(p) + (i - Len(q)) = n + i
        BY <1>2, <1>3, <1>4, <1>7, <2>3
      <3>2. t[i] = v[i - Len(q)]
        BY <1>4, <3>1
      <3>3. s[n + i] = v[i - Len(q)]
        BY <1>1, <3>1
      <3> QED
        BY <2>1, <3>2, <3>3
    <2> QED
      BY <2>2, <2>3
  <1>9. w = t
    BY <1>4, <1>6, <1>7, <1>8, SeqEqual
  <1>10. a = b
    <2>1. Len(a) = Len(b)
      BY <1>3, <1>6
    <2>2. ASSUME NEW i \in 1 .. Len(a) PROVE a[i] = b[i]
      <3>1. i \in 1 .. n /\ i \in 1 .. Len(p)
        BY <1>2, <1>6
      <3> QED
        BY <1>1, <1>3, <1>6, <3>1
    <2> QED
      BY <1>3, <1>6, <2>1, <2>2, SeqEqual
  <1> QED
    BY <1>1, <1>3, <1>9, <1>10 DEF w, t, q, s, a, b

LEMMA RestJoin ==
  ASSUME NEW S, NEW p \in Seq(S), NEW v \in Seq(S), NEW n \in 0 .. Len(p)
  PROVE  Rest(p \o v, n) = Rest(p, n) \o v /\ SubSeq(p \o v, 1, n) = SubSeq(p, 1, n)
  BY RestOfJoin

LEMMA TurnedWalk ==
  ASSUME NEW h \in Seq(Html), NEW x \in Fonts, NEW s \in Stacks, Walk(<<>>, h, <<x>> \o s)
  PROVE  /\ Turned(h, x) \in Seq(Html) /\ Walk(<<>>, Turned(h, x), s)
         /\ Headed(h) => Headed(Turned(h, x))
  <1>1. x \in Strings /\ "h" \notin Fonts /\ "h" \in Elements
    BY Plainly DEF Elements, Fonts
  <1>2. CASE x \notin {"em", "strong", "code"}
    <2> DEFINE y == <<"-", x>>
    <2>1. Turned(h, x) = Append(h, y)
      BY <1>2 DEF Turned
    <2>2. y \in Html /\ y[1] = "-" /\ y[2] = x
      BY <1>1 DEF Html
    <2>3. Step(<<x>> \o s, y, s)
      BY <1>1, StepEnd
    <2> HIDE DEF y
    <2>4. <<>> \in Stacks
      BY NoneFacts DEF Stacks
    <2>5. Walk(<<>>, Append(h, y), s) /\ Append(h, y) \in Seq(Html)
      <3> DEFINE b == <<x>> \o s
      <3>1. Walk(<<>>, h, b) /\ Step(b, y, s)
        BY <2>3
      <3> HIDE DEF b
      <3> QED
        BY <2>2, <2>4, <3>1, WalkOn
    <2>6. Headed(h) => Headed(Append(h, y))
      BY <1>1, <2>2, HeadedOn
    <2> QED
      BY <2>1, <2>5, <2>6
  <1>3. CASE x \in {"em", "strong", "code"}
    <2> DEFINE w == MarkOf(x)
               m == Max(Starts(h, x))
               g == [h EXCEPT ![m] = <<"t", w>>]
    <2>1. w \in Strings /\ x \in Single
      BY <1>3, MarkOfType DEF Single
    <2>2. Starts(h, x) # {} /\ m \in 1 .. Len(h) /\ g \in Seq(Html) /\ Walk(<<>>, g, s)
      BY <2>1, Undone
    <2>3. m \in Starts(h, x)
      <3>1. Starts(h, x) \subseteq Nat /\ Len(h) \in Nat /\ \A i \in Starts(h, x) : i <= Len(h)
        BY DEF Starts
      <3> QED
        BY <2>2, <3>1, MaxFacts
    <2>4. Turned(h, x) = g
      BY <1>3, <2>2 DEF Turned, Starts
    <2>5. ASSUME Headed(h) PROVE Headed(g)
      <3>1. h[m] = <<"+", x>>
        BY <2>3 DEF Starts
      <3>2. m # 1
        BY <1>1, <2>5, <3>1 DEF Headed
      <3>3. Len(g) = Len(h) /\ \A i \in 1 .. Len(h) : i # m => g[i] = h[i]
        OBVIOUS
      <3>4. g[m] = <<"t", w>>
        BY <2>2
      <3> HIDE DEF g, m, w
      <3>5. Len(h) # 0 /\ Len(h) \in Nat /\ 1 \in 1 .. Len(h)
        BY <2>5 DEF Headed
      <3>6. g # <<>>
        <4>1. Len(g) # 0
          BY <3>3, <3>5
        <4> QED
          BY <4>1, LenNone
      <3>7. g[1] = h[1]
        BY <3>2, <3>3, <3>5
      <3>8. ASSUME NEW i \in 2 .. Len(g) PROVE g[i][1] # "t" => g[i][2] # "h"
        <4>1. CASE i = m
          BY <3>4, <4>1
        <4>2. CASE i # m
          <5>1. g[i] = h[i] /\ i \in 2 .. Len(h)
            BY <3>3, <3>5, <4>2
          <5> QED
            BY <2>5, <5>1 DEF Headed
        <4> QED
          BY <4>1, <4>2
      <3> QED
        BY <2>5, <3>6, <3>7, <3>8 DEF Headed
    <2> QED
      BY <2>2, <2>4, <2>5
  <1> QED
    BY <1>2, <1>3

LEMMA StylesStack == Seq(Fonts) \subseteq Stacks /\ Seq(Elements) \subseteq Stacks
  BY Plainly, SeqMonotonic DEF Stacks

LEMMA FourJoin ==
  ASSUME NEW u \in Stacks, NEW l \in Stacks, NEW v \in Stacks, NEW s \in Stacks
  PROVE  /\ u \o l \o v \o s = u \o (l \o (v \o s)) /\ u \o (l \o (v \o s)) \in Stacks
         /\ (u \o v) \o s = u \o (v \o s) /\ v \o s \in Stacks /\ l \o (v \o s) \in Stacks /\ u \o v \in Stacks
  <1>1. u \in Seq(Strings) /\ l \in Seq(Strings) /\ v \in Seq(Strings) /\ s \in Seq(Strings)
    BY DEF Stacks
  <1> DEFINE ul == u \o l
             vs == v \o s
  <1>2. ul \in Seq(Strings) /\ vs \in Seq(Strings)
    BY <1>1, JoinFacts
  <1>3. (ul \o v) \o s = ul \o vs
    BY <1>1, <1>2
  <1>4. (u \o l) \o vs = u \o (l \o vs)
    BY <1>1, <1>2
  <1>5. (u \o v) \o s = u \o (v \o s)
    BY <1>1
  <1>6. u \o v \in Seq(Strings)
    BY <1>1, JoinFacts
  <1> HIDE DEF vs
  <1>7. l \o vs \in Seq(Strings)
    BY <1>1, <1>2, JoinFacts
  <1> DEFINE lvs == l \o vs
  <1> HIDE DEF lvs
  <1>8. lvs \in Seq(Strings)
    BY <1>7 DEF lvs
  <1>9. u \o lvs \in Seq(Strings)
    BY <1>1, <1>8, JoinFacts
  <1> QED
    BY <1>2, <1>3, <1>4, <1>5, <1>6, <1>7, <1>9 DEF Stacks, vs, lvs

LEMMA UnwindWalk ==
  ASSUME NEW r \in Rends, NEW e \in Fonts, Contains(r.styles, e), NEW l \in Stacks, Stands(r, l),
         ~UnwindInline(r, e).leak
  PROVE  /\ Stands(UnwindInline(r, e), l)
         /\ Headed(r.res) => Headed(UnwindInline(r, e).res)
  <1> DEFINE q == UnwindInline(r, e)
             n == First(r, e)
  <1>1. /\ q \in Rends /\ q.styles = Rest(r.styles, n) /\ n \in 1 .. Len(r.styles)
        /\ q.stack = r.stack /\ q.floor = r.floor
        /\ q.leak = (r.leak \/ Len(r.styles) - n < r.floor)
        /\ \E f \in [0 .. n - 1 -> Seq(Html)] :
              /\ f[0] = r.res
              /\ \A i \in 1 .. n - 1 : f[i] = Turned(f[i - 1], r.styles[i])
              /\ q.res = Append(f[n - 1], <<"-", e>>)
    BY UnwindFacts
  <1>2. n \in 1 .. Len(r.styles) /\ r.styles[n] = e
    BY FirstFacts
  <1>3. ~q.leak
    OBVIOUS
  <1> HIDE DEF q, n
  <1>4. PICK f \in [0 .. n - 1 -> Seq(Html)] :
              /\ f[0] = r.res
              /\ \A i \in 1 .. n - 1 : f[i] = Turned(f[i - 1], r.styles[i])
              /\ q.res = Append(f[n - 1], <<"-", e>>)
    BY <1>1
  <1>5. PICK u, v \in Seq(Fonts) : Layered(r, l, u, v)
    BY DEF Stands
  <1>6. r.styles = u \o v /\ Len(v) = r.floor /\ Walk(<<>>, r.res, u \o (l \o (v \o r.stack)))
    BY <1>5 DEF Layered
  <1>7. r.floor \in Nat /\ r.stack \in Stacks /\ u \in Stacks /\ v \in Stacks /\ Len(u) \in Nat /\ Len(v) \in Nat
        /\ u \in Seq(Strings) /\ e \in Strings /\ <<>> \in Stacks
    BY StylesType, StylesStack, Plainly, NoneFacts DEF Stacks
  <1> DEFINE s == l \o (v \o r.stack)
  <1>8. s \in Stacks
    BY <1>7, FourJoin
  <1>9. Len(r.styles) = Len(u) + Len(v)
    <2>1. Len(u \o v) = Len(u) + Len(v)
      BY JoinFacts
    <2> QED
      BY <1>6, <2>1, Zenon
  <1>10. n \in 1 .. Len(u) /\ n \in 0 .. Len(u)
    <2>1. ~(Len(r.styles) - n < r.floor)
      BY <1>1, <1>3, Zenon
    <2>2. Len(r.styles) = Len(u) + Len(v) /\ Len(v) = r.floor /\ n \in 1 .. Len(r.styles)
      BY <1>1, <1>6, <1>9
    <2> QED
      BY <1>7, <2>1, <2>2
  <1>11. Rest(u \o v, n) = Rest(u, n) \o v /\ Rest(u, n) \in Seq(Fonts) /\ \A i \in 1 .. Len(u) : (u \o v)[i] = u[i]
    BY <1>10, RestOfJoin
  <1>12. ASSUME NEW i \in 1 .. Len(u) PROVE r.styles[i] = u[i] /\ u[i] \in Fonts
    BY <1>6, <1>11
  <1>13. f[0] = r.res /\ n - 1 \in Nat /\ \A i \in 0 .. n - 1 : f[i] \in Seq(Html)
    <2>1. n - 1 \in Nat
      BY <1>2
    <2> QED
      BY <1>4, <2>1
  <1> HIDE DEF s
  <1> DEFINE Good(i) == Walk(<<>>, f[i], Rest(u, i) \o s) /\ (Headed(r.res) => Headed(f[i]))
             P == {i \in Nat : i <= n - 1 => Good(i)}
  <1>14. 0 \in P
    <2>1. Rest(u, 0) = u
      BY <1>7, RestZero
    <2>2. Walk(<<>>, f[0], u \o s)
      BY <1>6, <1>13 DEF s
    <2> QED
      BY <1>13, <2>1, <2>2
  <1>15. ASSUME NEW i \in Nat, i \in P PROVE i + 1 \in P
    <2>1. SUFFICES ASSUME i + 1 <= n - 1 PROVE Good(i + 1)
      OBVIOUS
    <2>2. i \in 0 .. n - 1 /\ i + 1 \in 1 .. Len(u) /\ (i + 1) - 1 = i /\ i + 1 \in 1 .. n - 1
      <3>1. i \in Nat /\ n \in Nat /\ Len(u) \in Nat /\ n <= Len(u) /\ i + 1 <= n - 1
        BY <1>7, <1>10, <2>1
      <3> QED
        BY <3>1
    <2>3. Good(i)
      BY <1>15, <2>2
    <2> DEFINE j == i + 1
               x == u[j]
               h == f[i]
               t == Rest(u, j) \o s
    <2>4. Rest(u, j - 1) = <<x>> \o Rest(u, j) /\ Rest(u, j) \in Seq(Strings)
      BY <1>7, <2>2, RestCons
    <2>5. f[j] = Turned(h, x) /\ x \in Fonts /\ h \in Seq(Html)
      <3>1. j \in 1 .. n - 1 /\ j \in 1 .. Len(u) /\ j - 1 = i
        BY <2>2
      <3>2. f[j] = Turned(f[j - 1], r.styles[j])
        BY <1>4, <3>1
      <3> QED
        BY <1>12, <1>13, <2>2, <3>1, <3>2
    <2>6. x \in Strings /\ <<x>> \in Seq(Strings) /\ s \in Seq(Strings)
      BY <1>8, <2>5, Plainly, OneOf DEF Stacks
    <2>7. (<<x>> \o Rest(u, j)) \o s = <<x>> \o t /\ t \in Seq(Strings)
      BY <2>4, <2>6, JoinFacts
    <2>8. Walk(<<>>, h, <<x>> \o t)
      <3>1. Walk(<<>>, h, Rest(u, i) \o s) /\ j - 1 = i
        BY <2>2, <2>3
      <3> QED
        BY <2>4, <2>7, <3>1
    <2>9. Headed(r.res) => Headed(h)
      BY <2>3
    <2>10. t \in Stacks
      BY <2>7 DEF Stacks
    <2> HIDE DEF t, h, x
    <2>11. Walk(<<>>, Turned(h, x), t) /\ (Headed(h) => Headed(Turned(h, x)))
      BY <2>5, <2>8, <2>10, TurnedWalk
    <2> QED
      BY <2>5, <2>9, <2>11 DEF t
  <1>16. Nat \subseteq P
    <2> HIDE DEF P
    <2> QED
      BY <1>14, <1>15, SetInduction
  <1>17. Good(n - 1)
    BY <1>13, <1>16
  <1> HIDE DEF P
  <1> DEFINE h == f[n - 1]
             y == <<"-", e>>
             t == Rest(u, n) \o s
  <1>18. Rest(u, n - 1) = <<e>> \o Rest(u, n) /\ Rest(u, n) \in Seq(Strings)
    <2>1. Rest(u, n - 1) = <<u[n]>> \o Rest(u, n) /\ Rest(u, n) \in Seq(Strings)
      BY <1>7, <1>10, RestCons
    <2>2. u[n] = e
      BY <1>2, <1>10, <1>12
    <2> QED
      BY <2>1, <2>2
  <1>19. (<<e>> \o Rest(u, n)) \o s = <<e>> \o t /\ t \in Seq(Strings) /\ t \in Stacks
    <2>1. <<e>> \in Seq(Strings) /\ s \in Seq(Strings)
      BY <1>7, <1>8, OneOf DEF Stacks
    <2> QED
      BY <1>18, <2>1, JoinFacts DEF Stacks
  <1>20. Walk(<<>>, h, <<e>> \o t) /\ (Headed(r.res) => Headed(h)) /\ h \in Seq(Html)
    <2>1. n - 1 \in 0 .. n - 1
      BY <1>13
    <2> QED
      BY <1>13, <1>17, <1>18, <1>19, <2>1
  <1>21. y \in Html /\ y[1] = "-" /\ y[2] = e /\ e # "h"
    <2>1. "h" \notin Fonts
      BY DEF Fonts
    <2> QED
      BY <1>7, <2>1 DEF Html
  <1>22. q.res = Append(h, y)
    BY <1>4
  <1> HIDE DEF h, y, t, Good
  <1>23. Step(<<e>> \o t, y, t)
    BY <1>7, <1>19, StepEnd DEF y
  <1>24. Walk(<<>>, Append(h, y), t)
    <2> DEFINE b == <<e>> \o t
    <2>1. Walk(<<>>, h, b) /\ Step(b, y, t)
      BY <1>20, <1>23
    <2> HIDE DEF b
    <2> QED
      BY <1>7, <1>19, <1>20, <1>21, <2>1, WalkOn
  <1>25. Headed(r.res) => Headed(q.res)
    BY <1>20, <1>21, <1>22, HeadedOn
  <1>26. Layered(q, l, Rest(u, n), v)
    <2>1. q.styles = Rest(u, n) \o v
      BY <1>1, <1>6, <1>11
    <2>2. Walk(<<>>, q.res, Rest(u, n) \o (l \o (v \o q.stack)))
      BY <1>1, <1>22, <1>24 DEF t, s
    <2> QED
      BY <1>1, <1>6, <2>1, <2>2 DEF Layered
  <1>27. Stands(q, l)
    BY <1>11, <1>26 DEF Stands
  <1> QED
    BY <1>25, <1>27 DEF q

LEMMA ClearJoin ==
  ASSUME NEW a \in Stacks, NEW b \in Stacks, NEW x
  PROVE  Clear(a \o b, x) <=> Clear(a, x) /\ Clear(b, x)
  <1> DEFINE s == a \o b
  <1>1. a \in Seq(Strings) /\ b \in Seq(Strings) /\ Len(a) \in Nat /\ Len(b) \in Nat
    BY DEF Stacks
  <1>2. Len(s) = Len(a) + Len(b) /\ (\A i \in 1 .. Len(a) : s[i] = a[i]) /\ \A i \in 1 .. Len(b) : s[Len(a) + i] = b[i]
    <2>1. a \in Seq(Strings) /\ b \in Seq(Strings)
      BY <1>1
    <2> QED
      BY <2>1, JoinFacts
  <1> HIDE DEF s
  <1>3. ASSUME Clear(a, x), Clear(b, x), NEW i \in 1 .. Len(s) PROVE s[i] # x
    <2>1. CASE i <= Len(a)
      <3>1. i \in 1 .. Len(a)
        BY <1>1, <2>1
      <3> QED
        BY <1>2, <1>3, <3>1 DEF Clear
    <2>2. CASE ~(i <= Len(a))
      <3>1. i - Len(a) \in 1 .. Len(b) /\ Len(a) + (i - Len(a)) = i
        BY <1>1, <1>2, <2>2
      <3>2. s[i] = b[i - Len(a)]
        BY <1>2, <3>1
      <3> QED
        BY <1>3, <3>1, <3>2 DEF Clear
    <2> QED
      BY <2>1, <2>2
  <1>4. ASSUME Clear(s, x), NEW i \in 1 .. Len(a) PROVE a[i] # x
    <2>1. i \in 1 .. Len(s)
      BY <1>1, <1>2
    <2> QED
      BY <1>2, <1>4, <2>1 DEF Clear
  <1>5. ASSUME Clear(s, x), NEW i \in 1 .. Len(b) PROVE b[i] # x
    <2>1. Len(a) + i \in 1 .. Len(s)
      BY <1>1, <1>2
    <2> QED
      BY <1>2, <1>5, <2>1 DEF Clear
  <1> QED
    BY <1>3, <1>4, <1>5 DEF Clear, s

LinkEls == {<<>>, <<"a">>, <<"abbr">>}
LEMMA LinkElFacts ==
  /\ LinkEl \in LinkEls
  /\ \A l \in LinkEls : l \in Stacks /\ \A e \in Fonts \cup Elements : Clear(l, e)
  <1>1. LinkEl \in LinkEls
    BY DEF LinkEl, LinkEls
  <1>2. "a" \in Strings /\ "abbr" \in Strings /\ {"a", "abbr"} \cap (Fonts \cup Elements) = {}
    BY DEF Strings, Fonts, Elements
  <1>3. <<>> \in Stacks /\ \A e : Clear(<<>>, e)
    BY NoneFacts DEF Stacks, Clear
  <1>4. ASSUME NEW w \in {"a", "abbr"} PROVE <<w>> \in Stacks /\ \A e \in Fonts \cup Elements : Clear(<<w>>, e)
    <2>1. <<w>> \in Seq(Strings) /\ Len(<<w>>) = 1 /\ <<w>>[1] = w
      BY <1>2, OneOf
    <2> DEFINE s == <<w>>
    <2> HIDE DEF s
    <2>2. s \in Seq(Strings) /\ Len(s) = 1 /\ s[1] = w
      BY <2>1 DEF s
    <2>3. ASSUME NEW e \in Fonts \cup Elements, NEW i \in 1 .. Len(s) PROVE s[i] # e
      <3>1. i = 1
        BY <2>2
      <3> QED
        BY <1>2, <2>2, <3>1
    <2> QED
      BY <2>2, <2>3 DEF Clear, Stacks, s
  <1> QED
    BY <1>1, <1>3, <1>4 DEF LinkEls

LEMMA ClearStyles ==
  ASSUME NEW u \in Seq(Fonts), NEW v \in Seq(Fonts), NEW e \in Fonts, ~Contains(u \o v, e),
         NEW l \in LinkEls, NEW s \in Seq(Elements)
  PROVE  LET a == u \o (l \o (v \o s))
         IN Clear(a, e) /\ a \in Stacks /\ \A i \in DOMAIN a : a[i] # e
  <1>1. u \in Stacks /\ v \in Stacks /\ s \in Stacks /\ l \in Stacks /\ Clear(l, e)
    BY StylesStack, LinkElFacts
  <1>2. Clear(s, e)
    <2>1. \A i \in 1 .. Len(s) : s[i] \in Elements
      OBVIOUS
    <2> QED
      BY <2>1, Plainly DEF Clear
  <1>3. Clear(u \o v, e)
    BY DEF Clear, Contains
  <1>4. Clear(u, e) /\ Clear(v, e)
    BY <1>1, <1>3, ClearJoin
  <1> DEFINE vs == v \o s
  <1>5. vs \in Stacks /\ Clear(vs, e)
    BY <1>1, <1>2, <1>4, ClearJoin, FourJoin
  <1> HIDE DEF vs
  <1> DEFINE lvs == l \o vs
  <1>6. lvs \in Stacks /\ Clear(lvs, e)
    BY <1>1, <1>5, ClearJoin, FourJoin
  <1> HIDE DEF lvs
  <1> DEFINE a == u \o lvs
  <1>7. a \in Stacks /\ Clear(a, e)
    BY <1>1, <1>4, <1>6, ClearJoin, FourJoin
  <1> HIDE DEF a
  <1>8. a \in Seq(Strings)
    BY <1>7 DEF Stacks
  <1>9. DOMAIN a = 1 .. Len(a)
    BY <1>8, DomainFacts
  <1>10. \A i \in DOMAIN a : a[i] # e
    BY <1>7, <1>9 DEF Clear
  <1> QED
    BY <1>7, <1>10 DEF a, lvs, vs

\* From r to q nothing is lost of what is known about what is written, unless
\* it leaks.
Moves(r, q, l) ==
  /\ q.blocks = r.blocks /\ q.title = r.title /\ q.floor = r.floor /\ q.stack = r.stack
  /\ r.leak => q.leak
  /\ q.leak \/ (Stands(r, l) => Stands(q, l))
  /\ q.leak \/ (Stands(r, l) /\ Headed(r.res) => Headed(q.res))
  /\ q.styles # <<>> => r.styles # <<>> \/ r.stack # <<>>

LEMMA WritesMove ==
  ASSUME NEW r \in Rends, NEW q \in Rends, Alike(q, r), NEW l, NEW h \in Seq(Html), q.res = r.res \o h,
         \A i \in 1 .. Len(h) : h[i][1] = "t"
  PROVE  Moves(r, q, l)
  <1>1. /\ q.styles = r.styles /\ q.stack = r.stack /\ q.floor = r.floor /\ q.blocks = r.blocks
        /\ q.title = r.title /\ q.leak = r.leak
    BY DEF Alike
  <1>2. r.res \in Seq(Html)
    BY StylesType
  <1>3. ASSUME Stands(r, l) PROVE Stands(q, l)
    <2>1. PICK u, v \in Seq(Fonts) : Layered(r, l, u, v)
      BY <1>3 DEF Stands
    <2> DEFINE a == u \o (l \o (v \o r.stack))
    <2>2. r.styles = u \o v /\ Len(v) = r.floor /\ Walk(<<>>, r.res, a)
      BY <2>1 DEF Layered
    <2> HIDE DEF a
    <2>3. r.res \in Seq(Marks_) /\ h \in Seq(Marks_)
      BY <1>2, HtmlMarks
    <2>4. a \in Stacks
      BY <2>2, <2>3, WalkStacks
    <2>5. \A i \in 1 .. Len(h) : Idle(h[i], a)
      BY DEF Idle
    <2>6. Walk(a, h, a)
      BY <2>3, <2>4, <2>5, WalkIdle
    <2>7. Walk(<<>>, r.res \o h, a)
      BY <2>2, <2>3, <2>6, WalkJoin
    <2>8. Layered(q, l, u, v)
      BY <1>1, <2>2, <2>7 DEF Layered, a
    <2> QED
      BY <2>8 DEF Stands
  <1>4. Headed(r.res) => Headed(q.res)
    BY <1>2, HeadedJoin
  <1> QED
    BY <1>1, <1>3, <1>4 DEF Moves

LEMMA SaysMove ==
  ASSUME NEW r \in Rends, NEW q \in Rends, Alike(q, r), NEW l
  PROVE  /\ q.res = r.res => Moves(r, q, l)
         /\ \A s \in Seq(Strings) : q.res = r.res \o Says(s) => Moves(r, q, l)
         /\ \A w \in Strings : q.res = Append(r.res, <<"t", w>>) => Moves(r, q, l)
  <1>1. r.res \in Seq(Html)
    BY StylesType
  <1>2. ASSUME q.res = r.res PROVE Moves(r, q, l)
    <2>1. <<>> \in Seq(Html) /\ \A i \in 1 .. Len(<<>>) : <<>>[i][1] = "t"
      BY NoneFacts
    <2>2. q.res = r.res \o <<>>
      BY <1>1, <1>2, NoneJoin
    <2> QED
      BY <2>1, <2>2, WritesMove
  <1>3. ASSUME NEW s \in Seq(Strings), q.res = r.res \o Says(s) PROVE Moves(r, q, l)
    <2>1. Says(s) \in Seq(Html) /\ Len(Says(s)) = Len(s) /\ \A i \in 1 .. Len(s) : Says(s)[i] = <<"t", s[i]>>
      BY SaysFacts
    <2>2. \A i \in 1 .. Len(Says(s)) : Says(s)[i][1] = "t"
      BY <2>1
    <2> QED
      BY <1>3, <2>1, <2>2, WritesMove
  <1>4. ASSUME NEW w \in Strings, q.res = Append(r.res, <<"t", w>>) PROVE Moves(r, q, l)
    <2> DEFINE x == <<"t", w>>
    <2>1. x \in Html /\ x[1] = "t"
      BY DEF Html
    <2> HIDE DEF x
    <2> DEFINE h == <<x>>
    <2>2. h \in Seq(Html) /\ Len(h) = 1 /\ h[1] = x
      BY <2>1, OneOf
    <2>3. Append(r.res, x) = r.res \o h
      BY <1>1, <2>1, AppendIsConcat
    <2> HIDE DEF h
    <2>4. q.res = r.res \o h
      BY <1>4, <2>3 DEF x
    <2>5. \A i \in 1 .. Len(h) : h[i][1] = "t"
      BY <2>1, <2>2
    <2> QED
      BY <2>2, <2>4, <2>5, WritesMove
  <1> QED
    BY <1>2, <1>3, <1>4

\* A start tag, where nothing of that name is open if that is to be so.
LEMMA OpensOn ==
  ASSUME NEW h \in Seq(Html), NEW e \in Strings, NEW a, Walk(<<>>, h, a),
         e \in Single => \A i \in DOMAIN a : a[i] # e
  PROVE  /\ Walk(<<>>, Append(h, <<"+", e>>), <<e>> \o a)
         /\ Append(h, <<"+", e>>) \in Seq(Html) /\ a \in Stacks /\ <<e>> \o a \in Stacks
         /\ e # "h" /\ Headed(h) => Headed(Append(h, <<"+", e>>))
  <1> DEFINE y == <<"+", e>>
             b == <<e>> \o a
  <1>1. y \in Html /\ y[1] = "+" /\ y[2] = e /\ <<>> \in Stacks
    BY NoneFacts DEF Html, Stacks
  <1>2. h \in Seq(Marks_)
    BY HtmlMarks
  <1>3. a \in Stacks
    BY <1>2, WalkStacks
  <1>4. b \in Stacks
    BY <1>3, ConsFacts DEF Stacks
  <1> HIDE DEF y
  <1>5. Step(a, y, b)
    BY <1>1 DEF Step
  <1> HIDE DEF b
  <1>6. Walk(<<>>, Append(h, y), b) /\ Append(h, y) \in Seq(Html)
    BY <1>1, <1>3, <1>4, <1>5, WalkOn
  <1>7. e # "h" /\ Headed(h) => Headed(Append(h, y))
    BY <1>1, HeadedOn
  <1> QED
    BY <1>3, <1>4, <1>6, <1>7 DEF b, y

LEMMA ClosesOn ==
  ASSUME NEW h \in Seq(Html), NEW e \in Strings, NEW a \in Stacks, Walk(<<>>, h, <<e>> \o a)
  PROVE  /\ Walk(<<>>, Append(h, <<"-", e>>), a) /\ Append(h, <<"-", e>>) \in Seq(Html)
         /\ e # "h" /\ Headed(h) => Headed(Append(h, <<"-", e>>))
  <1> DEFINE y == <<"-", e>>
             b == <<e>> \o a
  <1>1. y \in Html /\ y[1] = "-" /\ y[2] = e /\ <<>> \in Stacks
    BY NoneFacts DEF Html, Stacks
  <1>2. Step(b, y, a)
    BY StepEnd
  <1>3. h \in Seq(Marks_) /\ Walk(<<>>, h, b)
    BY HtmlMarks
  <1> HIDE DEF y, b
  <1>4. b \in Stacks
    BY <1>3, WalkStacks
  <1>5. Walk(<<>>, Append(h, y), a) /\ Append(h, y) \in Seq(Html)
    BY <1>1, <1>2, <1>3, <1>4, WalkOn
  <1>6. e # "h" /\ Headed(h) => Headed(Append(h, y))
    BY <1>1, HeadedOn
  <1> QED
    BY <1>5, <1>6 DEF y

LEMMA SaysOn ==
  ASSUME NEW h \in Seq(Html), NEW s \in Seq(Strings), NEW a, Walk(<<>>, h, a)
  PROVE  Walk(<<>>, h \o Says(s), a) /\ h \o Says(s) \in Seq(Html) /\ (Headed(h) => Headed(h \o Says(s)))
  <1> DEFINE g == Says(s)
  <1>1. g \in Seq(Html) /\ Len(g) = Len(s) /\ \A i \in 1 .. Len(s) : g[i] = <<"t", s[i]>>
    BY SaysFacts
  <1>2. h \in Seq(Marks_) /\ g \in Seq(Marks_)
    BY <1>1, HtmlMarks
  <1>3. a \in Stacks
    BY <1>2, WalkStacks
  <1>4. Walk(a, g, a)
    BY <1>3, SaysWalk
  <1>5. \A i \in 1 .. Len(g) : g[i][1] = "t"
    BY <1>1
  <1> HIDE DEF g
  <1>6. Walk(<<>>, h \o g, a) /\ h \o g \in Seq(Html)
    BY <1>1, <1>2, <1>4, WalkJoin
  <1>7. Headed(h) => Headed(h \o g)
    BY <1>1, <1>5, HeadedJoin
  <1> QED
    BY <1>6, <1>7 DEF g

LEMMA StartMoves ==
  ASSUME NEW r \in Rends, NEW e \in Fonts, e \in Single => ~Contains(r.styles, e), NEW l \in LinkEls, r.stack # <<>>
  PROVE  Moves(r, StartStyle(r, e), l)
  <1> DEFINE q == StartStyle(r, e)
  <1>1. /\ q \in Rends /\ q.styles = <<e>> \o r.styles /\ q.res = Append(r.res, <<"+", e>>)
        /\ q.stack = r.stack /\ q.floor = r.floor /\ q.blocks = r.blocks /\ q.title = r.title
        /\ q.leak = r.leak
    BY StartStyleFacts
  <1> HIDE DEF q
  <1>2. r.res \in Seq(Html) /\ r.stack \in Seq(Elements) /\ e \in Strings /\ e # "h"
    BY StylesType, Plainly DEF Fonts
  <1>3. ASSUME Stands(r, l) PROVE Stands(q, l) /\ (Headed(r.res) => Headed(q.res))
    <2>1. PICK u, v \in Seq(Fonts) : Layered(r, l, u, v)
      BY <1>3 DEF Stands
    <2> DEFINE b == l \o (v \o r.stack)
               a == u \o b
               w == <<e>> \o u
    <2>2. r.styles = u \o v /\ Len(v) = r.floor /\ Walk(<<>>, r.res, a)
      BY <2>1 DEF Layered
    <2>3. ASSUME e \in Single PROVE \A i \in DOMAIN a : a[i] # e
      <3>1. ~Contains(u \o v, e)
        BY <2>2, <2>3
      <3> QED
        BY <1>2, <3>1, ClearStyles
    <2>4. b \in Stacks /\ u \in Stacks /\ v \in Stacks
      BY <1>2, StylesStack, LinkElFacts, FourJoin
    <2>5. w \in Seq(Fonts)
      BY ConsFacts
    <2>6. w \o b = <<e>> \o a /\ w \o v = <<e>> \o (u \o v)
      <3>1. <<e>> \in Seq(Strings) /\ u \in Seq(Strings) /\ b \in Seq(Strings) /\ v \in Seq(Strings)
        BY <1>2, <2>4, OneOf DEF Stacks
      <3> HIDE DEF b
      <3> QED
        BY <3>1
    <2> HIDE DEF a, w, b
    <2>7. Walk(<<>>, q.res, <<e>> \o a) /\ (Headed(r.res) => Headed(q.res))
      BY <1>1, <1>2, <2>2, <2>3, OpensOn
    <2>8. Layered(q, l, w, v)
      <3>1. q.styles = w \o v
        BY <1>1, <2>2, <2>6
      <3>2. Walk(<<>>, q.res, w \o b)
        BY <2>6, <2>7
      <3> QED
        BY <1>1, <2>2, <3>1, <3>2 DEF Layered, b
    <2> QED
      BY <2>5, <2>7, <2>8 DEF Stands
  <1>4. Headed(r.res) => Headed(q.res)
    <2> DEFINE y == <<"+", e>>
    <2>1. y \in Html /\ y[2] # "h"
      BY <1>2 DEF Html
    <2>2. q.res = Append(r.res, y)
      BY <1>1
    <2> HIDE DEF y
    <2> QED
      BY <1>2, <2>1, <2>2, HeadedOn
  <1> QED
    BY <1>1, <1>3, <1>4 DEF Moves, q

LEMMA UnwindMoves ==
  ASSUME NEW r \in Rends, NEW e \in Fonts, Contains(r.styles, e), NEW l \in LinkEls
  PROVE  Moves(r, UnwindInline(r, e), l)
  <1> DEFINE q == UnwindInline(r, e)
  <1>1. /\ q.stack = r.stack /\ q.floor = r.floor /\ q.blocks = r.blocks /\ q.title = r.title
        /\ q.leak = (r.leak \/ Len(r.styles) - First(r, e) < r.floor)
    BY UnwindFacts
  <1>2. r.styles # <<>>
    BY ContainsNone
  <1>3. l \in Stacks
    BY LinkElFacts
  <1>4. ASSUME ~q.leak, Stands(r, l) PROVE Stands(q, l)
    BY <1>3, <1>4, UnwindWalk
  <1>5. ASSUME ~q.leak, Stands(r, l) PROVE Headed(r.res) => Headed(q.res)
    BY <1>3, <1>5, UnwindWalk
  <1>6. r.leak => q.leak
    BY <1>1
  <1> HIDE DEF q
  <1> QED
    BY <1>1, <1>2, <1>4, <1>5, <1>6 DEF Moves, q

LEMMA EndStyleMoves ==
  ASSUME NEW r \in Rends, NEW e \in Fonts, Contains(r.styles, e), NEW l \in LinkEls
  PROVE  Moves(r, EndStyle(r, e), l)
  <1> DEFINE q == EndStyle(r, e)
             n == First(r, e)
  <1>1. /\ q \in Rends /\ q.styles = Rest(r.styles, n) /\ n \in 1 .. Len(r.styles)
        /\ q.res = r.res \o Ends(SubSeq(r.styles, 1, n))
        /\ q.stack = r.stack /\ q.floor = r.floor /\ q.blocks = r.blocks /\ q.title = r.title
        /\ q.leak = (r.leak \/ Len(r.styles) - n < r.floor)
    BY EndStyleFacts
  <1>2. r.styles # <<>> /\ r.res \in Seq(Html) /\ r.stack \in Stacks /\ r.floor \in Nat /\ l \in Stacks
    BY ContainsNone, StylesType, LinkElFacts
  <1> HIDE DEF q, n
  <1>3. ASSUME ~q.leak, Stands(r, l) PROVE Stands(q, l) /\ (Headed(r.res) => Headed(q.res))
    <2>1. PICK u, v \in Seq(Fonts) : Layered(r, l, u, v)
      BY <1>3 DEF Stands
    <2> DEFINE b == l \o (v \o r.stack)
               p == SubSeq(u, 1, n)
               t == Rest(u, n)
    <2>2. r.styles = u \o v /\ Len(v) = r.floor /\ Walk(<<>>, r.res, u \o b)
      BY <2>1 DEF Layered
    <2>3. ~(Len(r.styles) - n < r.floor)
      BY <1>1, <1>3, Zenon
    <2>4. Len(u) \in Nat /\ Len(v) \in Nat /\ Len(r.styles) = Len(u) + Len(v)
      <3>1. Len(u \o v) = Len(u) + Len(v)
        BY JoinFacts
      <3>2. Len(u) \in Nat /\ Len(v) \in Nat
        OBVIOUS
      <3> QED
        BY <2>2, <3>1, <3>2
    <2>5. n \in 0 .. Len(u)
      BY <1>1, <2>2, <2>3, <2>4
    <2>6. Rest(u \o v, n) = t \o v /\ SubSeq(u \o v, 1, n) = p
      <3> HIDE DEF b
      <3>1. Rest(u \o v, n) = Rest(u, n) \o v /\ SubSeq(u \o v, 1, n) = SubSeq(u, 1, n)
        BY <2>5, RestJoin
      <3> QED
        BY <3>1
    <2>7. p \in Seq(Fonts) /\ t \in Seq(Fonts) /\ u = p \o t
      BY <2>5, RestFacts
    <2>8. p \in Stacks /\ t \in Stacks /\ v \in Stacks /\ b \in Stacks
      BY <1>2, <2>7, StylesStack, FourJoin
    <2>9. u \o b = p \o (t \o b) /\ t \o b \in Stacks
      <3>1. p \in Seq(Strings) /\ t \in Seq(Strings) /\ b \in Seq(Strings)
        BY <2>8 DEF Stacks
      <3> HIDE DEF p, t, b
      <3> QED
        BY <2>7, <3>1, JoinFacts DEF Stacks
    <2> DEFINE c == t \o b
    <2> HIDE DEF p, t, b, c
    <2>10. c \in Stacks /\ Walk(<<>>, r.res, p \o c)
      BY <2>2, <2>9 DEF c
    <2>11. Walk(p \o c, Ends(p), c) /\ Ends(p) \in Seq(Html)
      BY <2>8, <2>10, EndsWalk
    <2>12. r.res \in Seq(Marks_) /\ Ends(p) \in Seq(Marks_)
      BY <1>2, <2>11, HtmlMarks
    <2>13. Walk(<<>>, r.res \o Ends(p), c)
      BY <2>10, <2>11, <2>12, WalkJoin
    <2>14. q.res = r.res \o Ends(p)
      BY <1>1, <2>2, <2>6
    <2>15. Layered(q, l, t, v)
      <3>1. q.styles = t \o v
        BY <1>1, <2>2, <2>6
      <3>2. Walk(<<>>, q.res, t \o b)
        BY <2>13, <2>14 DEF c
      <3> QED
        BY <1>1, <2>2, <3>1, <3>2 DEF Layered, b
    <2>16. Headed(r.res) => Headed(q.res)
      <3>1. p \in Seq(Strings) /\ "h" \notin Fonts
        BY <2>8 DEF Stacks, Fonts
      <3>2. Len(Ends(p)) = Len(p) /\ \A i \in 1 .. Len(p) : Ends(p)[i] = <<"-", p[i]>> /\ p[i] \in Fonts
        BY <2>7, <3>1, EndsFacts
      <3>3. \A i \in 1 .. Len(Ends(p)) : Ends(p)[i][1] # "t" => Ends(p)[i][2] # "h"
        BY <3>1, <3>2
      <3> QED
        BY <1>2, <2>11, <2>14, <3>3, HeadedJoin
    <2> QED
      BY <2>7, <2>15, <2>16 DEF Stands
  <1>4. r.leak => q.leak
    BY <1>1
  <1> QED
    BY <1>1, <1>2, <1>3, <1>4 DEF Moves, q

LEMMA FontMoves ==
  ASSUME NEW r \in Rends, NEW e \in Fonts, NEW q, FontStep(r, q, e), r.stack # <<>>, NEW l \in LinkEls
  PROVE  Moves(r, q, l)
  <1>1. ASSUME NEW w \in Strings, q = Put(r, w) PROVE Moves(r, q, l)
    BY <1>1, PutFacts, SaysMove
  <1>2. ASSUME Contains(r.styles, e), q = UnwindInline(r, e) PROVE Moves(r, q, l)
    BY <1>2, UnwindMoves
  <1>3. ASSUME ~Contains(r.styles, e), q = StartStyle(r, e) PROVE Moves(r, q, l)
    BY <1>3, StartMoves
  <1> QED
    BY <1>1, <1>2, <1>3 DEF FontStep

LEMMA CodeMoves ==
  ASSUME NEW r \in Rends, NEW s \in Seq(Strings), ~Contains(r.styles, "code"), NEW l \in LinkEls
  PROVE  Moves(r, Close(Plain(Open(r, "code"), s), "code"), l)
  <1> DEFINE e == "code"
             o == Open(r, e)
             p == Plain(o, s)
             q == Close(p, e)
  <1>1. e \in Fonts /\ e \in Strings /\ e # "h"
    BY Plainly DEF Fonts
  <1> HIDE DEF e
  <1>2. o \in Rends /\ Alike(o, r) /\ o.res = Append(r.res, <<"+", e>>)
    BY <1>1, PutFacts
  <1> HIDE DEF o
  <1>3. p \in Rends /\ Alike(p, o) /\ p.res = o.res \o Says(s)
    BY <1>2, PlainFacts
  <1> HIDE DEF p
  <1>4. q \in Rends /\ Alike(q, p) /\ q.res = Append(p.res, <<"-", e>>)
    BY <1>1, <1>3, PutFacts
  <1> HIDE DEF q
  <1>5. Alike(q, r)
    BY <1>2, <1>3, <1>4, AlikeFacts
  <1>6. /\ q.styles = r.styles /\ q.stack = r.stack /\ q.floor = r.floor /\ q.blocks = r.blocks
        /\ q.title = r.title /\ q.leak = r.leak
    BY <1>5 DEF Alike
  <1>7. r.res \in Seq(Html) /\ r.stack \in Seq(Elements)
    BY StylesType
  <1>8. ASSUME Stands(r, l) PROVE Stands(q, l) /\ (Headed(r.res) => Headed(q.res))
    <2>1. PICK u, v \in Seq(Fonts) : Layered(r, l, u, v)
      BY <1>8 DEF Stands
    <2> DEFINE a == u \o (l \o (v \o r.stack))
    <2>2. r.styles = u \o v /\ Len(v) = r.floor /\ Walk(<<>>, r.res, a)
      BY <2>1 DEF Layered
    <2>3. (\A i \in DOMAIN a : a[i] # e) /\ a \in Stacks
      <3>1. ~Contains(u \o v, e)
        BY <2>2 DEF e
      <3> QED
        BY <1>1, <1>7, <3>1, ClearStyles
    <2> HIDE DEF a
    <2>4. Walk(<<>>, o.res, <<e>> \o a) /\ o.res \in Seq(Html) /\ (Headed(r.res) => Headed(o.res))
      BY <1>1, <1>2, <1>7, <2>2, <2>3, OpensOn
    <2>5. Walk(<<>>, p.res, <<e>> \o a) /\ p.res \in Seq(Html) /\ (Headed(o.res) => Headed(p.res))
      BY <1>3, <2>4, SaysOn
    <2>6. Walk(<<>>, q.res, a) /\ (Headed(p.res) => Headed(q.res))
      BY <1>1, <1>4, <2>3, <2>5, ClosesOn
    <2>7. Layered(q, l, u, v)
      BY <1>6, <2>2, <2>6 DEF Layered, a
    <2> QED
      BY <2>4, <2>5, <2>6, <2>7 DEF Stands
  <1> QED
    BY <1>6, <1>8 DEF Moves, q, p, o, e

-----------------------------------------------------------------------------
(* Links, macros, notes and abbreviations.                                 *)

LEMMA UnheadedJoin ==
  ASSUME NEW A, NEW p \in Seq(A), NEW q \in Seq(A), Unheaded(p), Unheaded(q)
  PROVE  Unheaded(p \o q)
  <1> DEFINE s == p \o q
  <1>1. SUFFICES ASSUME NEW i \in DOMAIN s, s[i].k \in {"begin", "end"} PROVE s[i].el # "h"
    BY DEF Unheaded
  <1>2. /\ s \in Seq(A) /\ Len(s) = Len(p) + Len(q) /\ Len(p) \in Nat /\ Len(q) \in Nat
        /\ \A j \in 1 .. Len(p) : s[j] = p[j]
        /\ \A j \in 1 .. Len(q) : s[Len(p) + j] = q[j]
    BY JoinFacts
  <1>3. DOMAIN s = 1 .. Len(s) /\ DOMAIN p = 1 .. Len(p) /\ DOMAIN q = 1 .. Len(q)
    BY <1>2, DomainFacts
  <1> HIDE DEF s
  <1>4. CASE i <= Len(p)
    <2>1. i \in DOMAIN p /\ s[i] = p[i]
      BY <1>2, <1>3, <1>4
    <2> QED
      BY <1>1, <2>1 DEF Unheaded
  <1>5. CASE ~(i <= Len(p))
    <2>1. i - Len(p) \in 1 .. Len(q) /\ Len(p) + (i - Len(p)) = i
      BY <1>2, <1>3, <1>5
    <2>2. i - Len(p) \in DOMAIN q /\ s[i] = q[i - Len(p)]
      BY <1>2, <1>3, <2>1
    <2> QED
      BY <1>1, <2>2 DEF Unheaded
  <1> QED
    BY <1>4, <1>5

LEMMA UnheadedTail ==
  ASSUME NEW A, NEW q \in Seq(A), q # <<>>, Unheaded(q)
  PROVE  Unheaded(Tail(q))
  <1>1. SUFFICES ASSUME NEW i \in DOMAIN Tail(q), Tail(q)[i].k \in {"begin", "end"} PROVE Tail(q)[i].el # "h"
    BY DEF Unheaded
  <1>2. Tail(q) \in Seq(A)
    BY HeadAndTail
  <1>3. i \in 1 .. Len(Tail(q))
    BY <1>2, DomainFacts
  <1>4. i + 1 \in 2 .. Len(q) /\ Tail(q)[i] = q[i + 1]
    BY <1>3, TailFacts
  <1>5. i + 1 \in DOMAIN q
    BY <1>4
  <1> QED
    BY <1>1, <1>4, <1>5 DEF Unheaded

Loose(cs) == \A k \in {"title"} \cup Links : ~Has(cs, k)

LEMMA TurnLink ==
  ASSUME IInv, calls # <<>>, Head(calls).k \notin {"title"} \cup Links,
         NEW r, r.mode = rend.mode, NEW cs \in Seq(CallToks(Here)), Turns(r, cs), Loose(cs)
  PROVE  LinkEl' = LinkEl /\ \A k \in {"title"} \cup Links : Pending(k)' <=> Pending(k)
  <1>1. TypeOK
    BY DEF IInv
  <1>2. ASSUME NEW k \in {"title"} \cup Links PROVE Pending(k)' <=> Pending(k)
    <2>1. ~Has(cs, k) /\ Head(calls).k # k
      BY DEF Loose
    <2>2. /\ Pending(k)' <=> Has(cs, k) \/ Has(Tail(calls), k)
          /\ Pending(k) <=> Head(calls).k = k \/ Has(Tail(calls), k)
      BY <1>1, TurnPending
    <2> QED
      BY <2>1, <2>2
  <1>3. rend'.mode = rend.mode
    BY DEF Turns
  <1>4. Pending("endlink")' <=> Pending("endlink")
    BY <1>2 DEF Links
  <1>5. Pending("endabbr")' <=> Pending("endabbr")
    BY <1>2 DEF Links
  <1> QED
    BY <1>2, <1>3, <1>4, <1>5 DEF LinkEl

LEMMA TurnMoves ==
  ASSUME IInv, WrittenOK, ~done, calls # <<>>, Head(calls).k \notin {"begin", "title"} \cup Links,
         NEW r, r.mode = rend.mode, Moves(rend, r, LinkEl),
         NEW cs \in Seq(CallToks(Here)), Turns(r, cs), Loose(cs), Unheaded(cs)
  PROVE  WrittenOK'
  <1>1. rend' = r /\ calls' = cs \o Tail(calls) /\ UNCHANGED done
    BY DEF Turns
  <1>2. SUFFICES ASSUME ~r.leak PROVE ShutBlocks(r) /\ Writing'
    BY <1>1 DEF WrittenOK, ShutBlocks, Shut
  <1>3. ~rend.leak /\ r.blocks = rend.blocks /\ r.title = rend.title /\ r.floor = rend.floor /\ r.stack = rend.stack
    BY <1>2 DEF Moves
  <1>4. ShutBlocks(rend) /\ Writing
    BY <1>3 DEF WrittenOK
  <1>5. LinkEl' = LinkEl /\ \A k \in {"title"} \cup Links : Pending(k)' <=> Pending(k)
    BY TurnLink
  <1>6. ShutBlocks(r)
    BY <1>3, <1>4 DEF ShutBlocks
  <1>7. ~Pending("endlink")' /\ ~Pending("endabbr")' => r.floor = 0
    BY <1>3, <1>4, <1>5 DEF Writing, Links
  <1>8. Stands(r, LinkEl)
    BY <1>2, <1>4 DEF Writing, Moves
  <1>9. r.styles # <<>> => r.stack # <<>>
    BY <1>3, <1>4 DEF Writing, Moves
  <1>10. Titling'
    <2>1. SUFFICES ASSUME Pending("title") PROVE Headed(r.res) /\ Unheaded(cs \o Tail(calls))
      BY <1>1, <1>5 DEF Titling, Headed, Unheaded
    <2>2. calls \in Seq(CallToks(Here))
      BY HereFacts DEF IInv
    <2>3. calls[1] = Head(calls) /\ Tail(calls) \in Seq(CallToks(Here))
      BY <2>2, HeadAndTail
    <2>4. calls[1] # Begin("h")
      <3>1. Begin("h").k = "begin"
        BY BeginEnd DEF Elements
      <3> QED
        BY <2>3, <3>1
    <2>5. Headed(rend.res) /\ Unheaded(calls)
      BY <1>4, <2>1, <2>4 DEF Writing, Titling
    <2>6. Headed(r.res)
      BY <1>2, <1>4, <2>5 DEF Writing, Moves
    <2>7. Unheaded(Tail(calls))
      BY <2>2, <2>5, UnheadedTail
    <2> QED
      BY <2>3, <2>6, <2>7, UnheadedJoin
  <1>11. Stands(r, LinkEl)'
    <2>1. Stands(r, LinkEl')
      BY <1>5, <1>8
    <2> QED
      BY <2>1 DEF Stands, Layered, Walk, Trails
  <1> QED
    BY <1>1, <1>6, <1>7, <1>9, <1>10, <1>11 DEF Writing, Stands, Layered

LEMMA DoesMoves ==
  ASSUME IInv, WrittenOK, ~done, calls # <<>>, Head(calls).k \notin {"begin", "title"} \cup Links,
         NEW r, r.mode = rend.mode, Moves(rend, r, LinkEl),
         NEW cs \in Seq(CallToks(Here)), Does(r, cs), Loose(cs), Unheaded(cs)
  PROVE  WrittenOK'
  BY TurnsIt, TurnMoves

LEMMA Unsaid == Loose(<<>>) /\ Unheaded(<<>>) /\ \A A : <<>> \in Seq(A)
  BY NoneFacts DEF Loose, Unheaded

LEMMA DoesAlike ==
  ASSUME IInv, WrittenOK, ~done, calls # <<>>, Head(calls).k \notin {"begin", "title"} \cup Links,
         NEW r, r.mode = rend.mode, Moves(rend, r, LinkEl), Does(r, <<>>)
  PROVE  WrittenOK'
  <1> DEFINE cs == <<>>
  <1>1. cs \in Seq(CallToks(Here)) /\ Does(r, cs) /\ Loose(cs) /\ Unheaded(cs)
    BY Unsaid
  <1> HIDE DEF cs
  <1> QED
    BY <1>1, DoesMoves

LEMMA InlinePlainNests == ASSUME IInv, WrittenOK, InlinePlain PROVE WrittenOK'
  <1>1. /\ calls # <<>> /\ Cl = Head(calls) /\ Cl.k \in {"plain", "quote"} /\ Cl.txt \in Seq(Strings)
        /\ rend \in Rends /\ ~done
    BY CallFacts DEF InlinePlain
  <1> DEFINE r == Plain(rend, Cl.txt)
  <1>2. r \in Rends /\ Alike(r, rend) /\ r.res = rend.res \o Says(Cl.txt)
    BY <1>1, PlainFacts
  <1>3. Does(r, <<>>)
    BY DEF InlinePlain
  <1> HIDE DEF r
  <1>4. Moves(rend, r, LinkEl)
    BY <1>1, <1>2, SaysMove
  <1>5. r.mode = rend.mode
    BY <1>2 DEF Alike
  <1>6. Head(calls).k \notin {"begin", "title"} \cup Links
    BY <1>1 DEF Links
  <1> QED
    BY <1>1, <1>3, <1>4, <1>5, <1>6, DoesAlike

LEMMA InlineCodeNests == ASSUME IInv, WrittenOK, InlineCode PROVE WrittenOK'
  <1>1. /\ calls # <<>> /\ Cl = Head(calls) /\ Cl.k \in {"(("} /\ Cl.txt \in Seq(Strings)
        /\ rend \in Rends /\ ~done
    BY CallFacts DEF InlineCode
  <1> DEFINE p == Plain(rend, Cl.txt)
             c == Close(Plain(Open(rend, "code"), Cl.txt), "code")
  <1>2. p \in Rends /\ Alike(p, rend) /\ p.res = rend.res \o Says(Cl.txt)
    BY <1>1, PlainFacts
  <1>3. \/ Does(p, <<>>)
        \/ ~Contains(rend.styles, "code") /\ Does(c, <<>>)
    BY DEF InlineCode
  <1>4. Moves(rend, p, LinkEl) /\ p.mode = rend.mode
    BY <1>1, <1>2, SaysMove DEF Alike
  <1>5. c.mode = rend.mode
    BY DEF Close, Plain, Open
  <1> HIDE DEF p
  <1>6. ~Contains(rend.styles, "code") => Moves(rend, c, LinkEl)
    BY <1>1, CodeMoves, LinkElFacts
  <1>7. Head(calls).k \notin {"begin", "title"} \cup Links
    BY <1>1 DEF Links
  <1> HIDE DEF c
  <1> QED
    BY <1>1, <1>3, <1>4, <1>5, <1>6, <1>7, DoesAlike

Quiet(t) == t.k \notin {"title", "begin", "end"} \cup Links

LEMMA OneQuiet ==
  ASSUME NEW t, t \in CallToks(Here), Quiet(t)
  PROVE  <<t>> \in Seq(CallToks(Here)) /\ Loose(<<t>>) /\ Unheaded(<<t>>)
  <1> DEFINE cs == <<t>>
  <1>1. cs \in Seq(CallToks(Here)) /\ DOMAIN cs = {1} /\ cs[1] = t /\ \A k : Has(cs, k) <=> t.k = k
    BY OneCall
  <1> HIDE DEF cs
  <1>2. Loose(cs)
    BY <1>1 DEF Loose, Quiet, Links
  <1>3. Unheaded(cs)
    BY <1>1 DEF Unheaded, Quiet
  <1> QED
    BY <1>1, <1>2, <1>3 DEF cs

LEMMA TwoQuiet ==
  ASSUME NEW t, t \in CallToks(Here), Quiet(t), NEW u, u \in CallToks(Here), Quiet(u)
  PROVE  Two(t, u) \in Seq(CallToks(Here)) /\ Loose(Two(t, u)) /\ Unheaded(Two(t, u))
  <1> DEFINE cs == Two(t, u)
  <1>1. cs \in Seq(CallToks(Here)) /\ DOMAIN cs = {1, 2} /\ cs[1] = t /\ cs[2] = u
    BY TwoCalls
  <1>2. \A k : Has(cs, k) <=> t.k = k \/ u.k = k
    BY HasTwo
  <1> HIDE DEF cs
  <1>3. Loose(cs)
    BY <1>2 DEF Loose, Quiet, Links
  <1>4. Unheaded(cs)
    BY <1>1 DEF Unheaded, Quiet
  <1> QED
    BY <1>1, <1>3, <1>4 DEF cs

LEMMA StaysMove == ASSUME IInv PROVE rend \in Rends /\ Moves(rend, rend, LinkEl)
  <1>1. rend \in Rends
    BY DEF IInv, TypeOK
  <1>2. Alike(rend, rend)
    BY DEF Alike
  <1> QED
    BY <1>1, <1>2, SaysMove

LEMMA TextMoves ==
  ASSUME NEW r \in Rends, NEW q, NEW t, TextStep(r, q, t), r.stack # <<>>, NEW l \in LinkEls
  PROVE  Moves(r, q, l) /\ q.mode = r.mode
  <1>1. CASE q = r
    <2>1. Alike(r, r)
      BY DEF Alike
    <2> QED
      BY <1>1, <2>1, SaysMove
  <1>2. ASSUME NEW s \in Seq(Strings), q = Plain(r, s) PROVE Moves(r, q, l) /\ q.mode = r.mode
    BY <1>2, PlainFacts, SaysMove DEF Alike
  <1>3. ASSUME NEW w \in Strings, q = Put(r, w) PROVE Moves(r, q, l) /\ q.mode = r.mode
    BY <1>3, PutFacts, SaysMove DEF Alike
  <1>4. ASSUME NEW e \in {"em", "strong", "code"}, FontStep(r, q, e) PROVE Moves(r, q, l) /\ q.mode = r.mode
    <2>1. e \in Fonts
      BY DEF Fonts
    <2> QED
      BY <1>4, <2>1, FontMoves, FontStepType
  <1> QED
    BY <1>1, <1>2, <1>3, <1>4 DEF TextStep

LEMMA HandleTextNests == ASSUME IInv, WrittenOK, HandleText PROVE WrittenOK'
  <1>1. /\ Calling({"text", "ltext"})
        /\ \/ Does(rend, <<>>)
           \/ \E t : Follows(t) /\ t.k = Cl.k /\ Before(Bracket, t) /\ Follows(Bracket)
                     /\ Bracket.k \in Opener /\ Does(rend, <<Bracket, t>>)
           \/ \E t, r : Follows(t) /\ t.k = Cl.k /\ TextStep(rend, r, t) /\ Does(r, <<t>>)
    BY HandleTextSteps
  <1>2. calls # <<>> /\ Cl = Head(calls) /\ Cl.k \in {"text", "ltext"} /\ rend \in Rends /\ ~done
    BY <1>1, CallFacts
  <1>3. Head(calls).k \notin {"begin", "title"} \cup Links
    BY <1>2 DEF Links
  <1>4. rend.stack # <<>>
    <2>1. Mark(Head(calls))[1] = "in"
      BY <1>2, InHead DEF InKinds
    <2> QED
      BY <1>2, <2>1, StillFirst DEF IInv
  <1>5. LinkEl \in LinkEls
    BY LinkElFacts
  <1>6. CASE Does(rend, <<>>)
    BY <1>2, <1>3, <1>6, DoesAlike, StaysMove
  <1>7. ASSUME NEW t, Follows(t), t.k = Cl.k, Follows(Bracket), Bracket.k \in Opener,
               Does(rend, <<Bracket, t>>)
        PROVE  WrittenOK'
    <2>1. t \in CallToks(Here) /\ Quiet(t)
      BY <1>2, <1>7 DEF Follows, Quiet, Links
    <2>2. Bracket \in CallToks(Here) /\ Quiet(Bracket)
      BY <1>7 DEF Follows, Quiet, Links, Opener
    <2> DEFINE cs == Two(Bracket, t)
    <2>3. Does(rend, cs)
      BY <1>7 DEF Two
    <2>4. cs \in Seq(CallToks(Here)) /\ Loose(cs) /\ Unheaded(cs)
      BY <2>1, <2>2, TwoQuiet
    <2> HIDE DEF cs
    <2> QED
      BY <1>2, <1>3, <2>3, <2>4, DoesMoves, StaysMove
  <1>8. ASSUME NEW t, NEW r, Follows(t), t.k = Cl.k, TextStep(rend, r, t), Does(r, <<t>>) PROVE WrittenOK'
    <2>1. t \in CallToks(Here) /\ Quiet(t)
      BY <1>2, <1>8 DEF Follows, Quiet, Links
    <2> DEFINE cs == <<t>>
    <2>2. cs \in Seq(CallToks(Here)) /\ Loose(cs) /\ Unheaded(cs)
      BY <2>1, OneQuiet
    <2>3. Does(r, cs)
      BY <1>8
    <2> HIDE DEF cs
    <2>4. Moves(rend, r, LinkEl) /\ r.mode = rend.mode
      BY <1>2, <1>4, <1>5, <1>8, TextMoves
    <2> QED
      BY <1>2, <1>3, <2>2, <2>3, <2>4, DoesMoves
  <1> QED
    BY <1>1, <1>6, <1>7, <1>8

\* The renderer, but for what bears on barriers, notes and the like.
SameText(q, r) ==
  /\ q.res = r.res /\ q.styles = r.styles /\ q.stack = r.stack /\ q.floor = r.floor /\ q.leak = r.leak
  /\ q.blocks = r.blocks /\ q.title = r.title

LEMMA SameMoves ==
  ASSUME NEW r, NEW q, SameText(q, r), NEW l
  PROVE  Moves(r, q, l) /\ \A p : Moves(p, r, l) => Moves(p, q, l)
  <1>1. Stands(q, l) <=> Stands(r, l)
    BY DEF SameText, Stands, Layered
  <1> QED
    BY <1>1 DEF SameText, Moves

LEMMA MovesOn ==
  ASSUME NEW r, NEW q, NEW p, NEW l, Moves(r, q, l), Moves(q, p, l)
  PROVE  Moves(r, p, l)
  BY DEF Moves

LEMMA MacroCall ==
  ASSUME IInv, NEW macros, Runs(macros)
  PROVE  /\ calls # <<>> /\ Cl = Head(calls) /\ Cl.k = "{{" /\ Name \in Strings /\ Args \in Seq(Strings)
         /\ rend \in Rends /\ ~done /\ rend.stack # <<>> /\ Head(calls).k \notin {"begin", "title"} \cup Links
  <1>1. calls # <<>> /\ Cl = Head(calls) /\ Cl.k = "{{" /\ Name \in Strings /\ Args \in Seq(Strings) /\ rend \in Rends
    BY RunsFacts
  <1>2. ~done
    BY DEF Runs, Calling
  <1>3. Head(calls).k \notin {"begin", "title"} \cup Links /\ Head(calls).k \in InKinds
        /\ Head(calls).k \notin {"begin", "end", "title"}
    BY <1>1 DEF Links, InKinds
  <1>4. Mark(Head(calls))[1] = "in"
    BY <1>3, InHead
  <1>5. rend.stack # <<>>
    BY <1>1, <1>3, <1>4, StillFirst DEF IInv
  <1> QED
    BY <1>1, <1>2, <1>3, <1>5

LEMMA UnheardNests == ASSUME IInv, WrittenOK, Unheard PROVE WrittenOK'
  <1>1. calls # <<>> /\ Head(calls).k \in {"{{"} /\ Cl.txt \in Seq(Strings) /\ rend \in Rends /\ ~done
    BY CallFacts DEF Unheard, Cl
  <1>2. "{{" \in Strings /\ "}}" \in Strings /\ "{macro suppressed}" \in Strings
    BY DEF Strings, Opener
  <1> DEFINE a == Put(rend, "{{")
             b == Plain(a, Cl.txt)
             c == Put(b, "}}")
             d == Put(rend, "{macro suppressed}")
  <1>3. Does(c, <<>>) \/ Does(d, <<>>) \/ Does(rend, <<>>)
    BY DEF Unheard
  <1>4. /\ a \in Rends /\ Alike(a, rend) /\ Moves(rend, a, LinkEl)
        /\ Alike(d, rend) /\ Moves(rend, d, LinkEl)
    BY <1>1, <1>2, PutFacts, SaysMove
  <1> HIDE DEF a
  <1>5. b \in Rends /\ Alike(b, a) /\ Moves(a, b, LinkEl)
    BY <1>1, <1>4, PlainFacts, SaysMove
  <1> HIDE DEF b
  <1>6. Alike(c, b) /\ Moves(b, c, LinkEl)
    BY <1>2, <1>5, PutFacts, SaysMove
  <1> HIDE DEF c, d
  <1>7. Moves(rend, c, LinkEl)
    BY <1>4, <1>5, <1>6, MovesOn
  <1>8. c.mode = rend.mode /\ d.mode = rend.mode
    BY <1>4, <1>5, <1>6 DEF Alike
  <1>9. Head(calls).k \notin {"begin", "title"} \cup Links
    BY <1>1 DEF Links
  <1> QED
    BY <1>1, <1>3, <1>4, <1>7, <1>8, <1>9, DoesAlike, StaysMove

LEMMA PutMacroNests == ASSUME IInv, WrittenOK, PutMacro PROVE WrittenOK'
  <1>1. /\ calls # <<>> /\ Name \in Strings /\ rend \in Rends /\ ~done
        /\ Head(calls).k \notin {"begin", "title"} \cup Links
    BY MacroCall DEF PutMacro
  <1> DEFINE r == Put(rend, Name)
  <1>2. Does(r, <<>>)
    BY DEF PutMacro
  <1>3. Alike(r, rend) /\ Moves(rend, r, LinkEl)
    BY <1>1, PutFacts, SaysMove
  <1> HIDE DEF r
  <1> QED
    BY <1>1, <1>2, <1>3, DoesAlike DEF Alike

LEMMA CanCommentMacroNests == ASSUME IInv, WrittenOK, CanCommentMacro PROVE WrittenOK'
  <1>1. calls # <<>> /\ rend \in Rends /\ ~done /\ Head(calls).k \notin {"begin", "title"} \cup Links
    BY MacroCall DEF CanCommentMacro
  <1> DEFINE f == {"hascomments"} \cup IF rend.mode.reader THEN {"comments"} ELSE {}
             r == [rend EXCEPT !.feats = @ \cup f]
  <1>2. Does(r, <<>>)
    <2>1. CanComment(rend) = r
      BY <1>1 DEF CanComment, Rends
    <2> QED
      BY <2>1 DEF CanCommentMacro
  <1>3. f \in SUBSET Feats
    BY DEF Feats
  <1> HIDE DEF f
  <1>4. r \in Rends /\ Alike(r, rend) /\ r.res = rend.res
    BY <1>1, <1>3, FeatFacts
  <1> HIDE DEF r
  <1>5. Moves(rend, r, LinkEl)
    BY <1>1, <1>4, SaysMove
  <1> QED
    BY <1>1, <1>2, <1>4, <1>5, DoesAlike DEF Alike

LEMMA RestrictedMacroNests == ASSUME IInv, WrittenOK, RestrictedMacro PROVE WrittenOK'
  <1>1. calls # <<>> /\ rend \in Rends /\ ~done /\ Head(calls).k \notin {"begin", "title"} \cup Links
    BY MacroCall DEF RestrictedMacro
  <1> DEFINE f == {"hasrestricted"}
             d == [rend EXCEPT !.feats = @ \cup f]
             n == Fail(d, "ReturnNothing")
  <1>2. Does(d, <<>>) \/ Does(n, <<>>)
    BY DEF RestrictedMacro, Restricted
  <1>3. f \in SUBSET Feats
    BY DEF Feats
  <1>4. /\ d \in Rends /\ Alike(d, rend) /\ d.res = rend.res
        /\ SameText(n, rend) /\ n.mode = rend.mode
    BY <1>1, <1>3, FeatFacts DEF SameText
  <1> HIDE DEF f, d, n
  <1>5. Moves(rend, d, LinkEl) /\ d.mode = rend.mode
    BY <1>1, <1>4, SaysMove DEF Alike
  <1>6. Moves(rend, n, LinkEl)
    BY <1>4, SameMoves
  <1> QED
    BY <1>1, <1>2, <1>4, <1>5, <1>6, DoesAlike

LEMMA ListHeadless ==
  ASSUME NEW e \in {"ul", "li", "p"}
  PROVE  Begin(e).el # "h" /\ End(e).el # "h"
  BY BeginEnd DEF Elements

Headless == {t \in Elementary : t.k \in {"begin", "end"} => t.el # "h"}
LEMMA HeadlessCalls == 
  /\ \A e \in {"ul", "li", "p"} : Begin(e) \in Headless /\ End(e) \in Headless
  /\ \A w \in Strings : Text("plain", <<w>>) \in Headless
  /\ \A cs \in Seq(Headless) : cs \in Seq(CallToks(Here)) /\ Loose(cs) /\ Unheaded(cs)
  <1>1. ASSUME NEW e \in {"ul", "li", "p"} PROVE Begin(e) \in Headless /\ End(e) \in Headless
    <2>1. e \in Elements
      BY DEF Elements
    <2> QED
      BY <2>1, ElementCalls, ListHeadless DEF Headless
  <1>2. ASSUME NEW w \in Strings PROVE Text("plain", <<w>>) \in Headless
    <2>1. <<w>> \in Seq(Strings)
      OBVIOUS
    <2>2. Text("plain", <<w>>).k = "plain"
      BY <2>1, TextType
    <2>3. Text("plain", <<w>>) \in Elementary
      BY PlainCall
    <2> QED
      BY <2>2, <2>3 DEF Headless
  <1>3. ASSUME NEW cs \in Seq(Headless) PROVE cs \in Seq(CallToks(Here)) /\ Loose(cs) /\ Unheaded(cs)
    <2>1. \A i \in DOMAIN cs : cs[i] \in Headless
      OBVIOUS
    <2>2. \A i \in DOMAIN cs : /\ cs[i] \in CallToks(Here) /\ cs[i].k \in {"begin", "end", "plain"}
                               /\ cs[i].k \in {"begin", "end"} => cs[i].el # "h"
      BY <2>1 DEF Headless, Elementary
    <2>3. cs \in Seq(CallToks(Here))
      BY <2>2, SeqWithin
    <2> QED
      BY <2>2, <2>3 DEF Loose, Has, Unheaded, Links
  <1> QED
    BY <1>1, <1>2, <1>3

LEMMA ListMacroNests == ASSUME IInv, WrittenOK, ListMacro PROVE WrittenOK'
  <1>1. calls # <<>> /\ rend \in Rends /\ ~done /\ Head(calls).k \notin {"begin", "title"} \cup Links
    BY MacroCall DEF ListMacro
  <1> DEFINE cs == MacroList(rend)
  <1>2. Does(rend, cs)
    BY DEF ListMacro
  <1>3. cs \in Seq(Headless)
    <2> DEFINE bu == Begin("ul")
               bl == Begin("li")
               p1 == Text("plain", <<"page1">>)
               p2 == Text("plain", <<"page2">>)
               el == End("li")
               eu == End("ul")
               ep == End("p")
               bp == Begin("p")
               list == <<bu, bl, p1, el, bl, p2, el, eu>>
    <2>1. "page1" \in Strings /\ "page2" \in Strings
      BY DEF Strings
    <2>2. /\ bu \in Headless /\ bl \in Headless /\ p1 \in Headless /\ p2 \in Headless /\ el \in Headless
          /\ eu \in Headless /\ ep \in Headless /\ bp \in Headless
      BY <2>1, HeadlessCalls
    <2>3. cs = IF rend.stack[1] = "p" THEN <<ep>> \o list \o <<bp>> ELSE list
      BY DEF MacroList
    <2> HIDE DEF cs, bu, bl, p1, p2, el, eu, ep, bp
    <2>4. list \in Seq(Headless)
      BY <2>2
    <2>5. <<ep>> \in Seq(Headless) /\ <<bp>> \in Seq(Headless)
      BY <2>2, OneOf
    <2> DEFINE le == <<ep>>
               lb == <<bp>>
    <2> HIDE DEF list, le, lb
    <2>6. le \o list \in Seq(Headless)
      BY <2>4, <2>5, JoinFacts DEF le
    <2>7. le \o list \o lb \in Seq(Headless)
      BY <2>5, <2>6, JoinFacts DEF lb
    <2> QED
      BY <2>3, <2>4, <2>7 DEF le, lb
  <1> HIDE DEF cs
  <1>4. cs \in Seq(CallToks(Here)) /\ Loose(cs) /\ Unheaded(cs)
    BY <1>3, HeadlessCalls
  <1> QED
    BY <1>1, <1>2, <1>4, DoesMoves, StaysMove

LEMMA InnerNests ==
  ASSUME IInv, calls # <<>>, NEW k \in {"text", "ltext"}, NEW txt \in Seq(Strings)
  PROVE  InnerText(k, txt) \in CallToks(Here) /\ InnerText(k, txt).k = k
  <1>1. SubsOK /\ calls \in Seq(CallToks(Here))
    BY HereFacts DEF IInv
  <1>2. Cl \in CallToks(Here)
    BY <1>1, HeadAndTail DEF Cl
  <1>3. Cl.lvl \in Nat
    BY <1>2 DEF CallToks, Tokens
  <1> QED
    BY <1>1, <1>3, InnerFacts

\* A call that fails writes nothing.
LEMMA FailsNest ==
  ASSUME IInv, WrittenOK, ~done, calls # <<>>, Head(calls).k \notin {"begin", "title"} \cup Links,
         rend \in Rends, NEW what \in Errors, Does(Fail(rend, what), <<>>)
  PROVE  WrittenOK'
  <1> DEFINE f == Fail(rend, what)
  <1>1. SameText(f, rend) /\ f.mode = rend.mode
    BY FailFacts DEF SameText
  <1>2. Does(f, <<>>)
    OBVIOUS
  <1> HIDE DEF f
  <1>3. Moves(rend, f, LinkEl)
    BY <1>1, SameMoves
  <1> QED
    BY <1>1, <1>2, <1>3, DoesAlike

LEMMA TooDeepNests == ASSUME IInv, WrittenOK, TooDeep PROVE WrittenOK'
  <1>1. calls # <<>> /\ Head(calls).k \in {"text", "ltext"} /\ rend \in Rends /\ ~done
    BY CallFacts DEF TooDeep, Cl
  <1>2. Head(calls).k \notin {"begin", "title"} \cup Links /\ "RuntimeError" \in Errors
    BY <1>1 DEF Links, Errors, Substituting
  <1>3. Does(Fail(rend, "RuntimeError"), <<>>)
    BY DEF TooDeep
  <1> QED
    BY <1>1, <1>2, <1>3, FailsNest

LEMMA ShowTextNests == ASSUME IInv, WrittenOK, ShowText PROVE WrittenOK'
  <1>1. /\ calls # <<>> /\ Args \in Seq(Strings) /\ rend \in Rends /\ ~done /\ rend.stack # <<>>
        /\ Cl = Head(calls) /\ Cl.k = "{{" /\ Head(calls).k \notin {"begin", "title"} \cup Links
    BY MacroCall DEF ShowText
  <1> DEFINE s == StartStyle(rend, "big")
             r == SetStyleBarrier(s)
             t == InnerText("text", Args)
             u == Text("endstyle", <<>>)
             cs == Two(t, u)
  <1>2. Does(r, cs)
    BY DEF ShowText, Two
  <1>3. "big" \in Fonts
    BY DEF Fonts
  <1>4. s \in Rends /\ s.mode = rend.mode
    BY <1>1, <1>3, StartStyleFacts
  <1>5. "big" \notin Single
    BY DEF Single
  <1>6. Moves(rend, s, LinkEl)
    BY <1>1, <1>3, <1>5, StartMoves, LinkElFacts
  <1> HIDE DEF s
  <1>7. SameText(r, s) /\ r.mode = s.mode
    BY <1>4, BarrierFacts DEF SameText
  <1>8. Moves(rend, r, LinkEl)
    BY <1>6, <1>7, SameMoves
  <1>9. t \in CallToks(Here) /\ t.k = "text"
    BY <1>1, InnerNests
  <1>10. u \in CallToks(Here) /\ u.k = "endstyle"
    BY TextType, Plainly
  <1> HIDE DEF t, u, r
  <1>11. Quiet(t) /\ Quiet(u)
    BY <1>9, <1>10 DEF Quiet, Links
  <1>12. cs \in Seq(CallToks(Here)) /\ Loose(cs) /\ Unheaded(cs)
    BY <1>9, <1>10, <1>11, TwoQuiet
  <1> HIDE DEF cs
  <1> QED
    BY <1>1, <1>2, <1>4, <1>7, <1>8, <1>12, DoesMoves

LEMMA EndsTextNests == ASSUME IInv, WrittenOK, EndsText PROVE WrittenOK'
  <1>1. calls # <<>> /\ Head(calls).k \in {"endstyle"} /\ rend \in Rends /\ ~done
    BY CallFacts DEF EndsText, Cl
  <1> DEFINE s == EndStyle(rend, "big")
             r == ClearStyleBarrier(s)
  <1>2. \/ Contains(rend.styles, "big") /\ Does(r, <<>>)
        \/ Does(Fail(rend, "IndexError"), <<>>)
    BY DEF EndsText
  <1>3. Head(calls).k \notin {"begin", "title"} \cup Links /\ "IndexError" \in Errors
    BY <1>1 DEF Links, Errors, Substituting
  <1>4. SUFFICES ASSUME Contains(rend.styles, "big"), Does(r, <<>>) PROVE WrittenOK'
    BY <1>1, <1>2, <1>3, FailsNest
  <1>5. Moves(rend, s, LinkEl)
    BY <1>1, <1>4, EndStyleMoves, LinkElFacts DEF Fonts
  <1>6. s \in Rends /\ s.mode = rend.mode
    BY <1>1, <1>4, EndStyleFacts DEF Fonts
  <1> HIDE DEF s
  <1>7. SameText(r, s) /\ r.mode = s.mode
    BY <1>6, BarrierFacts DEF SameText
  <1>8. Moves(rend, r, LinkEl)
    BY <1>5, <1>7, SameMoves
  <1> HIDE DEF r
  <1> QED
    BY <1>1, <1>3, <1>4, <1>6, <1>7, <1>8, DoesAlike

LEMMA TailNests ==
  ASSUME IInv, WrittenOK, ~done, calls # <<>>, Head(calls).k \notin {"begin", "title"} \cup Links,
         rend' = rend, calls' = Tail(calls)
  PROVE  WrittenOK'
  <1>1. SUFFICES ASSUME ~rend.leak, Writing PROVE Writing'
    BY DEF WrittenOK, ShutBlocks, Shut, Walk, Trails
  <1>2. calls \in Seq(CallToks(Here))
    BY HereFacts DEF IInv
  <1>3. ASSUME NEW k \in {"title"} \cup Links PROVE Pending(k)' <=> Pending(k)
    <2>1. Head(calls).k # k
      OBVIOUS
    <2>2. Has(calls, k) <=> Head(calls).k = k \/ Has(Tail(calls), k)
      BY <1>2, HasFirst
    <2>3. Pending(k)' <=> Has(Tail(calls), k)
      BY DEF Pending, Has
    <2> QED
      BY <2>1, <2>2, <2>3 DEF Pending
  <1>4. Pending("endlink")' <=> Pending("endlink")
    BY <1>3 DEF Links
  <1>5. Pending("endabbr")' <=> Pending("endabbr")
    BY <1>3 DEF Links
  <1>6. LinkEl' = LinkEl
    BY <1>4, <1>5 DEF LinkEl
  <1>7. Titling'
    <2>1. SUFFICES ASSUME Pending("title") PROVE Headed(rend.res) /\ Unheaded(Tail(calls))
      BY <1>3 DEF Titling, Headed, Unheaded
    <2>2. calls[1] # Begin("h")
      <3>1. Begin("h").k = "begin"
        BY BeginEnd DEF Elements
      <3>2. calls[1] = Head(calls)
        BY <1>2, HeadAndTail
      <3> QED
        BY <3>1, <3>2
    <2>3. Headed(rend.res) /\ Unheaded(calls)
      BY <1>1, <2>1, <2>2 DEF Writing, Titling
    <2> QED
      BY <1>2, <2>3, UnheadedTail
  <1>8. Stands(rend, LinkEl)'
    BY <1>1, <1>6 DEF Writing, Stands, Layered, Walk, Trails
  <1> QED
    BY <1>1, <1>4, <1>5, <1>7, <1>8 DEF Writing

LEMMA PNoteNests == ASSUME IInv, WrittenOK, PNote PROVE WrittenOK'
  <1>1. Calling({"notes"})
    BY DEF PNote
  <1>2. /\ calls # <<>> /\ Cl = Head(calls) /\ Cl \in CallToks(Here) /\ Cl.k \in {"notes"}
        /\ rend \in Rends /\ rend.err = "" /\ Spelt(rend) /\ ~done
    BY <1>1, CallFacts DEF Spelt
  <1>3. Head(calls).k \notin {"begin", "title"} \cup Links
    BY <1>2 DEF Links
  <1> DEFINE note == Head(Cl.kid)
             h == Heed(rend, note)
             t == [Cl EXCEPT !.kid = Tail(@)]
             cs == <<t>>
  <1>4. CASE Does(rend, <<>>)
    BY <1>2, <1>3, <1>4, DoesAlike, StaysMove
  <1>5. CASE Cl.kid # <<>> /\ Understood(rend, note) /\ Turns(h, cs)
    <2>1. note.txt \in Seq(Strings) /\ Apt(note)
      BY <1>1, <1>5, NoteFacts
    <2>2. t \in CallToks(Here) /\ t.k = "notes"
      BY <1>2, <1>5, OnNoteFacts
    <2>3. Turns(h, cs) /\ Understood(rend, note)
      BY <1>5
    <2> HIDE DEF t, note
    <2>4. SameText(h, rend) /\ h.mode = rend.mode
      <3>1. Heeded(rend, h, note)
        BY <1>2, <2>1, <2>3, HeedFacts
      <3> QED
        BY <3>1 DEF Heeded, SameText
    <2> HIDE DEF h
    <2>5. Moves(rend, h, LinkEl)
      BY <2>4, SameMoves
    <2>6. Quiet(t)
      BY <2>2 DEF Quiet, Links
    <2>7. cs \in Seq(CallToks(Here)) /\ Loose(cs) /\ Unheaded(cs)
      BY <2>2, <2>6, OneQuiet
    <2> HIDE DEF cs
    <2> QED
      BY <1>2, <1>3, <2>3, <2>4, <2>5, <2>7, TurnMoves
  <1>6. CASE rend' = rend /\ calls' = Tail(calls)
    BY <1>2, <1>3, <1>6, TailNests
  <1>7. \/ Does(rend, <<>>)
        \/ Cl.kid # <<>> /\ Understood(rend, note) /\ Turns(h, cs)
        \/ rend' = rend /\ calls' = Tail(calls)
    BY Zenon DEF PNote, Turns
  <1> QED
    BY <1>4, <1>5, <1>6, <1>7

LEMMA DoesLinks ==
  ASSUME IInv, WrittenOK, ~done, calls # <<>>, Head(calls).k \notin {"begin", "title"},
         NEW r, r.blocks = rend.blocks, r.title = rend.title, r.stack = rend.stack, rend.leak => r.leak,
         r.styles = rend.styles,
         NEW cs \in Seq(CallToks(Here)), Does(r, cs), ~Has(cs, "title"), Unheaded(cs),
         NEW l, LinkEl' = l,
         ~r.leak /\ Writing => Stands(r, l) /\ (Headed(rend.res) => Headed(r.res)),
         ~Pending("endlink")' /\ ~Pending("endabbr")' => r.floor = 0
  PROVE  WrittenOK'
  <1>1. rend' = r /\ calls' = cs \o Tail(calls)
    BY DEF Does
  <1>2. SUFFICES ASSUME ~r.leak PROVE ShutBlocks(r) /\ Writing'
    BY <1>1 DEF WrittenOK, ShutBlocks, Shut
  <1>3. ShutBlocks(rend) /\ Writing
    BY <1>2 DEF WrittenOK
  <1>4. ShutBlocks(r)
    BY <1>3 DEF ShutBlocks
  <1>5. Stands(r, l) /\ (Headed(rend.res) => Headed(r.res))
    BY <1>2, <1>3
  <1>6. r.styles # <<>> => r.stack # <<>>
    BY <1>3 DEF Writing
  <1>7. Titling'
    <2>1. calls \in Seq(CallToks(Here)) /\ TypeOK
      BY HereFacts DEF IInv
    <2>2. Pending("title")' => Pending("title")
      <3>1. /\ Pending("title")' <=> Has(cs, "title") \/ Has(Tail(calls), "title")
            /\ Pending("title") <=> Head(calls).k = "title" \/ Has(Tail(calls), "title")
        BY <2>1, DoesPending
      <3> QED
        BY <3>1
    <2>3. SUFFICES ASSUME Pending("title") PROVE Headed(r.res) /\ Unheaded(cs \o Tail(calls))
      BY <1>1, <2>2 DEF Titling, Headed, Unheaded
    <2>4. calls[1] # Begin("h") /\ Tail(calls) \in Seq(CallToks(Here))
      <3>1. Begin("h").k = "begin"
        BY BeginEnd DEF Elements
      <3>2. calls[1] = Head(calls) /\ Tail(calls) \in Seq(CallToks(Here))
        BY <2>1, HeadAndTail
      <3> QED
        BY <3>1, <3>2
    <2>5. Headed(rend.res) /\ Unheaded(calls)
      BY <1>3, <2>3, <2>4 DEF Writing, Titling
    <2>6. Unheaded(Tail(calls))
      BY <2>1, <2>5, UnheadedTail
    <2> QED
      BY <1>5, <2>4, <2>5, <2>6, UnheadedJoin
  <1>8. Stands(r, LinkEl)'
    <2>1. Stands(r, LinkEl')
      BY <1>5
    <2> QED
      BY <2>1 DEF Stands, Layered, Walk, Trails
  <1> QED
    BY <1>1, <1>4, <1>6, <1>7, <1>8 DEF Writing, Stands, Layered

LEMMA LinkTags ==
  ASSUME NEW x \in {"a", "abbr"}
  PROVE  x \in Strings /\ x \notin Single /\ x # "h" /\ <<x>> \in Stacks
  <1>1. x \in Strings /\ x \notin Single /\ x # "h"
    BY DEF Strings, Single
  <1> QED
    BY <1>1, OneOf DEF Stacks

LEMMA OpensLink ==
  ASSUME NEW r \in Rends, r.floor = 0, Stands(r, <<>>),
         NEW q, q.styles = r.styles, q.stack = r.stack, q.floor = Len(r.styles),
         NEW l, \/ l = <<>> /\ q.res = r.res
                \/ \E x \in {"a", "abbr"} : l = <<x>> /\ q.res = Append(r.res, <<"+", x>>)
  PROVE  Stands(q, l) /\ (Headed(r.res) => Headed(q.res))
  <1> DEFINE none == <<>>
  <1>1. PICK u, v \in Seq(Fonts) : Layered(r, none, u, v)
    BY DEF Stands
  <1>2. r.styles = u \o v /\ Len(v) = 0 /\ Walk(none, r.res, u \o (none \o (v \o r.stack)))
    BY <1>1 DEF Layered
  <1>3. v = none /\ none \in Seq(Fonts)
    BY <1>2, EmptySeq
  <1>4. r.res \in Seq(Html) /\ r.styles \in Seq(Fonts) /\ r.stack \in Stacks
    BY StylesType
  <1>5. r.styles \in Stacks /\ r.stack \in Seq(Strings) /\ r.styles \in Seq(Strings)
    BY <1>4, StylesStack DEF Stacks
  <1> DEFINE b == r.styles \o r.stack
  <1>6. b \in Stacks /\ b \in Seq(Strings)
    BY <1>5, JoinFacts DEF Stacks
  <1>7. u = r.styles
    BY <1>2, <1>3, NoneJoin
  <1>8. Walk(none, r.res, b)
    <2>1. none \o (none \o r.stack) = r.stack /\ none \o r.stack = r.stack
      BY <1>5, NoneJoin
    <2> QED
      BY <1>2, <1>3, <1>7, <2>1
  <1> HIDE DEF none, b
  <1>9. CASE l = none /\ q.res = r.res
    <2>1. none \o b = b /\ none \o r.styles = r.styles
      BY <1>4, <1>6, NoneJoin DEF none
    <2>2. Layered(q, l, none, r.styles)
      BY <1>8, <1>9, <2>1 DEF Layered, b, none
    <2> QED
      BY <1>3, <1>4, <1>9, <2>2 DEF Stands
  <1>10. ASSUME NEW x \in {"a", "abbr"}, l = <<x>>, q.res = Append(r.res, <<"+", x>>)
         PROVE  Stands(q, l) /\ (Headed(r.res) => Headed(q.res))
    <2>1. x \in Strings /\ x \notin Single /\ x # "h" /\ l \in Stacks
      BY <1>10, LinkTags
    <2>2. Walk(<<>>, q.res, l \o b) /\ (Headed(r.res) => Headed(q.res))
      BY <1>4, <1>8, <1>10, <2>1, OpensOn DEF none
    <2> DEFINE k == l \o b
    <2>3. none \o k = k /\ none \o r.styles = r.styles
      <3>1. k \in Seq(Strings)
        BY <1>6, <2>1, JoinFacts DEF Stacks
      <3> HIDE DEF k
      <3> QED
        BY <1>4, <3>1, NoneJoin DEF none
    <2>4. Layered(q, l, none, r.styles)
      BY <2>2, <2>3 DEF Layered, b, none
    <2> QED
      BY <1>3, <1>4, <2>2, <2>4 DEF Stands
  <1> QED
    BY <1>9, <1>10 DEF none

LEMMA ShutsLink ==
  ASSUME NEW r \in Rends, NEW l, Stands(r, l), Len(r.styles) = r.floor,
         NEW q, q.styles = r.styles, q.stack = r.stack, q.floor = 0,
         \/ l = <<>> /\ q.res = r.res
         \/ \E x \in {"a", "abbr"} : l = <<x>> /\ q.res = Append(r.res, <<"-", x>>)
  PROVE  Stands(q, <<>>) /\ (Headed(r.res) => Headed(q.res))
  <1> DEFINE none == <<>>
  <1>1. PICK u, v \in Seq(Fonts) : Layered(r, l, u, v)
    BY DEF Stands
  <1>2. r.styles = u \o v /\ Len(v) = r.floor /\ Walk(none, r.res, u \o (l \o (v \o r.stack)))
    BY <1>1 DEF Layered
  <1>3. u = none /\ none \in Seq(Fonts)
    <2>1. Len(u \o v) = Len(u) + Len(v)
      BY JoinFacts
    <2>2. Len(u) \in Nat /\ Len(v) \in Nat
      OBVIOUS
    <2>3. Len(u) = 0
      BY <1>2, <2>1, <2>2
    <2> QED
      BY <2>3, EmptySeq
  <1>4. r.res \in Seq(Html) /\ r.styles \in Seq(Fonts) /\ r.stack \in Stacks
    BY StylesType
  <1>5. r.styles \in Stacks /\ r.stack \in Seq(Strings) /\ r.styles \in Seq(Strings)
    BY <1>4, StylesStack DEF Stacks
  <1> DEFINE b == r.styles \o r.stack
  <1>6. b \in Stacks /\ b \in Seq(Strings)
    BY <1>5, JoinFacts DEF Stacks
  <1>7. v = r.styles
    BY <1>2, <1>3, NoneJoin
  <1>8. l \in Seq(Strings)
    <2>1. l = <<>> \/ \E x \in {"a", "abbr"} : l = <<x>>
      OBVIOUS
    <2> QED
      BY <2>1, LinkTags, Plainly DEF Stacks
  <1> DEFINE k == l \o b
  <1>9. Walk(none, r.res, k)
    <2>1. k \in Seq(Strings)
      BY <1>6, <1>8, JoinFacts
    <2>2. none \o k = k
      BY <2>1, NoneJoin
    <2> QED
      BY <1>2, <1>3, <1>7, <2>2
  <1>10. Walk(none, q.res, b) => Stands(q, none)
    <2>1. none \o r.stack = r.stack /\ none \o (none \o r.stack) = r.stack /\ r.styles \o none = r.styles
      BY <1>4, <1>5, NoneJoin
    <2>2. Len(none) = 0
      BY LenNone
    <2>3. Walk(none, q.res, b) => Layered(q, none, r.styles, none)
      BY <2>1, <2>2 DEF Layered
    <2> QED
      BY <1>3, <1>4, <2>3 DEF Stands
  <1> HIDE DEF none, b, k
  <1>11. CASE l = none /\ q.res = r.res
    <2>1. k = b
      BY <1>6, <1>11, NoneJoin DEF none, k
    <2> QED
      BY <1>9, <1>10, <1>11, <2>1 DEF none
  <1>12. ASSUME NEW x \in {"a", "abbr"}, l = <<x>>, q.res = Append(r.res, <<"-", x>>)
         PROVE  Stands(q, <<>>) /\ (Headed(r.res) => Headed(q.res))
    <2>1. x \in Strings /\ x # "h"
      BY LinkTags
    <2>2. Walk(<<>>, r.res, <<x>> \o b)
      BY <1>9, <1>12 DEF k, none
    <2>3. Walk(<<>>, q.res, b) /\ (Headed(r.res) => Headed(q.res))
      BY <1>4, <1>6, <1>12, <2>1, <2>2, ClosesOn
    <2> QED
      BY <1>10, <2>3 DEF none
  <1> QED
    BY <1>11, <1>12 DEF none

LEMMA BrLinkNests == ASSUME IInv, WrittenOK, BrLink PROVE WrittenOK'
  <1>1. /\ calls # <<>> /\ Cl = Head(calls) /\ Cl.k \in {"[["} /\ Cl.txt \in Seq(Strings)
        /\ rend \in Rends /\ ~done
    BY CallFacts DEF BrLink
  <1> DEFINE p == SplitLink(rend, Cl.txt)
             r1 == Put(rend, "[[")
             t1 == InnerText("text", Cl.txt)
             u1 == Text("plain", <<"]]">>)
             r2 == Plain(rend, p.text)
             s == LinkStart(rend, p)
             r3 == SetStyleBarrier(s)
             t3 == InnerText("ltext", p.text)
             u3 == Text("endlink", <<>>)
  <1>2. Does(r1, Two(t1, u1)) \/ Does(r2, <<>>) \/ (p.text # <<>> /\ Does(r3, Two(t3, u3)))
    BY Zenon DEF BrLink, LinkStart, Two
  <1>3. p.text \in Seq(Strings) /\ p.link \in Seq(Strings)
    BY <1>1, SplitLinkFacts
  <1> HIDE DEF p
  <1>4. Head(calls).k \notin {"begin", "title"} \cup Links
    BY <1>1 DEF Links
  <1>5. ASSUME Does(r1, Two(t1, u1)) PROVE WrittenOK'
    <2>1. "[[" \in Strings /\ "]]" \in Strings
      BY DEF Strings, Opener
    <2>2. Alike(r1, rend) /\ Moves(rend, r1, LinkEl)
      BY <1>1, <2>1, PutFacts, SaysMove
    <2>3. t1 \in CallToks(Here)
      BY <1>1, InnerNests
    <2>4. t1.k = "text"
      BY <1>1, InnerNests
    <2>5. u1 \in CallToks(Here) /\ u1.k = "plain"
      <3>1. <<"]]">> \in Seq(Strings)
        BY <2>1
      <3> QED
        BY <3>1, TextType
    <2> HIDE DEF t1, u1, r1
    <2>6. Quiet(t1) /\ Quiet(u1)
      BY <2>4, <2>5 DEF Quiet, Links
    <2> DEFINE cs == Two(t1, u1)
    <2>7. cs \in Seq(CallToks(Here)) /\ Loose(cs) /\ Unheaded(cs) /\ Does(r1, cs)
      BY <1>5, <2>3, <2>5, <2>6, TwoQuiet
    <2> HIDE DEF cs
    <2> QED
      BY <1>1, <1>4, <2>2, <2>7, DoesMoves DEF Alike
  <1>6. ASSUME Does(r2, <<>>) PROVE WrittenOK'
    <2>1. Alike(r2, rend) /\ Moves(rend, r2, LinkEl)
      BY <1>1, <1>3, PlainFacts, SaysMove
    <2> HIDE DEF r2
    <2> QED
      BY <1>1, <1>4, <1>6, <2>1, DoesAlike DEF Alike
  <1>7. ASSUME p.text # <<>>, Does(r3, Two(t3, u3)) PROVE WrittenOK'
    <2>1. /\ s \in Rends /\ s.stack = rend.stack /\ s.styles = rend.styles
          /\ s.leak = rend.leak /\ s.blocks = rend.blocks
          /\ s.title = rend.title /\ s.mode = rend.mode /\ s.floor = Len(rend.styles)
          /\ s.res = IF rend.mode.links THEN Append(rend.res, <<"+", "a">>) ELSE rend.res
      BY <1>1, <1>3, <1>7, LinkStartFacts
    <2> HIDE DEF s
    <2>2. SameText(r3, s) /\ r3.mode = s.mode
      BY <2>1, BarrierFacts DEF SameText
    <2>3. t3 \in CallToks(Here)
      BY <1>1, <1>3, InnerNests
    <2>4. t3.k = "ltext"
      BY <1>1, <1>3, InnerNests
    <2>5. u3 \in CallToks(Here) /\ u3.k = "endlink"
      BY TextType, Plainly DEF Links
    <2> HIDE DEF t3, u3, r3
    <2> DEFINE cs == Two(t3, u3)
    <2>6. cs \in Seq(CallToks(Here)) /\ Does(r3, cs) /\ \A k : Has(cs, k) <=> t3.k = k \/ u3.k = k
      BY <1>7, <2>3, <2>5, TwoCalls, HasTwo
    <2>7. Unheaded(cs)
      BY <2>3, <2>4, <2>5, TwoCalls DEF Unheaded
    <2>8. ~Has(cs, "title")
      BY <2>4, <2>5, <2>6
    <2>9. ~Has(Tail(calls), "endlink") /\ ~Has(Tail(calls), "endabbr")
      BY <1>1, NoneLeft DEF Before, Links
    <2>10. /\ ~Pending("endlink") /\ ~Pending("endabbr") /\ Pending("endlink")' /\ ~Pending("endabbr")'
      BY <1>1, <1>7, <2>3, <2>4, <2>5, <2>9, PendingTwo
    <2> HIDE DEF cs
    <2> DEFINE l == IF rend.mode.links THEN <<"a">> ELSE <<>>
    <2>11. rend' = r3
      BY <1>7 DEF Does
    <2>12. LinkEl' = l
      BY <2>1, <2>2, <2>10, <2>11 DEF LinkEl
    <2>13. /\ r3.styles = rend.styles /\ r3.stack = rend.stack /\ r3.floor = Len(rend.styles)
           /\ r3.blocks = rend.blocks /\ r3.title = rend.title /\ r3.leak = rend.leak /\ r3.res = s.res
      BY <2>1, <2>2 DEF SameText
    <2>14. \/ l = <<>> /\ r3.res = rend.res
           \/ \E x \in {"a", "abbr"} : l = <<x>> /\ r3.res = Append(rend.res, <<"+", x>>)
      BY <2>1, <2>13
    <2> HIDE DEF l
    <2>15. ASSUME Writing PROVE Stands(r3, l) /\ (Headed(rend.res) => Headed(r3.res))
      <3>1. rend.floor = 0 /\ LinkEl = <<>> /\ Stands(rend, LinkEl)
        BY <2>10, <2>15 DEF Writing, LinkEl
      <3>2. Stands(rend, <<>>)
        BY <3>1
      <3> QED
        BY <1>1, <2>13, <2>14, <3>1, <3>2, OpensLink
    <2>16. rend.leak => r3.leak
      BY <2>13
    <2> QED
      BY <1>1, <1>4, <2>6, <2>7, <2>8, <2>10, <2>12, <2>13, <2>15, <2>16, DoesLinks
  <1> QED
    BY <1>2, <1>5, <1>6, <1>7

LEMMA ShowAbbrNests == ASSUME IInv, WrittenOK, ShowAbbr PROVE WrittenOK'
  <1>1. /\ calls # <<>> /\ Args \in Seq(Strings) /\ rend \in Rends /\ ~done
        /\ Cl = Head(calls) /\ Cl.k = "{{" /\ Head(calls).k \notin {"begin", "title"}
    BY MacroCall DEF ShowAbbr
  <1> DEFINE o == OpenInline(rend, "abbr")
             ab == Abbr(Args)
             r == [o EXCEPT !.abbrs = @ \cup {ab}]
             t == InnerText("ltext", ab)
             u == Text("endabbr", <<>>)
             cs == Two(t, u)
             l == <<"abbr">>
  <1>2. Does(r, cs)
    BY DEF ShowAbbr, Two
  <1>3. ab \in Seq(Strings)
    BY <1>1, AbbrType
  <1>4. "abbr" \in Strings
    BY DEF Strings
  <1>5. /\ o \in Rends /\ o.stack = rend.stack /\ o.styles = rend.styles /\ o.floor = Len(rend.styles)
        /\ o.res = Append(rend.res, <<"+", "abbr">>)
        /\ o.leak = rend.leak /\ o.blocks = rend.blocks /\ o.title = rend.title /\ o.mode = rend.mode
    BY <1>1, <1>4, InlineFacts
  <1> HIDE DEF o, ab
  <1>6. t \in CallToks(Here) /\ t.k = "ltext" /\ u \in CallToks(Here) /\ u.k = "endabbr"
    BY <1>1, <1>3, InnerNests, TextType, Plainly DEF Links
  <1> HIDE DEF t, u
  <1>7. SameText(r, o)
    BY <1>5 DEF Rends, SameText
  <1> HIDE DEF r
  <1>8. /\ r.styles = rend.styles /\ r.stack = rend.stack /\ r.floor = Len(rend.styles)
        /\ r.blocks = rend.blocks /\ r.title = rend.title /\ r.leak = rend.leak
        /\ r.res = Append(rend.res, <<"+", "abbr">>)
    BY <1>5, <1>7 DEF SameText
  <1>9. cs \in Seq(CallToks(Here)) /\ \A k : Has(cs, k) <=> t.k = k \/ u.k = k
    BY <1>6, TwoCalls, HasTwo
  <1>10. Unheaded(cs)
    BY <1>6, TwoCalls DEF Unheaded
  <1>11. ~Has(cs, "title")
    BY <1>6, <1>9
  <1>12. ~Has(Tail(calls), "endlink") /\ ~Has(Tail(calls), "endabbr")
    BY <1>1, NoneLeft DEF Before, Links
  <1>13. ~Pending("endlink") /\ ~Pending("endabbr") /\ Pending("endabbr")'
    BY <1>1, <1>2, <1>6, <1>12, PendingTwo
  <1> HIDE DEF cs
  <1>14. LinkEl' = l
    BY <1>13 DEF LinkEl
  <1> HIDE DEF l
  <1>15. ASSUME Writing PROVE Stands(r, l) /\ (Headed(rend.res) => Headed(r.res))
    <2>1. rend.floor = 0 /\ LinkEl = <<>> /\ Stands(rend, LinkEl)
      BY <1>13, <1>15 DEF Writing, LinkEl
    <2>2. Stands(rend, <<>>)
      BY <2>1
    <2>3. \E x \in {"a", "abbr"} : l = <<x>> /\ r.res = Append(rend.res, <<"+", x>>)
      BY <1>8 DEF l
    <2> QED
      BY <1>1, <1>8, <2>1, <2>2, <2>3, OpensLink
  <1>16. rend.leak => r.leak
    BY <1>8
  <1> QED
    BY <1>1, <1>2, <1>8, <1>9, <1>10, <1>11, <1>13, <1>14, <1>15, <1>16, DoesLinks

LEMMA EndsAbbrNests == ASSUME IInv, WrittenOK, EndsAbbr PROVE WrittenOK'
  <1>1. /\ calls # <<>> /\ Cl = Head(calls) /\ Cl.k \in {"endabbr"} /\ rend \in Rends /\ ~done
    BY CallFacts DEF EndsAbbr
  <1> DEFINE r == CloseInline(rend, "abbr")
             cs == <<>>
             l == <<>>
  <1>2. "abbr" \in Strings
    BY DEF Strings
  <1>3. /\ r.styles = rend.styles /\ r.stack = rend.stack /\ r.floor = 0
        /\ r.blocks = rend.blocks /\ r.title = rend.title
        /\ r.leak = (rend.leak \/ Len(rend.styles) # rend.floor)
        /\ r.res = Append(rend.res, <<"-", "abbr">>)
    BY <1>1, <1>2, InlineFacts
  <1>4. Does(r, cs)
    BY DEF EndsAbbr
  <1> HIDE DEF r
  <1>5. cs \in Seq(CallToks(Here)) /\ ~Has(cs, "title") /\ Unheaded(cs)
    BY Unsaid, NoneFacts
  <1>6. ~Has(Tail(calls), "endlink") /\ ~Has(Tail(calls), "endabbr")
    BY <1>1, NoneLeft DEF Before, Links
  <1>7. Pending("endabbr") /\ ~Pending("endlink")' /\ ~Pending("endabbr")'
    BY <1>1, <1>4, <1>6, PendingLast
  <1> HIDE DEF cs
  <1>8. LinkEl' = l
    BY <1>7 DEF LinkEl
  <1>9. rend.leak => r.leak
    BY <1>3
  <1>10. ASSUME ~r.leak, Writing PROVE Stands(r, l) /\ (Headed(rend.res) => Headed(r.res))
    <2>1. Len(rend.styles) = rend.floor
      BY <1>3, <1>10, Zenon
    <2> DEFINE k == <<"abbr">>
    <2>2. LinkEl = k /\ Stands(rend, LinkEl)
      BY <1>7, <1>10 DEF Writing, LinkEl
    <2>3. Stands(rend, k)
      BY <2>2
    <2>4. \E x \in {"a", "abbr"} : k = <<x>> /\ r.res = Append(rend.res, <<"-", x>>)
      BY <1>3
    <2> HIDE DEF k
    <2> QED
      BY <1>1, <1>3, <2>1, <2>3, <2>4, ShutsLink
  <1> HIDE DEF l
  <1>11. Head(calls).k \notin {"begin", "title"}
    BY <1>1
  <1> QED
    BY <1>1, <1>3, <1>4, <1>5, <1>8, <1>9, <1>10, <1>11, DoesLinks

LEMMA EndsLinkNests == ASSUME IInv, WrittenOK, EndsLink PROVE WrittenOK'
  <1>1. /\ calls # <<>> /\ Cl = Head(calls) /\ Cl.k \in {"endlink"} /\ rend \in Rends /\ ~done
    BY CallFacts DEF EndsLink
  <1> DEFINE c == CloseInline(rend, "a")
             d == [c EXCEPT !.res = rend.res]
             s == IF rend.mode.links THEN c ELSE d
             r == ClearStyleBarrier(s)
             cs == <<>>
             l == <<>>
  <1>2. Does(r, cs)
    BY DEF EndsLink
  <1>3. "a" \in Strings
    BY DEF Strings
  <1>4. /\ c \in Rends /\ c.styles = rend.styles /\ c.stack = rend.stack /\ c.floor = 0
        /\ c.blocks = rend.blocks /\ c.title = rend.title
        /\ c.leak = (rend.leak \/ Len(rend.styles) # rend.floor)
        /\ c.res = Append(rend.res, <<"-", "a">>)
    BY <1>1, <1>3, InlineFacts
  <1> HIDE DEF c
  <1>5. d \in Rends /\ Alike(d, c) /\ d.res = rend.res
    BY <1>1, <1>4, StylesType, ResFacts
  <1> HIDE DEF d
  <1>6. /\ s \in Rends /\ s.styles = rend.styles /\ s.stack = rend.stack /\ s.floor = 0
        /\ s.blocks = rend.blocks /\ s.title = rend.title /\ s.leak = c.leak
        /\ s.res = IF rend.mode.links THEN Append(rend.res, <<"-", "a">>) ELSE rend.res
    BY <1>4, <1>5 DEF Alike
  <1> HIDE DEF s
  <1>7. SameText(r, s)
    BY <1>6, BarrierFacts DEF SameText
  <1> HIDE DEF r
  <1>8. /\ r.styles = rend.styles /\ r.stack = rend.stack /\ r.floor = 0
        /\ r.blocks = rend.blocks /\ r.title = rend.title /\ r.leak = c.leak
        /\ r.res = IF rend.mode.links THEN Append(rend.res, <<"-", "a">>) ELSE rend.res
    BY <1>6, <1>7 DEF SameText
  <1>9. cs \in Seq(CallToks(Here)) /\ ~Has(cs, "title") /\ Unheaded(cs)
    BY Unsaid, NoneFacts
  <1>10. ~Has(Tail(calls), "endlink") /\ ~Has(Tail(calls), "endabbr")
    BY <1>1, NoneLeft DEF Before, Links
  <1>11. Pending("endlink") /\ ~Pending("endabbr") /\ ~Pending("endlink")' /\ ~Pending("endabbr")'
    BY <1>1, <1>2, <1>10, PendingLast
  <1> HIDE DEF cs
  <1>12. LinkEl' = l
    BY <1>11 DEF LinkEl
  <1>13. rend.leak => r.leak
    BY <1>4, <1>8
  <1>14. ASSUME ~r.leak, Writing PROVE Stands(r, l) /\ (Headed(rend.res) => Headed(r.res))
    <2>1. ~c.leak
      BY <1>8, <1>14
    <2>2. Len(rend.styles) = rend.floor
      BY <1>4, <2>1, Zenon
    <2> DEFINE k == IF rend.mode.links THEN <<"a">> ELSE <<>>
    <2>3. LinkEl = k /\ Stands(rend, LinkEl)
      BY <1>11, <1>14 DEF Writing, LinkEl
    <2>4. Stands(rend, k)
      BY <2>3
    <2>5. \/ k = <<>> /\ r.res = rend.res
          \/ \E x \in {"a", "abbr"} : k = <<x>> /\ r.res = Append(rend.res, <<"-", x>>)
      BY <1>8
    <2> HIDE DEF k
    <2> QED
      BY <1>1, <1>8, <2>2, <2>4, <2>5, ShutsLink
  <1> HIDE DEF l
  <1>15. Head(calls).k \notin {"begin", "title"}
    BY <1>1
  <1> QED
    BY <1>1, <1>2, <1>8, <1>9, <1>12, <1>13, <1>14, <1>15, DoesLinks

-----------------------------------------------------------------------------
(* Calls that begin and end elements.                                      *)

LEMMA JoinNone ==
  ASSUME NEW S, NEW u \in Seq(S), NEW v \in Seq(S), u \o v = <<>>
  PROVE  u = <<>> /\ v = <<>>
  <1>1. Len(u \o v) = Len(u) + Len(v)
    BY JoinFacts
  <1>2. Len(u \o v) = 0
    BY LenNone
  <1>3. Len(u) \in Nat /\ Len(v) \in Nat
    OBVIOUS
  <1>4. Len(u) = 0 /\ Len(v) = 0
    BY <1>1, <1>2, <1>3
  <1> QED
    BY <1>4, EmptySeq

LEMMA StandsPlain ==
  ASSUME NEW r, r.styles \in Seq(Fonts), r.stack \in Seq(Strings), r.floor = 0
  PROVE  Stands(r, <<>>) <=> Walk(<<>>, r.res, r.styles \o r.stack)
  <1> DEFINE none == <<>>
  <1>1. none \o r.stack = r.stack /\ none \o (none \o r.stack) = r.stack
    BY NoneJoin
  <1>2. none \in Seq(Fonts) /\ Len(none) = 0
    BY NoneFacts
  <1>3. r.styles \o none = r.styles
    BY NoneJoin
  <1>4. ASSUME Stands(r, none) PROVE Walk(none, r.res, r.styles \o r.stack)
    <2>1. PICK u, v \in Seq(Fonts) : Layered(r, none, u, v)
      BY <1>4 DEF Stands
    <2>2. r.styles = u \o v /\ Len(v) = 0 /\ Walk(none, r.res, u \o (none \o (v \o r.stack)))
      BY <2>1 DEF Layered
    <2>3. v = none
      BY <2>2, EmptySeq
    <2>4. u = r.styles
      BY <2>2, <2>3, NoneJoin
    <2> QED
      BY <1>1, <2>2, <2>3, <2>4
  <1>5. ASSUME Walk(none, r.res, r.styles \o r.stack) PROVE Stands(r, none)
    <2>1. Layered(r, none, r.styles, none)
      BY <1>1, <1>2, <1>3, <1>5 DEF Layered
    <2> QED
      BY <1>2, <2>1 DEF Stands
  <1> QED
    BY <1>4, <1>5

LEMMA StyleEnds ==
  ASSUME NEW r \in Rends, Walk(<<>>, r.res, r.styles \o r.stack)
  PROVE  LET h == r.res \o Ends(r.styles)
         IN Walk(<<>>, h, r.stack) /\ h \in Seq(Html) /\ (Headed(r.res) => Headed(h))
  <1> DEFINE s == r.styles
             g == Ends(s)
  <1>1. s \in Seq(Strings) /\ s \in Seq(Fonts) /\ r.stack \in Stacks /\ r.res \in Seq(Html)
    BY StylesType
  <1>2. s \in Stacks
    BY <1>1 DEF Stacks
  <1>3. Walk(s \o r.stack, g, r.stack) /\ g \in Seq(Html)
    BY <1>1, <1>2, EndsWalk
  <1>4. Len(g) = Len(s) /\ \A i \in 1 .. Len(s) : g[i] = <<"-", s[i]>> /\ s[i] \in Fonts
    BY <1>1, EndsFacts
  <1> HIDE DEF g, s
  <1>5. r.res \in Seq(Marks_) /\ g \in Seq(Marks_)
    BY <1>1, <1>3, HtmlMarks
  <1>6. Walk(<<>>, r.res \o g, r.stack)
    BY <1>3, <1>5, WalkJoin DEF s
  <1>7. r.res \o g \in Seq(Html)
    BY <1>1, <1>3, JoinFacts
  <1>8. \A i \in 1 .. Len(g) : g[i][1] # "t" => g[i][2] # "h"
    <2>1. "h" \notin Fonts
      BY DEF Fonts
    <2> QED
      BY <1>4, <2>1
  <1> QED
    BY <1>1, <1>3, <1>6, <1>7, <1>8, HeadedJoin DEF g, s

LEMMA WalkBack ==
  ASSUME NEW h \in Seq(Html), h # <<>>, NEW b, Walk(<<>>, h, b)
  PROVE  \E c \in Stacks : Walk(<<>>, Front(h), c) /\ Step(c, Last(h), b)
  <1> DEFINE f == Front(h)
             x == Last(h)
             o == <<x>>
  <1>1. f \in Seq(Html) /\ h = Append(f, x) /\ x \in Html
    BY FrontType
  <1>2. h = f \o o /\ o \in Seq(Html)
    BY <1>1, AppendIsConcat, OneOf
  <1>3. f \in Seq(Marks_) /\ o \in Seq(Marks_) /\ x \in Marks_
    BY <1>1, <1>2, HtmlMarks
  <1> HIDE DEF f, x, o
  <1>4. PICK c \in Stacks : Walk(<<>>, f, c) /\ Walk(c, o, b)
    BY <1>2, <1>3, WalkParts
  <1>5. b \in Stacks
    BY <1>3, <1>4, WalkStacks
  <1>6. Step(c, x, b)
    BY <1>3, <1>4, <1>5, WalkOne DEF o
  <1> QED
    BY <1>4, <1>6 DEF f, x

LEMMA PlusStep ==
  ASSUME NEW a \in Stacks, NEW e \in Strings, NEW b, Step(a, <<"+", e>>, b)
  PROVE  b = <<e>> \o a /\ Tail(b) = a
  <1> DEFINE x == <<"+", e>>
  <1>1. x[1] = "+" /\ x[2] = e
    OBVIOUS
  <1> HIDE DEF x
  <1>2. b = <<e>> \o a
    BY <1>1 DEF Step, x
  <1> QED
    BY <1>2, ConsFacts DEF Stacks

LEMMA HeadedFront ==
  ASSUME NEW h \in Seq(Html), Headed(h), Last(h)[2] # "h"
  PROVE  Headed(Front(h))
  <1> DEFINE f == Front(h)
             x == Last(h)
  <1>1. h # <<>> /\ h[1] = <<"+", "h">>
    BY DEF Headed
  <1>2. f \in Seq(Html) /\ h = Append(f, x) /\ x \in Html /\ Len(f) = Len(h) - 1
    BY <1>1, FrontType
  <1> HIDE DEF f, x
  <1>3. f # <<>>
    <2>1. SUFFICES ASSUME f = <<>> PROVE FALSE
      OBVIOUS
    <2>2. h[1] = x
      BY <1>2, <2>1
    <2>3. h[1][2] = "h"
      BY <1>1
    <2> QED
      BY <2>2, <2>3 DEF x
  <1>4. \A i \in 1 .. Len(f) : i \in 1 .. Len(h) /\ f[i] = h[i]
    BY <1>2
  <1>5. Len(f) \in Nat /\ Len(f) # 0
    BY <1>2, <1>3, EmptySeq
  <1>6. f[1] = h[1] /\ \A i \in 2 .. Len(f) : i \in 2 .. Len(h) /\ f[i] = h[i]
    BY <1>2, <1>4, <1>5
  <1> QED
    BY <1>1, <1>3, <1>6 DEF Headed, f

LEMMA EndStands ==
  ASSUME NEW r \in Rends, r.floor = 0, Stands(r, <<>>), NEW e \in Elements, NEW what \in Whats,
         r.stack # <<>>, Head(r.stack) = e
  PROVE  LET u == HandleEndAs(r, e, what)
         IN /\ Stands(u, <<>>) /\ u.floor = 0 /\ u.styles = <<>> /\ u.leak = r.leak
            /\ u.blocks # r.blocks =>
                 \E html : Shut(html) /\ u.blocks = Append(r.blocks, [what |-> what, html |-> html])
            /\ e # "h" /\ Headed(r.res) => Headed(u.res)
  <1> DEFINE u == HandleEndAs(r, e, what)
             h == r.res \o Ends(r.styles)
  <1>1. /\ u \in Rends /\ u.stack = Tail(r.stack) /\ u.styles = <<>> /\ u.floor = r.floor /\ u.leak = r.leak
        /\ \/ u.res = Front(h) /\ Last(h) = <<"+", e>> /\ u.blocks = r.blocks
           \/ u.res = Append(h, <<"-", e>>) /\ u.blocks = r.blocks
           \/ /\ u.res = <<>> /\ Tail(r.stack) = <<>>
              /\ u.blocks = Append(r.blocks, [what |-> what, html |-> Append(h, <<"-", e>>)])
    BY HandleEndFacts
  <1>2. r.styles \in Seq(Fonts) /\ r.stack \in Seq(Elements) /\ r.stack \in Seq(Strings)
    BY StylesType, StylesStack DEF Stacks
  <1>3. Walk(<<>>, r.res, r.styles \o r.stack)
    BY <1>2, StandsPlain
  <1>4. Walk(<<>>, h, r.stack) /\ h \in Seq(Html) /\ (Headed(r.res) => Headed(h))
    BY <1>3, StyleEnds
  <1> HIDE DEF u, h
  <1> DEFINE t == Tail(r.stack)
  <1>5. r.stack = <<e>> \o t /\ t \in Seq(Strings) /\ t \in Stacks /\ e \in Strings
    BY <1>2, HeadAndTail, Plainly DEF Stacks
  <1> HIDE DEF t
  <1>6. Stands(u, <<>>) <=> Walk(<<>>, u.res, t)
    <2>1. u.styles \in Seq(Fonts) /\ u.stack = t /\ u.stack \in Seq(Strings) /\ u.floor = 0
      BY <1>1, <1>5, NoneFacts DEF t
    <2>2. u.styles \o u.stack = t
      BY <1>1, <1>5, <2>1, NoneJoin
    <2> QED
      BY <2>1, <2>2, StandsPlain
  <1>7. Walk(<<>>, Append(h, <<"-", e>>), t) /\ (e # "h" /\ Headed(h) => Headed(Append(h, <<"-", e>>)))
    BY <1>4, <1>5, ClosesOn
  <1>8. CASE u.res = Front(h) /\ Last(h) = <<"+", e>> /\ u.blocks = r.blocks
    <2>1. h # <<>>
      <3>1. SUFFICES ASSUME h = <<>> PROVE FALSE
        OBVIOUS
      <3>2. Walk(<<>>, <<>>, r.stack)
        BY <1>4, <3>1
      <3> QED
        BY <3>2, WalkNothing
    <2>2. PICK c \in Stacks : Walk(<<>>, Front(h), c) /\ Step(c, <<"+", e>>, r.stack)
      BY <1>4, <1>8, <2>1, WalkBack
    <2>3. c = t
      BY <1>5, <2>2, PlusStep DEF t
    <2>4. e # "h" /\ Headed(h) => Headed(Front(h))
      <3>1. Last(h)[2] = e
        BY <1>8
      <3> QED
        BY <1>4, <3>1, HeadedFront
    <2> QED
      BY <1>1, <1>4, <1>6, <1>8, <2>2, <2>3, <2>4 DEF u
  <1>9. CASE u.res = Append(h, <<"-", e>>) /\ u.blocks = r.blocks
    BY <1>1, <1>4, <1>6, <1>7, <1>9 DEF u
  <1>10. CASE /\ u.res = <<>> /\ Tail(r.stack) = <<>>
              /\ u.blocks = Append(r.blocks, [what |-> what, html |-> Append(h, <<"-", e>>)])
    <2> DEFINE g == Append(h, <<"-", e>>)
    <2>1. t = <<>> /\ Shut(g)
      BY <1>7, <1>10 DEF Shut, t
    <2>2. Stands(u, <<>>)
      <3>1. <<>> \in Stacks
        BY NoneFacts DEF Stacks
      <3> QED
        BY <1>6, <1>10, <2>1, <3>1, WalkNothing
    <2>3. \E html : Shut(html) /\ u.blocks = Append(r.blocks, [what |-> what, html |-> html])
      BY <1>10, <2>1
    <2>4. ~(e # "h" /\ Headed(r.res))
      <3>1. SUFFICES ASSUME Headed(h) PROVE e = "h"
        BY <1>4
      <3> DEFINE x == "h"
                 s == r.stack
                 a == Upper(s)
      <3>2. Above(s, x)
        BY <1>4, <3>1, HeadedWalk
      <3> HIDE DEF x, s, a
      <3>3. a \in Stacks /\ s = a \o <<x>> /\ x \in Strings
        BY <3>2, Plainly DEF Above, a, x, Elements
      <3>4. s[Len(a) + 1] = x /\ Len(s) = Len(a) + 1
        BY <3>3, UpperFacts
      <3>5. Len(s) = 1 /\ s[1] = e
        <4>1. s = <<e>>
          BY <1>5, <2>1, NoneJoin DEF s
        <4> QED
          BY <4>1
      <3>6. Len(a) \in Nat
        BY <3>3 DEF Stacks
      <3>7. Len(a) + 1 = 1
        BY <3>4, <3>5, <3>6
      <3> QED
        BY <3>4, <3>5, <3>7 DEF x
    <2> QED
      BY <1>1, <2>2, <2>3, <2>4 DEF u
  <1> QED
    BY <1>1, <1>8, <1>9, <1>10

LEMMA ShutAppend ==
  ASSUME NEW r \in Rends, ShutBlocks(r), NEW u,
         u.blocks = r.blocks \/ \E what, html : Shut(html) /\ u.blocks = Append(r.blocks, [what |-> what, html |-> html]),
         Shut(u.title)
  PROVE  ShutBlocks(u)
  <1> DEFINE b == r.blocks
             A == [what : Whats, html : Seq(Html)]
  <1>1. b \in Seq(A) /\ \A i \in DOMAIN b : Shut(b[i].html)
    BY DEF Rends, ShutBlocks
  <1>2. CASE u.blocks = b
    BY <1>1, <1>2 DEF ShutBlocks
  <1>3. ASSUME NEW what, NEW html, Shut(html), u.blocks = Append(b, [what |-> what, html |-> html])
        PROVE  \A i \in DOMAIN u.blocks : Shut(u.blocks[i].html)
    <2> DEFINE n == [what |-> what, html |-> html]
    <2>1. n.html = html
      OBVIOUS
    <2> HIDE DEF b, n, A
    <2>2. u.blocks = Append(b, n)
      BY <1>3 DEF n
    <2>3. \A i \in DOMAIN Append(b, n) : (i \in DOMAIN b /\ Append(b, n)[i] = b[i]) \/ Append(b, n)[i] = n
      BY <1>1
    <2> QED
      BY <1>1, <1>3, <2>1, <2>2, <2>3
  <1> QED
    BY <1>2, <1>3 DEF ShutBlocks

\* Elements begin and end outside of links.
LEMMA DoesBlock ==
  ASSUME IInv, calls # <<>>, Head(calls).k \in {"begin", "end", "title"}, NEW r, Does(r, <<>>)
  PROVE  /\ ~Pending("endlink") /\ ~Pending("endabbr") /\ LinkEl = <<>>
         /\ ~Pending("endlink")' /\ ~Pending("endabbr")' /\ LinkEl' = <<>>
         /\ Pending("title")' => Pending("title") /\ Head(calls).k # "title"
         /\ rend' = r /\ calls' = Tail(calls) /\ Tail(calls) \in Seq(CallToks(Here))
         /\ calls \in Seq(CallToks(Here)) /\ calls[1] = Head(calls)
  <1>1. calls \in Seq(CallToks(Here))
    BY HereFacts DEF IInv
  <1>2. Tail(calls) \in Seq(CallToks(Here)) /\ calls[1] = Head(calls)
    BY <1>1, HeadAndTail
  <1>3. calls' = <<>> \o Tail(calls) /\ rend' = r
    BY DEF Does
  <1>4. calls' = Tail(calls)
    BY <1>2, <1>3, NoneJoin
  <1>5. ~Has(Tail(calls), "endlink") /\ ~Has(Tail(calls), "endabbr")
    BY NoneLeft DEF Before, Links
  <1>6. ~Pending("endlink") /\ ~Pending("endabbr") /\ ~Pending("endlink")' /\ ~Pending("endabbr")'
    BY <1>5, PendingLast
  <1>7. /\ Pending("title")' <=> Has(Tail(calls), "title")
        /\ Pending("title") <=> Head(calls).k = "title" \/ Has(Tail(calls), "title")
    BY PendingLast
  <1>8. Head(calls).k = "title" => ~Has(Tail(calls), "title")
    <2>1. SUFFICES ASSUME Head(calls).k = "title" PROVE ~Has(Tail(calls), "title")
      OBVIOUS
    <2> QED
      BY <2>1, NoneLeft DEF Before
  <1>9. LinkEl = <<>> /\ LinkEl' = <<>>
    BY <1>6 DEF LinkEl
  <1> QED
    BY <1>1, <1>2, <1>3, <1>4, <1>6, <1>7, <1>8, <1>9

LEMMA DoesElement ==
  ASSUME IInv, calls # <<>>, Head(calls).k \in {"begin", "end", "title"}, NEW r, Does(r, <<>>),
         ~r.leak => /\ ShutBlocks(r) /\ r.floor = 0 /\ Stands(r, <<>>)
                    /\ r.styles # <<>> => r.stack # <<>>
                    /\ Pending("title") /\ Head(calls).k # "title" => Headed(r.res) /\ Unheaded(Tail(calls))
  PROVE  WrittenOK'
  <1>1. /\ LinkEl' = <<>> /\ rend' = r /\ calls' = Tail(calls)
        /\ Pending("title")' => Pending("title") /\ Head(calls).k # "title"
    BY DoesBlock
  <1>2. SUFFICES ASSUME ~r.leak PROVE ShutBlocks(r) /\ Writing'
    BY <1>1 DEF WrittenOK, ShutBlocks, Shut
  <1>3. Stands(r, LinkEl)'
    <2>1. Stands(r, LinkEl')
      BY <1>1, <1>2
    <2> QED
      BY <2>1 DEF Stands, Layered, Walk, Trails
  <1>4. Titling'
    <2>1. Pending("title")' => Headed(r.res) /\ Unheaded(Tail(calls))
      BY <1>1, <1>2
    <2> QED
      BY <1>1, <2>1 DEF Titling, Headed, Unheaded
  <1> QED
    BY <1>1, <1>2, <1>3, <1>4 DEF Writing, Stands, Layered

LEMMA OneHeaded ==
  LET h == <<<<"+", "h">>>> IN h \in Seq(Html) /\ Headed(h) /\ <<"+", "h">> \in Html
  <1> DEFINE x == <<"+", "h">>
             h == <<x>>
  <1>1. x \in Html
    BY Plainly DEF Html, Elements
  <1> HIDE DEF x
  <1>2. h \in Seq(Html) /\ Len(h) = 1 /\ h[1] = x
    BY <1>1, OneOf
  <1>3. h # <<>>
    BY <1>2, LenNone
  <1>4. \A i \in 2 .. 1 : FALSE
    OBVIOUS
  <1> HIDE DEF h
  <1>5. Headed(h)
    BY <1>2, <1>3, <1>4 DEF Headed, x
  <1> QED
    BY <1>1, <1>2, <1>5 DEF h, x

LEMMA FirstIn ==
  ASSUME NEW S, NEW q \in Seq(S), q # <<>>
  PROVE  1 \in DOMAIN q
  <1>1. Len(q) \in Nat /\ Len(q) >= 1
    BY HeadAndTail
  <1> QED
    BY <1>1

LEMMA BeginStands ==
  ASSUME NEW r \in Rends, r.floor = 0, Stands(r, <<>>), r.styles = <<>>, NEW e \in Elements
  PROVE  LET b == HandleBegin(r, e)
         IN /\ Stands(b, <<>>) /\ b.floor = 0 /\ b.blocks = r.blocks /\ b.title = r.title
            /\ e # "h" /\ Headed(r.res) => Headed(b.res)
  <1> DEFINE b == HandleBegin(r, e)
  <1>1. /\ b.res = Append(r.res, <<"+", e>>) /\ b.stack = <<e>> \o r.stack
        /\ b.styles = r.styles /\ b.floor = r.floor /\ b.blocks = r.blocks /\ b.title = r.title
    BY HandleBeginFacts
  <1> HIDE DEF b
  <1>2. r.styles \in Seq(Fonts) /\ r.stack \in Seq(Strings) /\ r.res \in Seq(Html)
    BY StylesType DEF Stacks
  <1>3. r.styles \o r.stack = r.stack
    BY <1>2, NoneJoin
  <1>4. Walk(<<>>, r.res, r.stack)
    BY <1>2, <1>3, StandsPlain
  <1>5. e \in Strings /\ e \notin Single
    BY Plainly
  <1>6. Walk(<<>>, b.res, b.stack) /\ (e # "h" /\ Headed(r.res) => Headed(b.res))
    BY <1>1, <1>2, <1>4, <1>5, OpensOn
  <1>7. b.stack \in Seq(Strings)
    <2>1. <<e>> \in Seq(Strings)
      BY <1>5, OneOf
    <2> QED
      BY <1>1, <1>2, <2>1, JoinFacts
  <1>8. b.styles \o b.stack = b.stack
    BY <1>1, <1>7, NoneJoin
  <1>9. b.styles \in Seq(Fonts) /\ b.floor = 0
    BY <1>1, <1>2
  <1>10. Stands(b, <<>>)
    BY <1>6, <1>7, <1>8, <1>9, StandsPlain
  <1> QED
    BY <1>1, <1>6, <1>10 DEF b

LEMMA BeginsNests == ASSUME IInv, WrittenOK, Begins PROVE WrittenOK'
  <1>1. /\ calls # <<>> /\ Cl \in CallToks(Here) /\ Cl = Head(calls) /\ Cl.k \in {"begin"}
        /\ rend \in Rends /\ ~done
    BY CallFacts DEF Begins
  <1>2. Cl.k = "begin" /\ Cl.el \in Elements
    BY <1>1 DEF CallToks
  <1> DEFINE e == Cl.el
             r == HandleBegin(rend, e)
  <1>3. Does(r, <<>>)
    BY DEF Begins
  <1>4. /\ r.res = Append(rend.res, <<"+", e>>) /\ r.stack = <<e>> \o rend.stack
        /\ r.styles = rend.styles /\ r.floor = rend.floor /\ r.blocks = rend.blocks /\ r.title = rend.title
        /\ r.leak = (rend.leak \/ rend.styles # <<>>)
    BY <1>1, <1>2, HandleBeginFacts
  <1> HIDE DEF r
  <1>5. Head(calls).k \in {"begin", "end", "title"} /\ Head(calls).k = "begin"
    BY <1>1, <1>2
  <1>6. /\ ~Pending("endlink") /\ ~Pending("endabbr") /\ LinkEl = <<>>
        /\ calls \in Seq(CallToks(Here)) /\ calls[1] = Head(calls)
    BY <1>1, <1>3, <1>5, DoesBlock
  <1>7. ASSUME ~r.leak
        PROVE  /\ ShutBlocks(r) /\ r.floor = 0 /\ Stands(r, <<>>)
               /\ r.styles # <<>> => r.stack # <<>>
               /\ Pending("title") => Headed(r.res) /\ Unheaded(Tail(calls))
    <2>1. ~rend.leak
      BY <1>4, <1>7, Zenon
    <2>2. rend.styles = <<>>
      BY <1>4, <1>7, Zenon
    <2>3. ShutBlocks(rend) /\ Writing
      BY <1>1, <2>1 DEF WrittenOK
    <2>4. ShutBlocks(r)
      BY <1>4, <2>3 DEF ShutBlocks
    <2>5. rend.floor = 0 /\ Stands(rend, <<>>)
      BY <1>6, <2>3 DEF Writing
    <2>6. /\ Stands(r, <<>>) /\ r.floor = 0 /\ r.blocks = rend.blocks /\ r.title = rend.title
          /\ e # "h" /\ Headed(rend.res) => Headed(r.res)
      BY <1>1, <1>2, <2>2, <2>5, BeginStands DEF r
    <2>12. ASSUME Pending("title") PROVE Headed(r.res) /\ Unheaded(Tail(calls))
      <3>1. CASE calls[1] = Begin("h") /\ Unheaded(Tail(calls)) /\ rend.res = <<>>
        <4>1. e = "h"
          <5>1. Begin("h").el = "h"
            BY BeginEnd DEF Elements
          <5> QED
            BY <1>1, <1>6, <3>1, <5>1
        <4>2. r.res = <<<<"+", "h">>>>
          BY <1>4, <3>1, <4>1
        <4> QED
          BY <3>1, <4>2, OneHeaded
      <3>2. CASE Headed(rend.res) /\ Unheaded(calls)
        <4>1. Unheaded(Tail(calls))
          BY <1>1, <1>6, <3>2, UnheadedTail
        <4>2. e # "h"
          <5>1. 1 \in DOMAIN calls
            BY <1>1, <1>6, FirstIn
          <5>2. calls[1].k \in {"begin", "end"} /\ calls[1].el = e
            BY <1>1, <1>2, <1>6
          <5> QED
            BY <3>2, <5>1, <5>2 DEF Unheaded
        <4> QED
          BY <2>6, <3>2, <4>1, <4>2
      <3> QED
        BY <2>3, <2>12, <3>1, <3>2 DEF Writing, Titling
    <2> QED
      BY <1>4, <2>2, <2>4, <2>6, <2>12
  <1> QED
    BY <1>1, <1>3, <1>5, <1>7, DoesElement

LEMMA EndsItNests == ASSUME IInv, WrittenOK, EndsIt PROVE WrittenOK'
  <1>1. /\ calls # <<>> /\ Cl \in CallToks(Here) /\ Cl = Head(calls) /\ Cl.k \in {"end"}
        /\ rend \in Rends /\ ~done /\ rend.err = ""
    BY CallFacts DEF EndsIt
  <1> DEFINE e == Cl.el
             r == HandleEndAs(rend, e, e)
  <1>2. Cl.k = "end" /\ e \in Elements /\ Mark(Cl) = <<"-", e>> /\ e \in Whats
    BY <1>1 DEF CallToks, Mark, Whats
  <1>3. Does(r, <<>>)
    BY DEF EndsIt, HandleEnd
  <1>4. Head(calls).k \in {"begin", "end", "title"} /\ Head(calls).k \in {"end", "title"}
    BY <1>1, <1>2
  <1>5. rend.stack # <<>> /\ Head(rend.stack) = e
    BY <1>1, <1>2, <1>4, EndsShift
  <1>6. /\ ~Pending("endlink") /\ ~Pending("endabbr") /\ LinkEl = <<>>
        /\ calls \in Seq(CallToks(Here)) /\ calls[1] = Head(calls)
    BY <1>1, <1>3, <1>4, DoesBlock
  <1>7. r.title = rend.title /\ r.leak = rend.leak /\ r.styles = <<>>
    BY <1>1, <1>2, <1>5, HandleEndFacts
  <1>8. ASSUME ~r.leak
        PROVE  /\ ShutBlocks(r) /\ r.floor = 0 /\ Stands(r, <<>>)
               /\ Pending("title") => Headed(r.res) /\ Unheaded(Tail(calls))
    <2>1. ~rend.leak
      BY <1>7, <1>8, Zenon
    <2>2. ShutBlocks(rend) /\ Writing
      BY <1>1, <2>1 DEF WrittenOK
    <2>3. rend.floor = 0 /\ Stands(rend, <<>>)
      BY <1>6, <2>2 DEF Writing
    <2>4. /\ Stands(r, <<>>) /\ r.floor = 0
          /\ r.blocks # rend.blocks =>
                 \E html : Shut(html) /\ r.blocks = Append(rend.blocks, [what |-> e, html |-> html])
          /\ e # "h" /\ Headed(rend.res) => Headed(r.res)
      BY <1>1, <1>2, <1>5, <2>3, EndStands
    <2> HIDE DEF r
    <2>5. ShutBlocks(r)
      <3>1. Shut(r.title)
        BY <1>7, <2>2 DEF ShutBlocks
      <3> QED
        BY <1>1, <2>2, <2>4, <3>1, ShutAppend
    <2>6. ASSUME Pending("title") PROVE Headed(r.res) /\ Unheaded(Tail(calls))
      <3>1. calls[1] # Begin("h")
        <4>1. Begin("h").k = "begin"
          BY BeginEnd DEF Elements
        <4> QED
          BY <1>1, <1>2, <1>6, <4>1
      <3>2. Headed(rend.res) /\ Unheaded(calls)
        BY <2>2, <2>6, <3>1 DEF Writing, Titling
      <3>3. Unheaded(Tail(calls))
        BY <1>1, <1>6, <3>2, UnheadedTail
      <3>4. e # "h"
        <4>1. 1 \in DOMAIN calls
          BY <1>1, <1>6, FirstIn
        <4>2. calls[1].k \in {"begin", "end"} /\ calls[1].el = e
          BY <1>1, <1>2, <1>6
        <4> QED
          BY <3>2, <4>1, <4>2 DEF Unheaded
      <3> QED
        BY <2>4, <3>2, <3>3, <3>4
    <2> QED
      BY <2>4, <2>5, <2>6
  <1> HIDE DEF r
  <1> QED
    BY <1>1, <1>3, <1>4, <1>7, <1>8, DoesElement

LEMMA TitleShut ==
  ASSUME NEW r \in Rends, Headed(r.res), Walk(<<>>, r.res, r.styles \o r.stack),
         r.stack # <<>>, Head(r.stack) = "h"
  PROVE  Shut(Rest(r.res \o Ends(r.styles), 1))
  <1> DEFINE h == r.res \o Ends(r.styles)
             x == "h"
             s == r.stack
             a == Upper(s)
  <1>1. Walk(<<>>, h, s) /\ h \in Seq(Html) /\ Headed(h)
    BY StyleEnds
  <1> HIDE DEF h
  <1>2. Above(s, x) /\ Walk(<<>>, Rest(h, 1), a)
    BY <1>1, HeadedWalk
  <1>3. x \in Strings /\ s \in Seq(Elements) /\ Head(s) = x
    BY StylesType, Plainly DEF Elements
  <1> HIDE DEF x, s, a
  <1>4. a \in Stacks /\ s = a \o <<x>> /\ Clear(a, x)
    BY <1>2 DEF Above, a
  <1>5. \A i \in 1 .. Len(a) : s[i] = a[i]
    BY <1>3, <1>4, UpperFacts
  <1>6. s[1] = x
    <2>1. s # <<>>
      BY DEF s
    <2> QED
      BY <1>3, <2>1, HeadAndTail
  <1>7. a = <<>>
    <2>1. Len(a) \in Nat
      BY <1>4 DEF Stacks
    <2>2. SUFFICES ASSUME Len(a) # 0 PROVE FALSE
      BY <1>4, EmptySeq DEF Stacks
    <2>3. 1 \in 1 .. Len(a)
      BY <2>1, <2>2
    <2>4. a[1] = x /\ a[1] # x
      BY <1>4, <1>5, <1>6, <2>3 DEF Clear
    <2> QED
      BY <2>4
  <1> QED
    BY <1>2, <1>7 DEF Shut, h

LEMMA EndsTitleNests == ASSUME IInv, WrittenOK, EndsTitle PROVE WrittenOK'
  <1>1. /\ calls # <<>> /\ Cl \in CallToks(Here) /\ Cl = Head(calls) /\ Cl.k \in {"title"}
        /\ rend \in Rends /\ ~done /\ rend.err = ""
    BY CallFacts DEF EndsTitle
  <1> DEFINE u == HandleEndAs(rend, "h", "title")
             t == Rest(CloseStyles(rend).res, 1)
             r == [u EXCEPT !.title = t]
  <1>2. Cl.k = "title" /\ Mark(Cl) = <<"-", "h">> /\ "h" \in Elements /\ "title" \in Whats
    BY <1>1 DEF Mark, Whats, Elements
  <1>3. Does(r, <<>>)
    BY DEF EndsTitle
  <1>4. Head(calls).k \in {"begin", "end", "title"} /\ Head(calls).k \in {"end", "title"} /\ Head(calls).k = "title"
    BY <1>1, <1>2
  <1>5. rend.stack # <<>> /\ Head(rend.stack) = "h"
    BY <1>1, <1>2, <1>4, EndsShift
  <1>6. /\ ~Pending("endlink") /\ ~Pending("endabbr") /\ LinkEl = <<>>
        /\ calls \in Seq(CallToks(Here)) /\ calls[1] = Head(calls)
    BY <1>1, <1>3, <1>4, DoesBlock
  <1>7. u \in Rends /\ u.leak = rend.leak /\ u.styles = <<>>
    BY <1>1, <1>2, <1>5, HandleEndFacts
  <1>8. t = Rest(rend.res \o Ends(rend.styles), 1)
    BY <1>1, CloseStylesFacts
  <1>9. ASSUME ~rend.leak
        PROVE  /\ Shut(t) /\ Stands(u, <<>>) /\ u.floor = 0 /\ ShutBlocks(rend)
               /\ \/ u.blocks = rend.blocks
                  \/ \E what, html : Shut(html) /\ u.blocks = Append(rend.blocks, [what |-> what, html |-> html])
    <2>1. ShutBlocks(rend) /\ Writing
      BY <1>1, <1>9 DEF WrittenOK
    <2>2. rend.floor = 0 /\ Stands(rend, <<>>)
      BY <1>6, <2>1 DEF Writing
    <2>3. /\ Stands(u, <<>>) /\ u.floor = 0
          /\ u.blocks # rend.blocks =>
                 \E html : Shut(html) /\ u.blocks = Append(rend.blocks, [what |-> "title", html |-> html])
      BY <1>1, <1>2, <1>5, <2>2, EndStands
    <2> HIDE DEF u
    <2>4. Headed(rend.res)
      <3>1. calls[1] # Begin("h")
        <4>1. Begin("h").k = "begin"
          BY BeginEnd DEF Elements
        <4> QED
          BY <1>4, <1>6, <4>1
      <3>2. Pending("title")
        <4>1. 1 \in DOMAIN calls
          BY <1>1, <1>6, FirstIn
        <4> QED
          BY <1>4, <1>6, <4>1 DEF Pending, Has
      <3> QED
        BY <2>1, <3>1, <3>2 DEF Writing, Titling
    <2>5. Walk(<<>>, rend.res, rend.styles \o rend.stack)
      <3>1. rend.styles \in Seq(Fonts) /\ rend.stack \in Seq(Strings)
        BY <1>1, StylesType DEF Stacks
      <3> QED
        BY <2>2, <3>1, StandsPlain
    <2>6. Shut(t)
      BY <1>1, <1>5, <1>8, <2>4, <2>5, TitleShut
    <2> QED
      BY <2>1, <2>2, <2>3, <2>6
  <1> HIDE DEF u, t
  <1>10. /\ r.title = t /\ r.leak = u.leak /\ r.styles = u.styles /\ r.blocks = u.blocks /\ r.floor = u.floor
         /\ r.stack = u.stack /\ r.res = u.res
    BY <1>7 DEF Rends
  <1> HIDE DEF r
  <1>11. ASSUME ~r.leak PROVE ShutBlocks(r) /\ r.floor = 0 /\ Stands(r, <<>>)
    <2>1. ~rend.leak
      BY <1>7, <1>10, <1>11, Zenon
    <2>2. Stands(r, <<>>) /\ r.floor = 0
      BY <1>9, <1>10, <2>1 DEF Stands, Layered
    <2>3. ShutBlocks(r)
      BY <1>1, <1>9, <1>10, <2>1, ShutAppend
    <2> QED
      BY <2>2, <2>3
  <1> QED
    BY <1>1, <1>3, <1>4, <1>7, <1>10, <1>11, DoesElement

LEMMA CallNests == ASSUME IInv, WrittenOK, Call PROVE WrittenOK'
  BY BeginsNests, EndsItNests, EndsTitleNests, InlinePlainNests, InlineCodeNests, HandleTextNests,
     BrLinkNests, EndsLinkNests, UnheardNests, ListMacroNests, PutMacroNests, CanCommentMacroNests,
     TooDeepNests, RestrictedMacroNests, ShowAbbrNests, EndsAbbrNests, ShowTextNests, EndsTextNests, PNoteNests
  DEF Call

-----------------------------------------------------------------------------
(* Handlers.                                                               *)

\* Between handlers nothing is open but elements, and styles in them.
Standing(r) ==
  /\ ShutBlocks(r) /\ r.floor = 0
  /\ Walk(<<>>, r.res, r.styles \o r.stack)
  /\ r.styles # <<>> => r.stack # <<>>

LEMMA StandsNow ==
  ASSUME NEW r \in Rends, r.floor = 0
  PROVE  Stands(r, <<>>) <=> Walk(<<>>, r.res, r.styles \o r.stack)
  <1>1. r.styles \in Seq(Fonts) /\ r.stack \in Seq(Strings)
    BY StylesType DEF Stacks
  <1> QED
    BY <1>1, StandsPlain

LEMMA NoCalls ==
  ASSUME calls = <<>>
  PROVE  LinkEl = <<>> /\ \A k : ~Pending(k)
  BY NoneFacts DEF LinkEl, Pending

LEMMA StandingNow ==
  ASSUME WrittenOK, ~done, calls = <<>>, rend \in Rends, ~rend.leak
  PROVE  Standing(rend)
  <1>1. ShutBlocks(rend) /\ Writing
    BY DEF WrittenOK
  <1>2. rend.floor = 0 /\ Stands(rend, <<>>)
    BY <1>1, NoCalls DEF Writing
  <1> QED
    BY <1>1, <1>2, StandsNow DEF Standing, Writing

LEMMA StandingNext ==
  ASSUME NEW r \in Rends, rend' = r, calls' = <<>>, ~r.leak => Standing(r)
  PROVE  WrittenOK'
  <1>1. LinkEl' = <<>> /\ \A k : ~Pending(k)'
    BY NoneFacts DEF LinkEl, Pending
  <1>2. SUFFICES ASSUME ~r.leak PROVE ShutBlocks(r) /\ Writing'
    BY DEF WrittenOK, ShutBlocks, Shut
  <1>3. Standing(r)
    BY <1>2
  <1>4. Stands(r, <<>>)
    BY <1>3, StandsNow DEF Standing
  <1>5. Stands(r, LinkEl)'
    <2>1. Stands(r, LinkEl')
      BY <1>1, <1>4
    <2> QED
      BY <2>1 DEF Stands, Layered, Walk, Trails
  <1>6. Titling'
    BY <1>1 DEF Titling
  <1> QED
    BY <1>3, <1>5, <1>6 DEF Writing, Standing, Stands, Layered

\* A handler that writes.
LEMMA WritesNests ==
  ASSUME IInv, WrittenOK, NEW kinds, Front1(kinds), NEW r \in Rends, NEW n, Writes(r, n),
         ~r.leak => ~rend.leak,
         Standing(rend) /\ ~r.leak => Standing(r)
  PROVE  WrittenOK'
  <1>1. ~done /\ calls = <<>> /\ rend \in Rends
    BY FrontFacts
  <1>2. rend' = r /\ calls' = <<>>
    BY <1>1 DEF Writes
  <1>3. ~r.leak => Standing(r)
    BY <1>1, StandingNow
  <1> QED
    BY <1>2, <1>3, StandingNext

LEMMA PutStands ==
  ASSUME NEW r \in Rends, Standing(r), NEW w \in Strings
  PROVE  Standing(Put(r, w))
  <1> DEFINE q == Put(r, w)
             s == r.styles \o r.stack
             x == <<"t", w>>
  <1>1. q \in Rends /\ Alike(q, r) /\ q.res = Append(r.res, x)
    BY PutFacts
  <1> HIDE DEF q
  <1>2. r.res \in Seq(Html) /\ x \in Html
    BY StylesType DEF Html
  <1>3. Walk(<<>>, r.res, s)
    BY DEF Standing
  <1>4. s \in Stacks
    BY <1>2, <1>3, HtmlMarks, WalkStacks
  <1>5. x[1] = "t"
    OBVIOUS
  <1> HIDE DEF s, x
  <1>6. Step(s, x, s)
    BY <1>5 DEF Step
  <1>7. Walk(<<>>, q.res, s)
    BY <1>1, <1>2, <1>3, <1>4, <1>6, WalkOn
  <1> QED
    BY <1>1, <1>7 DEF Standing, Alike, ShutBlocks, q, s

LEMMA PutNests ==
  ASSUME IInv, WrittenOK, NEW kinds, Front1(kinds), NEW w \in Strings, NEW n, Writes(Put(rend, w), n)
  PROVE  WrittenOK'
  <1> DEFINE r == Put(rend, w)
  <1>1. rend \in Rends
    BY FrontFacts
  <1>2. r \in Rends /\ Alike(r, rend)
    BY <1>1, PutFacts
  <1>3. r.leak = rend.leak
    BY <1>2 DEF Alike
  <1>4. Standing(rend) => Standing(r)
    BY <1>1, PutStands
  <1> HIDE DEF r
  <1>5. Writes(r, n)
    BY DEF r
  <1>6. ~r.leak => ~rend.leak
    BY <1>3, Zenon
  <1> QED
    BY <1>2, <1>4, <1>5, <1>6, WritesNests

LEMMA RuleNests == ASSUME IInv, WrittenOK, Rule PROVE WrittenOK'
  <1> DEFINE kinds == {"starsep", "hr"}
             n == 1
  <1>1. Front1(kinds) /\ Writes(Put(rend, Tk.k), n)
    BY DEF Rule
  <1>2. Tk.k \in kinds
    BY <1>1, FrontFacts
  <1>3. Tk.k \in Strings
    BY <1>2 DEF Strings
  <1> HIDE DEF kinds, n
  <1> QED
    BY <1>1, <1>3, PutNests

LEMMA NewlineNests == ASSUME IInv, WrittenOK, Newline PROVE WrittenOK'
  <1> DEFINE kinds == {"nl"}
             n == 1
  <1>1. Front1(kinds) /\ Writes(Put(rend, "nl"), n)
    BY DEF Newline
  <1>2. "nl" \in Strings
    BY DEF Strings
  <1> HIDE DEF kinds, n
  <1> QED
    BY <1>1, <1>2, PutNests

\* Where all is closed, what is written is shut; a block is pushed only there.
LEMMA AllShut ==
  ASSUME NEW r \in Rends, Standing(r), r.stack = <<>>
  PROVE  r.styles = <<>> /\ Shut(r.res)
  <1>1. r.styles = <<>>
    BY DEF Standing
  <1>2. r.styles \o r.stack = <<>>
    BY <1>1, NoneFacts, NoneJoin
  <1> QED
    BY <1>1, <1>2 DEF Standing, Shut

LEMMA BlockStands ==
  ASSUME NEW r \in Rends, Standing(r), r.stack = <<>>, NEW what \in Whats, NEW b, Blocked(b, r, what)
  PROVE  Standing(b) /\ b \in Rends /\ b.leak = r.leak /\ b.stack = <<>>
  <1>1. /\ b \in Rends /\ b.stack = r.stack /\ b.styles = r.styles
        /\ b.floor = r.floor /\ b.leak = r.leak /\ b.title = r.title
        /\ \/ b.res = r.res /\ b.blocks = r.blocks
           \/ b.res = <<>> /\ b.blocks = Append(r.blocks, [what |-> what, html |-> r.res])
    BY BlockedFacts
  <1>2. CASE b.res = r.res /\ b.blocks = r.blocks
    BY <1>1, <1>2 DEF Standing, ShutBlocks
  <1>3. CASE b.res = <<>> /\ b.blocks = Append(r.blocks, [what |-> what, html |-> r.res])
    <2>1. Shut(r.res) /\ r.styles = <<>>
      BY AllShut
    <2>2. ShutBlocks(r) /\ Shut(b.title)
      BY <1>1 DEF Standing, ShutBlocks
    <2>3. ShutBlocks(b)
      BY <1>3, <2>1, <2>2, ShutAppend
    <2>4. b.styles \o b.stack = <<>>
      BY <1>1, <2>1, NoneFacts, NoneJoin
    <2>5. Walk(<<>>, b.res, b.styles \o b.stack)
      <3>1. <<>> \in Stacks
        BY NoneFacts DEF Stacks
      <3> QED
        BY <1>3, <2>4, <3>1, WalkNothing
    <2> QED
      BY <1>1, <2>1, <2>3, <2>5 DEF Standing
  <1> QED
    BY <1>1, <1>2, <1>3

LEMMA BlankLineNests == ASSUME IInv, WrittenOK, BlankLine PROVE WrittenOK'
  <1> DEFINE kinds == {"blank"}
             n == 1
             p == Put(rend, "nl")
             r == PushBlank(p)
  <1>1. Front1(kinds) /\ Writes(r, n)
    BY DEF BlankLine
  <1>2. rend \in Rends /\ "nl" \in Strings /\ "blank" \in Whats
    BY <1>1, FrontFacts DEF Strings, Whats
  <1>3. p \in Rends /\ Alike(p, rend) /\ p.res = Append(rend.res, <<"t", "nl">>)
    BY <1>2, PutFacts
  <1>4. Standing(rend) => Standing(p)
    BY <1>2, PutStands
  <1> HIDE DEF p
  <1>5. Blocked(r, p, "blank")
    BY <1>3, PushFacts
  <1>6. \/ r.res = p.res /\ r.blocks = p.blocks
        \/ Len(p.res) = 1
    BY DEF PushBlank
  <1> HIDE DEF kinds, n, r
  <1>7. /\ r \in Rends /\ r.stack = p.stack /\ r.styles = p.styles
        /\ r.floor = p.floor /\ r.leak = p.leak /\ r.title = p.title
    <2> DEFINE w == "blank"
    <2>1. p \in Rends /\ w \in Whats /\ Blocked(r, p, w)
      BY <1>2, <1>3, <1>5
    <2> HIDE DEF w
    <2> QED
      BY <2>1, BlockedSame
  <1>8. ASSUME Standing(rend) PROVE Standing(r)
    <2>1. CASE r.res = p.res /\ r.blocks = p.blocks
      BY <1>4, <1>7, <1>8, <2>1 DEF Standing, ShutBlocks
    <2>2. CASE Len(p.res) = 1
      <3>1. rend.res = <<>>
        <4>1. rend.res \in Seq(Html)
          BY <1>2, StylesType
        <4>2. Len(rend.res) = 0
          BY <1>3, <2>2, <4>1
        <4> QED
          BY <4>1, <4>2, EmptySeq
      <3>2. rend.styles \o rend.stack = <<>>
        BY <1>8, <3>1, WalkNothing DEF Standing
      <3>3. rend.stack = <<>>
        <4>1. rend.styles \in Seq(Strings) /\ rend.stack \in Seq(Strings)
          BY <1>2, StylesType DEF Stacks
        <4> QED
          BY <3>2, <4>1, JoinNone
      <3>4. p.stack = <<>>
        BY <1>3, <3>3 DEF Alike
      <3> QED
        BY <1>2, <1>3, <1>4, <1>5, <1>8, <3>4, BlockStands
    <2> QED
      BY <1>6, <2>1, <2>2
  <1>9. r.leak = rend.leak
    BY <1>3, <1>7 DEF Alike
  <1>10. ~r.leak => ~rend.leak
    BY <1>9, Zenon
  <1> QED
    BY <1>1, <1>7, <1>8, <1>10, WritesNests

LEMMA CutShortNests == ASSUME IInv, WrittenOK, CutShort PROVE WrittenOK'
  <1> DEFINE kinds == {"cutshort"}
             n == 1
             f == ForceBlock(rend, "chunk")
             r == AddBlock(f, "cutshort")
  <1>1. Front1(kinds)
    BY DEF CutShort
  <1>2. rend \in Rends /\ ~done /\ calls = <<>> /\ "chunk" \in Whats /\ "cutshort" \in Whats
    BY <1>1, FrontFacts DEF Whats
  <1>3. CASE rend' = rend /\ calls' = calls /\ done' = done
    <2>1. ~rend.leak => Standing(rend)
      BY <1>2, StandingNow
    <2> QED
      BY <1>2, <1>3, <2>1, StandingNext
  <1>4. CASE rend.stack = <<>> /\ Writes(r, n)
    <2>1. Blocked(f, rend, "chunk") /\ Blocked(r, f, "cutshort")
      BY <1>2, PushFacts DEF Blocked
    <2> HIDE DEF f, r, n, kinds
    <2>2. f \in Rends /\ f.leak = rend.leak
      BY <1>2, <2>1, BlockedSame
    <2>3. r \in Rends /\ r.leak = f.leak
      BY <1>2, <2>1, <2>2, BlockedSame
    <2>4. Standing(rend) => Standing(f) /\ f.stack = <<>>
      BY <1>2, <1>4, <2>1, BlockStands
    <2>5. Standing(rend) => Standing(r)
      BY <1>2, <2>1, <2>2, <2>4, BlockStands
    <2>6. ~r.leak => ~rend.leak
      BY <2>2, <2>3, Zenon
    <2> QED
      BY <1>1, <1>4, <2>3, <2>5, <2>6, WritesNests
  <1> QED
    BY <1>3, <1>4 DEF CutShort, Pushes

LEMMA BeginElementNests == ASSUME IInv, WrittenOK, BeginElement PROVE WrittenOK'
  <1> DEFINE e == Tk.el
             r == HandleBegin(rend, e)
             kinds == {"begin"}
             n == 1
  <1>1. Front1(kinds) /\ Writes(r, n)
    BY DEF BeginElement
  <1>2. Tk.k \in kinds /\ Tk \in Toks(Here) /\ rend \in Rends
    BY <1>1, FrontFacts
  <1>3. e \in Elements
    BY <1>2 DEF Toks, Fits
  <1>4. r \in Rends /\ r.leak = (rend.leak \/ rend.styles # <<>>) /\ r.styles = rend.styles
    BY <1>2, <1>3, HandleBeginFacts
  <1>5. ~r.leak => ~rend.leak /\ rend.styles = <<>>
    BY <1>4, Zenon
  <1>6. ASSUME Standing(rend), ~r.leak PROVE Standing(r)
    <2>1. rend.floor = 0 /\ Stands(rend, <<>>) /\ ShutBlocks(rend)
      BY <1>2, <1>6, StandsNow DEF Standing
    <2>2. Stands(r, <<>>) /\ r.floor = 0 /\ r.blocks = rend.blocks /\ r.title = rend.title
      BY <1>2, <1>3, <1>5, <1>6, <2>1, BeginStands
    <2> HIDE DEF r
    <2> QED
      BY <1>4, <1>5, <1>6, <2>1, <2>2, StandsNow DEF Standing, ShutBlocks
  <1> HIDE DEF e, r, kinds, n
  <1> QED
    BY <1>1, <1>4, <1>5, <1>6, WritesNests

LEMMA EndElementNests == ASSUME IInv, WrittenOK, EndElement PROVE WrittenOK'
  <1> DEFINE e == Tk.el
             r == HandleEndAs(rend, e, e)
             kinds == {"end"}
             n == 1
  <1>1. Front1(kinds) /\ Writes(r, n)
    BY DEF EndElement, HandleEnd
  <1>2. Tk.k \in kinds /\ Tk \in Toks(Here) /\ rend \in Rends
    BY <1>1, FrontFacts
  <1>3. e \in Elements /\ e \in Whats
    BY <1>2 DEF Toks, Fits, Whats
  <1>4. rend.stack # <<>> /\ Head(rend.stack) = e
    BY <1>1, EndElementOpen
  <1>5. r \in Rends /\ r.leak = rend.leak /\ r.title = rend.title /\ r.styles = <<>>
    BY <1>2, <1>3, <1>4, HandleEndFacts
  <1>6. ASSUME Standing(rend) PROVE Standing(r)
    <2>1. rend.floor = 0 /\ Stands(rend, <<>>) /\ ShutBlocks(rend)
      BY <1>2, <1>6, StandsNow DEF Standing
    <2>2. /\ Stands(r, <<>>) /\ r.floor = 0
          /\ r.blocks # rend.blocks =>
                 \E html : Shut(html) /\ r.blocks = Append(rend.blocks, [what |-> e, html |-> html])
      BY <1>2, <1>3, <1>4, <2>1, EndStands
    <2> HIDE DEF r, e
    <2>3. Shut(r.title)
      BY <1>5, <2>1 DEF ShutBlocks
    <2>4. ShutBlocks(r)
      BY <1>2, <2>1, <2>2, <2>3, ShutAppend
    <2> QED
      BY <1>5, <2>2, <2>4, StandsNow DEF Standing
  <1>7. ~r.leak => ~rend.leak
    BY <1>5, Zenon
  <1> HIDE DEF e, r, kinds, n
  <1> QED
    BY <1>1, <1>5, <1>6, <1>7, WritesNests

LEMMA InsertElementNests == ASSUME IInv, WrittenOK, InsertElement PROVE WrittenOK'
  <1> DEFINE c == CloseStyles(rend)
             r == Put(c, "<p>")
             kinds == {"insert"}
             n == 1
  <1>1. Front1(kinds) /\ Writes(r, n)
    BY DEF InsertElement
  <1>2. rend \in Rends /\ "<p>" \in Strings
    BY <1>1, FrontFacts DEF Strings
  <1>3. /\ c \in Rends /\ c.res = rend.res \o Ends(rend.styles) /\ c.styles = <<>> /\ c.stack = rend.stack
        /\ c.floor = rend.floor /\ c.leak = rend.leak /\ c.blocks = rend.blocks /\ c.title = rend.title
    BY <1>2, CloseStylesFacts
  <1> HIDE DEF c
  <1>4. Standing(rend) => Standing(c)
    <2>1. SUFFICES ASSUME Standing(rend) PROVE Standing(c)
      OBVIOUS
    <2>2. Walk(<<>>, c.res, rend.stack)
      BY <1>2, <1>3, <2>1, StyleEnds DEF Standing
    <2>3. c.styles \o c.stack = rend.stack
      <3>1. c.stack \in Seq(Strings)
        BY <1>3, StylesType DEF Stacks
      <3> QED
        BY <1>3, <3>1, NoneJoin
    <2> QED
      BY <1>3, <2>1, <2>2, <2>3 DEF Standing, ShutBlocks
  <1>5. r \in Rends /\ Alike(r, c) /\ (Standing(c) => Standing(r))
    BY <1>2, <1>3, PutFacts, PutStands
  <1> HIDE DEF r, kinds, n
  <1>6. r.leak = rend.leak
    BY <1>3, <1>5 DEF Alike
  <1>7. ~r.leak => ~rend.leak
    BY <1>6, Zenon
  <1> QED
    BY <1>1, <1>4, <1>5, <1>7, WritesNests

Outer == {"title", "endlink", "endabbr"}

\* A handler that makes calls.
LEMMA CallsNests ==
  ASSUME IInv, WrittenOK, NEW kinds, Front1(kinds), NEW n, NEW cs, Calls(n, cs),
         ~Has(cs, "endlink"), ~Has(cs, "endabbr"),
         ~rend.leak /\ Standing(rend) /\ Has(cs, "title") =>
           /\ cs[1] = Begin("h") /\ Unheaded(Tail(cs))
           /\ rend.res = <<>> /\ rend.stack = <<>> /\ rend.styles = <<>>
  PROVE  WrittenOK'
  <1>1. ~done /\ calls = <<>> /\ rend \in Rends
    BY FrontFacts
  <1>2. rend' = rend /\ calls' = cs
    BY DEF Calls
  <1>3. SUFFICES ASSUME ~rend.leak PROVE ShutBlocks(rend) /\ Writing'
    BY <1>2 DEF WrittenOK, ShutBlocks, Shut
  <1>4. Standing(rend)
    BY <1>1, <1>3, StandingNow
  <1>5. ~Pending("endlink")' /\ ~Pending("endabbr")'
    BY <1>2 DEF Pending, Has
  <1>6. LinkEl' = <<>>
    BY <1>5 DEF LinkEl
  <1>7. Stands(rend, <<>>)
    BY <1>1, <1>4, StandsNow DEF Standing
  <1>8. Stands(rend, LinkEl)'
    <2>1. PICK r : r = rend
      OBVIOUS
    <2>2. Stands(r, LinkEl')
      BY <1>6, <1>7, <2>1
    <2>3. Stands(r, LinkEl)'
      BY <2>2 DEF Stands, Layered, Walk, Trails
    <2> QED
      BY <1>2, <2>1, <2>3 DEF Stands, Layered
  <1>9. Titling'
    <2>1. Pending("title")' <=> Has(cs, "title")
      BY <1>2 DEF Pending, Has
    <2>2. SUFFICES ASSUME Has(cs, "title")
                   PROVE  /\ cs[1] = Begin("h") /\ Unheaded(Tail(cs))
                          /\ rend.res = <<>> /\ rend.stack = <<>> /\ rend.styles = <<>>
      BY <1>2, <2>1 DEF Titling, Unheaded
    <2> QED
      BY <1>3, <1>4, <2>2
  <1> QED
    BY <1>2, <1>4, <1>8, <1>9 DEF Writing, Standing

LEMMA PlainNests ==
  ASSUME IInv, WrittenOK, NEW kinds, Front1(kinds), NEW n, NEW cs, Calls(n, cs), \A k \in Outer : ~Has(cs, k)
  PROVE  WrittenOK'
  BY CallsNests DEF Outer

LEMMA ElementPlain ==
  ASSUME NEW e, NEW txt
  PROVE  /\ \A k \in Outer : ~Has(Element(e, txt), k)
         /\ \A k \in Outer : ~Has(<<Begin(e), Text("plain", txt), End(e)>>, k)
         /\ \A k \in Outer : ~Has(<<TextCall("text", txt, 0)>>, k)
  <1>1. Begin(e).k = "begin" /\ End(e).k = "end" /\ Text("plain", txt).k = "plain" /\ TextCall("text", txt, 0).k = "text"
    BY DEF Begin, End, TextCall, Text, Blank
  <1> DEFINE a == Begin(e)
             b == End(e)
             c == Text("plain", txt)
             d == TextCall("text", txt, 0)
  <1>2. {a.k, b.k, c.k, d.k} \cap Outer = {}
    BY <1>1 DEF Outer
  <1> HIDE DEF a, b, c, d
  <1>3. \A k \in Outer : ~Has(<<a, d, b>>, k) /\ ~Has(<<a, c, b>>, k) /\ ~Has(<<d>>, k)
    BY <1>2 DEF Has
  <1> QED
    BY <1>3 DEF Element, a, b, c, d

LEMMA FrontFails ==
  ASSUME IInv, WrittenOK, NEW kinds, Front1(kinds), NEW what \in Errors, NEW n, Writes(Fail(rend, what), n)
  PROVE  WrittenOK'
  <1> DEFINE r == Fail(rend, what)
  <1>1. rend \in Rends
    BY FrontFacts
  <1>2. /\ r \in Rends /\ r.stack = rend.stack /\ r.styles = rend.styles /\ r.leak = rend.leak
        /\ r.res = rend.res /\ r.blocks = rend.blocks /\ r.title = rend.title /\ r.floor = rend.floor
    BY <1>1, FailFacts
  <1>3. Writes(r, n)
    OBVIOUS
  <1> HIDE DEF r
  <1>4. ~r.leak => ~rend.leak
    BY <1>2, Zenon
  <1>5. Standing(rend) => Standing(r)
    BY <1>2 DEF Standing, ShutBlocks
  <1> QED
    BY <1>2, <1>3, <1>4, <1>5, WritesNests

LEMMA HeaderNests == ASSUME IInv, WrittenOK, Header PROVE WrittenOK'
  <1> DEFINE kinds == {"header"}
             n == 1
  <1>1. Front1(kinds) /\ "TypeError" \in Errors
    BY DEF Header, Errors, Substituting
  <1>2. Writes(Fail(rend, "TypeError"), n) \/ Calls(n, Element("h", Tk.txt))
    BY Zenon DEF Header
  <1> HIDE DEF kinds, n
  <1> QED
    BY <1>1, <1>2, FrontFails, ElementPlain, PlainNests

LEMMA ParagraphsNest ==
  ASSUME IInv, WrittenOK, Paragraph \/ Para \/ PText \/ Indented
  PROVE  WrittenOK'
  <1>1. \E kinds, n, cs : Front1(kinds) /\ Calls(n, cs) /\ \A k \in Outer : ~Has(cs, k)
    <2>2. CASE Paragraph
      <3>1. \E n : Front1({"p"}) /\ Calls(n, Element("p", Join(queue, n)))
        BY <2>2 DEF Paragraph
      <3> QED
        BY <3>1, ElementPlain
    <2>3. CASE Para
      <3>1. \E n : Front1({"para"}) /\ Calls(n, Element("p", Join(queue, n)))
        BY <2>3 DEF Para
      <3> QED
        BY <3>1, ElementPlain
    <2>4. CASE PText
      <3>1. \E n : Front1({"ptext"}) /\ Calls(n, <<TextCall("text", Join(queue, n), 0)>>)
        BY <2>4 DEF PText
      <3> QED
        BY <3>1, ElementPlain
    <2>5. CASE Indented
      <3>1. \E n : Front1({"indented"}) /\ Calls(n, <<Begin("pre"), Text("plain", Join(queue, n)), End("pre")>>)
        BY <2>5 DEF Indented
      <3> QED
        BY <3>1, ElementPlain
    <2> QED
      BY <2>2, <2>3, <2>4, <2>5
  <1> QED
    BY <1>1, PlainNests

LEMMA TableRowsNests == ASSUME IInv, WrittenOK, TableRows PROVE WrittenOK'
  <1>1. PICK n, cs : TableCalls(n, cs)
    BY TableRowsFacts
  <1>2. cs \in Seq(Speech)
    BY <1>1 DEF TableCalls, Via
  <1>3. \A k \in Outer : ~Has(cs, k)
    <2>1. SUFFICES ASSUME NEW k \in Outer, Has(cs, k) PROVE FALSE
      OBVIOUS
    <2>2. PICK i \in DOMAIN cs : cs[i].k = k
      BY <2>1 DEF Has
    <2>3. cs[i] \in Speech
      BY <1>2
    <2> QED
      BY <2>2, <2>3 DEF Speech, Outer
  <1> QED
    BY <1>1, <1>3, PlainNests DEF TableCalls

LEMMA ProcNoteNests == ASSUME IInv, WrittenOK, ProcNote PROVE WrittenOK'
  <1> DEFINE t == [Tk EXCEPT !.k = "notes"]
             n == 1
  <1>1. Front1({"procnote"}) /\ Calls(n, <<t>>)
    BY DEF ProcNote
  <1>2. Tk \in Tokens(Here)
    BY <1>1, FrontFacts DEF Toks
  <1>3. t.k = "notes"
    BY <1>2 DEF Tokens
  <1> HIDE DEF t, n
  <1>4. \A k \in Outer : ~Has(<<t>>, k)
    <2>1. t.k \notin Outer
      BY <1>3 DEF Outer
    <2> QED
      BY <2>1 DEF Has
  <1> QED
    BY <1>1, <1>4, PlainNests

LEMMA Header1Nests == ASSUME IInv, WrittenOK, Header1 PROVE WrittenOK'
  <1> DEFINE kinds == {"header1"}
             n == 1
             cs == <<Begin("h"), TextCall("text", Tk.txt, 0), Text("title", <<>>)>>
  <1>1. Front1(kinds)
    BY DEF Header1
  <1>2. rend \in Rends /\ "AssertionError" \in Errors /\ "TypeError" \in Errors
    BY <1>1, FrontFacts DEF Errors, Substituting
  <1>3. ASSUME NEW what \in {"AssertionError", "TypeError"}, Writes(Fail(rend, what), n) PROVE WrittenOK'
    BY <1>1, <1>2, <1>3, FrontFails
  <1>4. CASE rend.res = <<>> /\ Calls(n, cs)
    <2>1. /\ Begin("h").k = "begin" /\ TextCall("text", Tk.txt, 0).k = "text" /\ Text("title", <<>>).k = "title"
      BY DEF Begin, TextCall, Text, Blank
    <2> DEFINE a == Begin("h")
               b == TextCall("text", Tk.txt, 0)
               c == Text("title", <<>>)
    <2> HIDE DEF kinds, n, a, b, c
    <2>2. ~Has(<<a, b, c>>, "endlink") /\ ~Has(<<a, b, c>>, "endabbr")
      BY <2>1 DEF Has, a, b, c
    <2>3. Unheaded(Tail(<<a, b, c>>))
      <3>1. b.k \notin {"begin", "end"} /\ c.k \notin {"begin", "end"}
        BY <2>1 DEF b, c
      <3>2. Tail(<<a, b, c>>) = <<b, c>>
        OBVIOUS
      <3>3. Unheaded(<<b, c>>)
        BY <3>1 DEF Unheaded
      <3> QED
        BY <3>2, <3>3
    <2>4. ~Has(cs, "endlink") /\ ~Has(cs, "endabbr") /\ cs[1] = Begin("h") /\ Unheaded(Tail(cs))
      BY <2>2, <2>3 DEF a, b, c
    <2> HIDE DEF cs
    <2>5. Standing(rend) => rend.stack = <<>> /\ rend.styles = <<>>
      <3>1. SUFFICES ASSUME Standing(rend) PROVE rend.stack = <<>> /\ rend.styles = <<>>
        OBVIOUS
      <3>2. rend.styles \o rend.stack = <<>>
        BY <1>4, <3>1, WalkNothing DEF Standing
      <3>3. rend.styles \in Seq(Strings) /\ rend.stack \in Seq(Strings)
        BY <1>2, StylesType DEF Stacks
      <3> QED
        BY <3>2, <3>3, JoinNone
    <2> QED
      BY <1>1, <1>4, <2>4, <2>5, CallsNests
  <1>5. \/ \E what \in {"AssertionError", "TypeError"} : Writes(Fail(rend, what), n)
        \/ rend.res = <<>> /\ Calls(n, cs)
    BY DEF Header1
  <1> HIDE DEF kinds, n, cs
  <1> QED
    BY <1>3, <1>4, <1>5

LEMMA SameNests ==
  ASSUME WrittenOK, rend' = rend, calls' = calls, done' = done
  PROVE  WrittenOK'
  <1>1. LinkEl' = LinkEl /\ \A k : Pending(k)' <=> Pending(k)
    BY DEF LinkEl, Pending, Has
  <1>2. Titling' <=> Titling
    BY <1>1 DEF Titling, Headed, Unheaded
  <1>3. ASSUME Stands(rend, LinkEl) PROVE Stands(rend, LinkEl)'
    <2>1. PICK r : r = rend
      OBVIOUS
    <2>2. Stands(r, LinkEl')
      BY <1>1, <1>3, <2>1
    <2>3. Stands(r, LinkEl)'
      BY <2>2 DEF Stands, Layered, Walk, Trails
    <2> QED
      BY <2>1, <2>3 DEF Stands, Layered
  <1>4. Writing => Writing'
    BY <1>1, <1>2, <1>3 DEF Writing
  <1> QED
    BY <1>4 DEF WrittenOK, ShutBlocks, Shut

LEMMA PushesNest ==
  ASSUME WrittenOK, Quote \/ IQuote \/ InnerList \/ ListStart \/ ListIndented \/ ListInner \/ ListItem \/ ListBlank \/ ListEnd
  PROVE  WrittenOK'
  <1>1. rend' = rend /\ calls' = calls /\ done' = done
    BY Zenon DEF Quote, IQuote, InnerList, ListStart, ListIndented, ListInner, ListItem, ListBlank, ListEnd,
           Pushes, Takes
  <1> QED
    BY <1>1, SameNests

LEMMA HandlerNests == ASSUME IInv, WrittenOK, Handler PROVE WrittenOK'
  BY BlankLineNests, RuleNests, NewlineNests, HeaderNests, Header1Nests, ParagraphsNest, TableRowsNests, PushesNest,
     ProcNoteNests, CutShortNests, BeginElementNests, EndElementNests, InsertElementNests
  DEF Handler

-----------------------------------------------------------------------------
(* The end, and the beginning.                                             *)

LEMMA DoneNests ==
  ASSUME NEW r \in Rends, rend' = r, done', ~r.leak => ShutBlocks(r)
  PROVE  WrittenOK'
  BY DEF WrittenOK, ShutBlocks, Shut

LEMMA ShutNone == Shut(<<>>)
  <1>1. <<>> \in Stacks
    BY NoneFacts DEF Stacks
  <1> QED
    BY <1>1, WalkNothing DEF Shut

LEMMA FinishNests == ASSUME IInv, WrittenOK, Finish PROVE WrittenOK'
  <1> DEFINE f == [rend EXCEPT !.res = @ \o Ends(rend.styles) \o Ends(rend.stack), !.styles = <<>>, !.stack = <<>>]
             r == ForceBlock(f, "end")
             h == rend.res \o Ends(rend.styles)
  <1>1. ~done /\ calls = <<>> /\ rend' = r /\ done'
    BY DEF Finish
  <1>2. rend \in Rends /\ "end" \in Whats
    BY DEF IInv, TypeOK, Whats
  <1>3. /\ f \in Rends /\ f.stack = <<>> /\ f.styles = <<>> /\ f.res = h \o Ends(rend.stack)
        /\ f.floor = rend.floor /\ f.leak = rend.leak /\ f.blocks = rend.blocks /\ f.title = rend.title
    BY <1>2, FinishFacts
  <1> HIDE DEF f
  <1>4. Blocked(r, f, "end")
    BY <1>3, PushFacts
  <1> HIDE DEF r, h
  <1>5. r \in Rends /\ r.leak = f.leak
    BY <1>2, <1>3, <1>4, BlockedFacts
  <1>6. Standing(rend) => Standing(f)
    <2>1. SUFFICES ASSUME Standing(rend) PROVE Standing(f)
      OBVIOUS
    <2>2. Walk(<<>>, h, rend.stack) /\ h \in Seq(Html)
      BY <1>2, <2>1, StyleEnds DEF Standing, h
    <2> DEFINE s == rend.stack
               g == Ends(s)
               none == <<>>
    <2>3. s \in Stacks /\ none \in Stacks /\ s \in Seq(Strings)
      BY <1>2, StylesType, NoneFacts DEF Stacks
    <2>4. s \o none = s
      BY <2>3, NoneJoin
    <2>5. Walk(s \o none, g, none) /\ g \in Seq(Html)
      BY <2>3, EndsWalk
    <2>6. h \in Seq(Marks_) /\ g \in Seq(Marks_)
      BY <2>2, <2>5, HtmlMarks
    <2> HIDE DEF g, s
    <2>7. Walk(none, h, s)
      BY <2>2 DEF s
    <2>8. Walk(none, h \o g, none)
      BY <2>4, <2>5, <2>6, <2>7, WalkJoin
    <2>9. f.styles \o f.stack = none
      BY <1>3, NoneFacts, NoneJoin
    <2>10. f.res = h \o g
      BY <1>3 DEF g, s
    <2> QED
      BY <1>3, <2>1, <2>8, <2>9, <2>10 DEF Standing, ShutBlocks
  <1>7. ~f.leak => Standing(f)
    <2>1. SUFFICES ASSUME ~f.leak PROVE Standing(f)
      OBVIOUS
    <2>2. ~rend.leak
      BY <1>3, <2>1, Zenon
    <2> QED
      BY <1>1, <1>2, <1>6, <2>2, StandingNow
  <1>8. ASSUME ~r.leak PROVE ShutBlocks(r)
    <2>1. ~f.leak
      BY <1>5, <1>8, Zenon
    <2>2. Standing(r)
      BY <1>2, <1>3, <1>4, <1>7, <2>1, BlockStands
    <2> QED
      BY <2>2 DEF Standing
  <1> QED
    BY <1>1, <1>5, <1>8, DoneNests

LEMMA NothingNests == ASSUME IInv, WrittenOK, Nothing PROVE WrittenOK'
  <1> DEFINE r == [rend EXCEPT !.res = <<>>, !.blocks = <<>>, !.empty = TRUE, !.title = <<>>,
                               !.feats = @ \cup {"restricted"}]
  <1>1. rend' = r /\ done'
    BY DEF Nothing
  <1>2. rend \in Rends
    BY DEF IInv, TypeOK
  <1>3. r \in Rends /\ r.blocks = <<>> /\ r.title = <<>>
    BY <1>2, NothingFacts
  <1> HIDE DEF r
  <1>4. ShutBlocks(r)
    BY <1>3, ShutNone, NoneFacts DEF ShutBlocks
  <1> QED
    BY <1>1, <1>3, <1>4, DoneNests

LEMMA RaiseNests == ASSUME IInv, WrittenOK, Raise PROVE WrittenOK'
  <1>1. rend' = rend /\ done'
    BY DEF Raise
  <1>2. rend \in Rends
    BY DEF IInv, TypeOK
  <1> QED
    BY <1>1, <1>2, DoneNests DEF WrittenOK

\* No step leaves anything open that the renderer does not know to be open.
LEMMA NextNests == ASSUME IInv, WrittenOK, [Next]_vars PROVE WrittenOK'
  <1>1. CASE Terminated \/ UNCHANGED vars
    <2>1. rend' = rend /\ calls' = calls /\ done' = done
      BY <1>1 DEF Terminated, vars
    <2> QED
      BY <2>1, SameNests
  <1> QED
    BY <1>1, CallNests, HandlerNests, FinishNests, NothingNests, RaiseNests DEF Next

LEMMA InitNests == ASSUME Init PROVE WrittenOK
  <1>1. input.mode \in Modes /\ rend = NewRend(input.mode) /\ calls = <<>> /\ done = FALSE
    BY WikitextAssumption DEF Init
  <1>2. /\ rend \in Rends /\ rend.stack = <<>> /\ rend.styles = <<>> /\ rend.res = <<>>
        /\ rend.blocks = <<>> /\ rend.title = <<>> /\ rend.floor = 0
    BY <1>1, NewRendType
  <1>3. ShutBlocks(rend)
    BY <1>2, ShutNone, NoneFacts DEF ShutBlocks
  <1>4. Stands(rend, LinkEl)
    <2>1. rend.styles \o rend.stack = <<>>
      BY <1>2, NoneFacts, NoneJoin
    <2>2. Walk(<<>>, rend.res, rend.styles \o rend.stack)
      BY <1>2, <2>1, ShutNone DEF Shut
    <2> QED
      BY <1>1, <1>2, <2>2, StandsNow, NoCalls
  <1>5. Titling
    BY <1>1, NoCalls DEF Titling
  <1> QED
    BY <1>2, <1>3, <1>4, <1>5 DEF WrittenOK, Writing

\* Until a style of an element is ended in another one (what the model calls a
\* leak), every block and the title are complete, and what is written since the
\* last block opens what the renderer holds for open and nothing else.
THEOREM Written == Spec => []WrittenOK
  <1>1. Init => WrittenOK
    BY InitNests
  <1>2. IInv /\ WrittenOK /\ [Next]_vars => WrittenOK'
    BY NextNests
  <1> QED
    BY <1>1, <1>2, Inductive, PTL DEF Spec

-----------------------------------------------------------------------------
(* What a view takes of the page.                                          *)

\* What is shut nests: the renderer's own stack at each tag is what the tags
\* before it have left open.
Tagged(a, x) ==
  CASE x[1] = "t" -> a
    [] x[1] = "+" -> [a EXCEPT !.open = <<x[2]>> \o @]
    [] x[1] = "-" -> IF a.open # <<>> /\ a.open[1] = x[2]
                     THEN [a EXCEPT !.open = Tail(@)] ELSE [a EXCEPT !.ok = FALSE]
Opened(s) == [ok |-> TRUE, open |-> s]

LEMMA TaggedStep ==
  ASSUME NEW a \in Stacks, NEW x \in Html, NEW b, Step(a, x, b)
  PROVE  Tagged(Opened(a), x) = Opened(b)
  <1>1. x[1] \in {"+", "-", "t"}
    BY DEF Html
  <1>2. CASE x[1] = "t"
    BY <1>2 DEF Step, Tagged, Opened
  <1>3. CASE x[1] = "+"
    BY <1>3 DEF Step, Tagged, Opened
  <1>4. CASE x[1] = "-"
    <2>1. a # <<>> /\ Head(a) = x[2] /\ b = Tail(a)
      BY <1>4 DEF Step
    <2>2. a[1] = x[2]
      BY <2>1, HeadAndTail DEF Stacks
    <2> QED
      BY <1>4, <2>1, <2>2 DEF Tagged, Opened
  <1> QED
    BY <1>1, <1>2, <1>3, <1>4

LEMMA ShutNested ==
  ASSUME NEW html \in Seq(Html), Shut(html)
  PROVE  Nested(html)
  <1> DEFINE n == Len(html)
             Tag(a, x) == CASE x[1] = "t" -> a
                            [] x[1] = "+" -> [a EXCEPT !.open = <<x[2]>> \o @]
                            [] x[1] = "-" -> IF a.open # <<>> /\ a.open[1] = x[2]
                                             THEN [a EXCEPT !.open = Tail(@)] ELSE [a EXCEPT !.ok = FALSE]
             after[i \in 0 .. Len(html)] ==
               IF i = 0 THEN [ok |-> TRUE, open |-> <<>>] ELSE Tag(after[i - 1], html[i])
             Eq(f) == f = [i \in 0 .. Len(html) |->
               IF i = 0 THEN [ok |-> TRUE, open |-> <<>>] ELSE Tag(f[i - 1], html[i])]
  <1>1. Nested(html) <=> after[n] = Opened(<<>>)
    BY DEF Nested, Opened
  <1>2. after = CHOOSE f : Eq(f)
    OBVIOUS
  <1> HIDE DEF after
  <1>3. \A f : Eq(f) <=> f = [i \in 0 .. n |-> IF i = 0 THEN Opened(<<>>) ELSE Tagged(f[i - 1], html[i])]
    BY DEF Tagged, Opened
  <1> HIDE DEF Eq
  <1>4. PICK g \in Trails(<<>>, html, <<>>) : TRUE
    BY DEF Shut, Walk
  <1>5. html \in Seq(Marks_)
    BY HtmlMarks
  <1>6. /\ g \in [0 .. n -> Stacks] /\ g[0] = <<>> /\ g[n] = <<>>
        /\ \A i \in 1 .. n : Step(g[i - 1], html[i], g[i])
    BY <1>4 DEF Trails
  <1>7. n \in Nat /\ \A i \in 1 .. n : html[i] \in Html
    OBVIOUS
  <1> HIDE DEF n
  <1>8. \A i \in 0 .. n : i # 0 => i \in 1 .. n /\ i - 1 \in 0 .. n
    BY <1>7
  <1>9. \A i \in 1 .. n : i - 1 \in 0 .. n
    BY <1>7
  <1>10. \A i \in 1 .. n : Tagged(Opened(g[i - 1]), html[i]) = Opened(g[i])
    <2>1. SUFFICES ASSUME NEW i \in 1 .. n PROVE Tagged(Opened(g[i - 1]), html[i]) = Opened(g[i])
      OBVIOUS
    <2>2. g[i - 1] \in Stacks /\ html[i] \in Html /\ Step(g[i - 1], html[i], g[i])
      BY <1>6, <1>7, <1>9
    <2> QED
      BY <2>2, TaggedStep
  <1> DEFINE f == [i \in 0 .. n |-> Opened(g[i])]
  <1>11. Eq(f)
    <2>1. f = [i \in 0 .. n |-> IF i = 0 THEN Opened(<<>>) ELSE Tagged(f[i - 1], html[i])]
      BY <1>6, <1>8, <1>10
    <2> HIDE DEF f
    <2> QED
      BY <1>3, <2>1
  <1>12. Eq(after)
    BY <1>2, <1>11
  <1>13. after = [i \in 0 .. n |-> IF i = 0 THEN Opened(<<>>) ELSE Tagged(after[i - 1], html[i])]
    BY <1>3, <1>12
  <1> HIDE DEF f
  <1> DEFINE P == {i \in Nat : i <= n => after[i] = Opened(g[i])}
  <1>14. 0 \in P
    <2>1. 0 \in 0 .. n
      BY <1>7
    <2> QED
      BY <1>6, <1>13, <2>1
  <1>15. ASSUME NEW i \in Nat, i \in P PROVE i + 1 \in P
    <2>1. SUFFICES ASSUME i + 1 <= n PROVE after[i + 1] = Opened(g[i + 1])
      OBVIOUS
    <2>2. i + 1 \in 1 .. n /\ i + 1 \in 0 .. n /\ (i + 1) - 1 = i /\ i + 1 # 0 /\ i <= n
      BY <1>7, <2>1
    <2>3. after[i + 1] = Tagged(after[i], html[i + 1])
      BY <1>13, <2>2
    <2>4. after[i] = Opened(g[i])
      BY <1>15, <2>2
    <2> QED
      BY <1>10, <2>2, <2>3, <2>4
  <1> HIDE DEF P
  <1>16. n \in P
    BY <1>7, <1>14, <1>15, SetInduction
  <1> QED
    BY <1>1, <1>6, <1>7, <1>16 DEF P

LEMMA ShutJoined ==
  ASSUME NEW n \in Nat, NEW f, f = [i \in 1 .. n |-> f[i]], \A i \in 1 .. n : f[i] \in Seq(Html) /\ Shut(f[i])
  PROVE  FlattenSeq(f) \in Seq(Html) /\ Shut(FlattenSeq(f))
  <1> DEFINE A == Seq(Html)
  <1>1. f \in Seq(A) /\ Len(f) = n
    <2>1. \A i \in 1 .. n : f[i] \in A
      OBVIOUS
    <2> HIDE DEF A
    <2> QED
      BY <2>1
  <1>2. f \in Seq(Seq(Html))
    BY <1>1
  <1>3. \A i \in 1 .. Len(f) : Walk(<<>>, f[i], <<>>)
    BY <1>1 DEF Shut
  <1> HIDE DEF A
  <1> QED
    BY <1>2, <1>3, FlattenType, WalkFlatten DEF Shut

LEMMA FilterShut ==
  ASSUME NEW r \in Rends, \A i \in DOMAIN r.blocks : Shut(r.blocks[i].html),
         NEW view, NEW skip, NEW stopafter, NEW cutshort
  PROVE  LET h == Filter(r.blocks, view, skip, stopafter, cutshort)
         IN h \in Seq(Html) /\ Shut(h)
  <1> DEFINE blocks == r.blocks
             skips == {i \in DOMAIN blocks : skip = "" \/ blocks[i].what \notin {skip, "blank"}}
             first == Min(skips \cup {Len(blocks) + 1})
             At(what) == {i \in first .. Len(blocks) : blocks[i].what = what}
             cut == IF cutshort /\ view # "normal" THEN {i - 1 : i \in At("cutshort")} ELSE {}
             stops == cut \cup At(stopafter) \cup {Len(blocks)}
             last == Min(stops)
             m == last - first + 1
             n == IF m > 0 THEN m ELSE 0
             f == [i \in 1 .. m |-> blocks[first + i - 1].html]
             A == [what : Whats, html : Seq(Html)]
  <1>1. blocks \in Seq(A) /\ \A i \in DOMAIN blocks : Shut(blocks[i].html)
    BY DEF Rends
  <1>0. \A b \in A : b.html \in Seq(Html)
    OBVIOUS
  <1>3. Filter(r.blocks, view, skip, stopafter, cutshort) = FlattenSeq(f)
    BY DEF Filter
  <1> HIDE DEF blocks, A
  <1>2. /\ DOMAIN blocks = 1 .. Len(blocks) /\ Len(blocks) \in Nat
        /\ \A i \in 1 .. Len(blocks) : blocks[i].html \in Seq(Html) /\ Shut(blocks[i].html)
    <2>1. DOMAIN blocks = 1 .. Len(blocks) /\ Len(blocks) \in Nat
      BY <1>1
    <2>2. \A i \in 1 .. Len(blocks) : blocks[i] \in A
      BY <1>1
    <2> QED
      BY <1>0, <1>1, <2>1, <2>2, Zenon
  <1>4. first \in Nat /\ first >= 1
    <2> DEFINE S == skips \cup {Len(blocks) + 1}
    <2>0. skips \subseteq 1 .. Len(blocks)
      BY <1>2, Zenon
    <2>1. S \subseteq Nat /\ S # {} /\ \A i \in S : i >= 1
      <3> HIDE DEF skips
      <3>1. Len(blocks) + 1 \in Nat /\ Len(blocks) + 1 >= 1 /\ Len(blocks) + 1 \in S
        BY <1>2
      <3>2. ASSUME NEW i \in skips PROVE i \in Nat /\ i >= 1
        BY <1>2, <2>0
      <3>3. ASSUME NEW i \in S PROVE i \in Nat /\ i >= 1
        <4>1. i \in skips \/ i = Len(blocks) + 1
          OBVIOUS
        <4> QED
          BY <3>1, <3>2, <4>1, Zenon
      <3> HIDE DEF S
      <3> QED
        BY <3>1, <3>3, Zenon
    <2> HIDE DEF S
    <2>2. Min(S) \in S
      BY <2>1, MinFacts
    <2> QED
      BY <2>1, <2>2 DEF S
  <1> HIDE DEF first
  <1>5. last \in Nat /\ last <= Len(blocks)
    <2>1. \A what : At(what) \subseteq Nat /\ \A i \in At(what) : i - 1 \in Nat
      BY <1>2, <1>4
    <2>2. cut \subseteq Nat
      BY <2>1
    <2>3. stops \subseteq Nat /\ Len(blocks) \in stops
      BY <1>2, <2>1, <2>2
    <2> HIDE DEF stops
    <2> QED
      BY <2>3, MinFacts
  <1> HIDE DEF last
  <1>6. n \in Nat /\ 1 .. m = 1 .. n /\ \A i \in 1 .. n : first + i - 1 \in 1 .. Len(blocks)
    BY <1>2, <1>4, <1>5
  <1>7. \A i \in 1 .. n : f[i] \in Seq(Html) /\ Shut(f[i])
    BY <1>2, <1>6
  <1>8. f = [i \in 1 .. n |-> f[i]]
    BY <1>6
  <1> HIDE DEF f, n
  <1>9. FlattenSeq(f) \in Seq(Html) /\ Shut(FlattenSeq(f))
    BY <1>6, <1>7, <1>8, ShutJoined
  <1> QED
    BY <1>3, <1>9

LEMMA WrittenNests == ASSUME IInv, WrittenOK PROVE ViewsNest
  <1>1. SUFFICES ASSUME ~rend.leak, NEW view, NEW skip, NEW stop, NEW cut
                 PROVE  Nested(Filter(rend.blocks, view, skip, stop, cut)) /\ Nested(rend.title)
    BY DEF ViewsNest
  <1>2. rend \in Rends
    BY DEF IInv, TypeOK
  <1>3. rend.title \in Seq(Html)
    BY <1>2 DEF Rends
  <1>4. Shut(rend.title) /\ \A i \in DOMAIN rend.blocks : Shut(rend.blocks[i].html)
    BY <1>1 DEF WrittenOK, ShutBlocks
  <1> DEFINE h == Filter(rend.blocks, view, skip, stop, cut)
  <1>5. h \in Seq(Html) /\ Shut(h)
    BY <1>2, <1>4, FilterShut
  <1> HIDE DEF h
  <1> QED
    BY <1>3, <1>4, <1>5, ShutNested DEF h

\* WikiText "should result in valid and properly nested HTML": whichever blocks a
\* view takes, it ends the elements and styles that it begins, in their order.
THEOREM NestsAlways == Spec => []ViewsNest
  <1>1. IInv /\ WrittenOK => ViewsNest
    BY WrittenNests
  <1> QED
    BY <1>1, Inductive, Written, PTL

=============================================================================
