----------------------------- MODULE TextsProofs -----------------------------
(*****************************************************************************)
(* Facts about texts: numbers, loops, the first symbol of a kind, what       *)
(* FlattenSeq puts together and what getline and SubSeq take apart.          *)
(*****************************************************************************)
EXTENDS Texts, Integers, SequenceTheorems, WellFoundedInduction, TLAPS

-----------------------------------------------------------------------------
(* Numbers *)

(* A set of numbers has a least one. *)
LEMMA Least ==
    ASSUME NEW T, T \subseteq Nat, T # {}
    PROVE  \E n \in T : \A m \in T : n <= m
<1> DEFINE below == {p \in Nat \X Nat : p[1] < p[2]}
<1>0. OpToRel(<, Nat) = below
  BY DEF OpToRel
<1>1. IsWellFoundedOn(below, Nat)
  BY <1>0, NatLessThanWellFounded
<1> HIDE DEF below
<1>2. PICK x \in T : \A y \in T : ~ (<<y, x>> \in below)
  BY <1>1, WFMin, Zenon
<1>3. \A y \in T : ~(y < x)
  BY <1>2 DEF below
<1> QED
  BY <1>3

LEMMA Induction ==
    ASSUME NEW T, 0 \in T, \A n \in Nat : n \in T => n + 1 \in T
    PROVE  \A n \in Nat : n \in T
<1> SUFFICES ASSUME NEW k \in Nat, k \notin T PROVE FALSE
  OBVIOUS
<1>1. PICK n \in Nat \ T : \A m \in Nat \ T : n <= m
  BY Least
<1>2. n - 1 \in Nat /\ n - 1 \in T
  BY <1>1
<1> QED
  BY <1>1, <1>2

-----------------------------------------------------------------------------
(* Loops *)

(* A run of a loop of n turns, from x. *)
Run(f, F, x, n) == f[0] = x /\ \A k \in 1..n : f[k] = F[f[k - 1]]
LEMMA Iterated ==
    ASSUME NEW S, NEW F \in [S -> S], NEW x \in S, NEW n \in Nat
    PROVE  \E f \in [0..n -> S] : Run(f, F, x, n)
<1> DEFINE T == {m \in Nat : \E f \in [0..m -> S] : Run(f, F, x, m)}
<1>1. 0 \in T
  <2>1. [k \in 0..0 |-> x] \in [0..0 -> S] /\ Run([k \in 0..0 |-> x], F, x, 0)
    BY DEF Run
  <2> QED
    BY <2>1
<1>2. ASSUME NEW m \in Nat, m \in T
      PROVE  m + 1 \in T
  <2>1. PICK f \in [0..m -> S] : Run(f, F, x, m)
    BY <1>2
  <2> DEFINE g == [k \in 0..(m + 1) |-> IF k = m + 1 THEN F[f[m]] ELSE f[k]]
  <2>2. g \in [0..(m + 1) -> S]
    BY <2>1
  <2>3. g[0] = x
    BY <2>1 DEF Run
  <2>4. ASSUME NEW k \in 1..(m + 1) PROVE g[k] = F[g[k - 1]]
    <3>1. CASE k = m + 1
      BY <3>1
    <3>2. CASE k # m + 1
      <4>1. k \in 1..m /\ k - 1 \in 0..m /\ k \in 0..(m+1) /\ k-1 \in 0..(m+1) /\ k - 1 # m + 1
        BY <3>2
      <4> QED
        BY <4>1, <3>2, <2>1 DEF Run
    <3> QED
      BY <3>1, <3>2
  <2> HIDE DEF g
  <2>5. Run(g, F, x, m + 1)
    BY <2>3, <2>4 DEF Run
  <2> QED
    BY <2>2, <2>5
<1> HIDE DEF T
<1>3. \A m \in Nat : m \in T
  BY <1>1, <1>2, Induction
<1> QED
  BY <1>3 DEF T

-----------------------------------------------------------------------------
(* Texts of symbols of S *)

LEMMA JoinTyped ==
    ASSUME NEW S, NEW x \in Seq(S), NEW y \in Seq(S)
    PROVE  x \o y \in Seq(S)
OBVIOUS

(* A text is what comes first and what is left. *)
LEMMA Parts ==
    ASSUME NEW S, NEW w \in Seq(S), NEW n \in 0..Len(w)
    PROVE  /\ SubSeq(w, 1, n) \o SubSeq(w, n + 1, Len(w)) = w
           /\ SubSeq(w, 1, n) \in Seq(S) /\ Len(SubSeq(w, 1, n)) = n
           /\ SubSeq(w, n + 1, Len(w)) \in Seq(S)
           /\ Len(SubSeq(w, n + 1, Len(w))) = Len(w) - n
<1>1. /\ SubSeq(w, 1, n) \in Seq(S) /\ Len(SubSeq(w, 1, n)) = n
      /\ SubSeq(w, n + 1, Len(w)) \in Seq(S)
      /\ Len(SubSeq(w, n + 1, Len(w))) = Len(w) - n
  OBVIOUS
<1>2. /\ 1 \in 1..(Len(w) + 1) /\ n \in (1 - 1)..Len(w) /\ Len(w) \in n..Len(w)
  OBVIOUS
<1>3. SubSeq(w, 1, n) \o SubSeq(w, n + 1, Len(w)) = SubSeq(w, 1, Len(w))
  BY <1>2, ConcatAdjacentSubSeq, Zenon
<1> QED
  BY <1>1, <1>3, SubSeqFull, Zenon

LEMMA TwoOnes ==
    ASSUME NEW a, NEW b
    PROVE  <<a, b>> = <<a>> \o <<b>>
<1> DEFINE S == {a, b}
           x == <<a>>
           y == <<b>>
           z == <<a, b>>
<1>1. x \in Seq(S) /\ y \in Seq(S) /\ z \in Seq(S)
  <2>1. a \in S /\ b \in S
    OBVIOUS
  <2> HIDE DEF S
  <2> QED
    BY <2>1
<1> HIDE DEF S
<1>2. Len(x \o y) = 2 /\ Len(z) = 2
  OBVIOUS
<1>3. (x \o y)[1] = a /\ (x \o y)[2] = b
  OBVIOUS
<1>4. \A i \in 1..2 : (x \o y)[i] = z[i]
  BY <1>3
<1>5. x \o y \in Seq(S)
  BY <1>1, ConcatProperties
<1> HIDE DEF x, y, z
<1>6. x \o y = z
  BY <1>1, <1>2, <1>4, <1>5, SeqEqual
<1> QED
  BY <1>6 DEF x, y, z

LEMMA TwoTwos ==
    ASSUME NEW a, NEW b, NEW c, NEW d
    PROVE  <<a, b>> \o <<c, d>> = <<a, b, c, d>>
<1> DEFINE S == {a, b, c, d}
           x == <<a, b>>
           y == <<c, d>>
           z == <<a, b, c, d>>
<1>1. x \in Seq(S) /\ y \in Seq(S) /\ z \in Seq(S)
  <2>1. a \in S /\ b \in S /\ c \in S /\ d \in S
    OBVIOUS
  <2> HIDE DEF S
  <2> QED
    BY <2>1
<1> HIDE DEF S
<1>2. Len(x \o y) = 4 /\ Len(z) = 4
  OBVIOUS
<1>3. (x \o y)[1] = a /\ (x \o y)[2] = b /\ (x \o y)[3] = c /\ (x \o y)[4] = d
  OBVIOUS
<1>4. \A i \in 1..4 : (x \o y)[i] = z[i]
  BY <1>3
<1>5. x \o y \in Seq(S)
  BY <1>1, ConcatProperties
<1> HIDE DEF x, y, z
<1>6. x \o y = z
  BY <1>1, <1>2, <1>4, <1>5, SeqEqual
<1> QED
  BY <1>6 DEF x, y, z

LEMMA FourAndOne ==
    ASSUME NEW a, NEW b, NEW c, NEW d, NEW e
    PROVE  <<a, b, c, d>> \o <<e>> = <<a, b, c, d, e>>
<1> DEFINE S == {a, b, c, d, e}
           x == <<a, b, c, d>>
           y == <<e>>
           z == <<a, b, c, d, e>>
<1>1. x \in Seq(S) /\ y \in Seq(S) /\ z \in Seq(S)
  <2>1. a \in S /\ b \in S /\ c \in S /\ d \in S /\ e \in S
    OBVIOUS
  <2> HIDE DEF S
  <2> QED
    BY <2>1
<1> HIDE DEF S
<1>2. Len(x \o y) = 5 /\ Len(z) = 5
  OBVIOUS
<1>3. (x \o y)[1] = a /\ (x \o y)[2] = b /\ (x \o y)[3] = c /\ (x \o y)[4] = d /\ (x \o y)[5] = e
  OBVIOUS
<1>4. \A i \in 1..5 : (x \o y)[i] = z[i]
  BY <1>3
<1>5. x \o y \in Seq(S)
  BY <1>1, ConcatProperties
<1> HIDE DEF x, y, z
<1>6. x \o y = z
  BY <1>1, <1>2, <1>4, <1>5, SeqEqual
<1> QED
  BY <1>6 DEF x, y, z

LEMMA FiveAndOne ==
    ASSUME NEW a, NEW b, NEW c, NEW d, NEW e, NEW f
    PROVE  <<a, b, c, d, e>> \o <<f>> = <<a, b, c, d, e, f>>
<1> DEFINE S == {a, b, c, d, e, f}
           x == <<a, b, c, d, e>>
           y == <<f>>
           z == <<a, b, c, d, e, f>>
<1>1. x \in Seq(S) /\ y \in Seq(S) /\ z \in Seq(S)
  <2>1. a \in S /\ b \in S /\ c \in S /\ d \in S /\ e \in S /\ f \in S
    OBVIOUS
  <2> HIDE DEF S
  <2> QED
    BY <2>1
<1> HIDE DEF S
<1>2. Len(x \o y) = 6 /\ Len(z) = 6
  OBVIOUS
<1>3. (x \o y)[1] = a /\ (x \o y)[2] = b /\ (x \o y)[3] = c /\ (x \o y)[4] = d /\ (x \o y)[5] = e /\ (x \o y)[6] = f
  OBVIOUS
<1>4. \A i \in 1..6 : (x \o y)[i] = z[i]
  BY <1>3
<1>5. x \o y \in Seq(S)
  BY <1>1, ConcatProperties
<1> HIDE DEF x, y, z
<1>6. x \o y = z
  BY <1>1, <1>2, <1>4, <1>5, SeqEqual
<1> QED
  BY <1>6 DEF x, y, z

LEMMA JoinedLen ==
    ASSUME NEW S, NEW x \in Seq(S), NEW y \in Seq(S)
    PROVE  Len(x \o y) = Len(x) + Len(y)
OBVIOUS

LEMMA JoinedBefore ==
    ASSUME NEW S, NEW x \in Seq(S), NEW y \in Seq(S)
    PROVE  \A i \in 1..Len(x) : (x \o y)[i] = x[i]
OBVIOUS

LEMMA JoinedAfter ==
    ASSUME NEW S, NEW x \in Seq(S), NEW y \in Seq(S)
    PROVE  \A i \in 1..Len(y) : (x \o y)[Len(x) + i] = y[i]
OBVIOUS

LEMMA Typed1 ==
    ASSUME NEW S, NEW a \in S
    PROVE  <<a>> \in Seq(S)
OBVIOUS

LEMMA Typed2 ==
    ASSUME NEW S, NEW a \in S, NEW b \in S
    PROVE  <<a, b>> \in Seq(S)
OBVIOUS

LEMMA Typed3 ==
    ASSUME NEW S, NEW a \in S, NEW b \in S, NEW c \in S
    PROVE  <<a, b, c>> \in Seq(S)
OBVIOUS

LEMMA Typed4 ==
    ASSUME NEW S, NEW a \in S, NEW b \in S, NEW c \in S, NEW d \in S
    PROVE  <<a, b, c, d>> \in Seq(S)
OBVIOUS

LEMMA Typed5 ==
    ASSUME NEW S, NEW a \in S, NEW b \in S, NEW c \in S, NEW d \in S, NEW e \in S
    PROVE  <<a, b, c, d, e>> \in Seq(S)
OBVIOUS

-----------------------------------------------------------------------------
(* The first symbol x *)

LEMMA FindFirst ==
    ASSUME NEW S, NEW s \in Seq(S), NEW x
    PROVE  /\ Find(s, x) \in 0..Len(s)
           /\ Find(s, x) = 0 => \A i \in 1..Len(s) : s[i] # x
           /\ Find(s, x) # 0 => /\ s[Find(s, x)] = x
                                /\ \A j \in 1..(Find(s, x) - 1) : s[j] # x
<1> DEFINE I == {i \in 1..Len(s) : s[i] = x}
<1>1. CASE I = {}
  BY <1>1 DEF Find, SelectInSeq
<1>2. CASE I # {}
  <2>1. PICK n \in I : \A m \in I : n <= m
    <3>1. I \subseteq Nat
      OBVIOUS
    <3> HIDE DEF I
    <3> QED
      BY <1>2, <3>1, Least
  <2>2. Find(s, x) \in I /\ \A m \in I : Find(s, x) <= m
    <3>1. Find(s, x) = CHOOSE k \in I : \A m \in I : k <= m
      BY <1>2 DEF Find, SelectInSeq, Min
    <3> HIDE DEF I
    <3> QED
      BY <2>1, <3>1
  <2> QED
    BY <2>2
<1> QED
  BY <1>1, <1>2

(* Where it is, if it is known. *)
LEMMA FindAt ==
    ASSUME NEW S, NEW s \in Seq(S), NEW x, NEW n \in 1..Len(s),
           s[n] = x, \A j \in 1..(n - 1) : s[j] # x
    PROVE  Find(s, x) = n
BY FindFirst

LEMMA FindNone ==
    ASSUME NEW S, NEW s \in Seq(S), NEW x, \A j \in 1..Len(s) : s[j] # x
    PROVE  Find(s, x) = 0
BY FindFirst

-----------------------------------------------------------------------------
(* FlattenSeq *)

LEMMA FlattenNone == FlattenSeq(<<>>) = <<>>
BY DEF FlattenSeq

(* The function in FlattenSeq. *)
Joins(f, ss, n) == \A i \in 1..n : f[i] = IF i = 1 THEN ss[i] ELSE f[i - 1] \o ss[i]
LEMMA JoinsFirst ==
    ASSUME NEW f, NEW ss, NEW n \in Nat, Joins(f, ss, n), 1 \in 1..n
    PROVE  f[1] = ss[1]
BY DEF Joins

LEMMA JoinsNext ==
    ASSUME NEW f, NEW ss, NEW n \in Nat, Joins(f, ss, n),
           NEW h \in Nat, h # 0, h + 1 \in 1..n
    PROVE  f[h + 1] = f[h] \o ss[h + 1]
<1>1. f[h + 1] = IF h + 1 = 1 THEN ss[h + 1] ELSE f[h + 1 - 1] \o ss[h + 1]
  BY DEF Joins
<1>2. h + 1 # 1 /\ h + 1 - 1 = h
  OBVIOUS
<1> QED
  BY <1>1, <1>2

(* There is one such function. *)
Agree(f, g, n) == \A i \in 1..n : f[i] = g[i]
LEMMA JoinsUnique ==
    ASSUME NEW ss, NEW tt, NEW n \in Nat, Agree(ss, tt, n),
           NEW f, NEW g, Joins(f, ss, n), Joins(g, tt, n)
    PROVE  Agree(f, g, n)
<1> DEFINE U == {m \in Nat : m \in 1..n => f[m] = g[m]}
<1>1. 0 \in U
  OBVIOUS
<1>2. ASSUME NEW m \in Nat, m \in U PROVE m + 1 \in U
  <2> SUFFICES ASSUME m + 1 \in 1..n PROVE f[m + 1] = g[m + 1]
    OBVIOUS
  <2>1. /\ f[m + 1] = IF m + 1 = 1 THEN ss[m + 1] ELSE f[m + 1 - 1] \o ss[m + 1]
        /\ g[m + 1] = IF m + 1 = 1 THEN tt[m + 1] ELSE g[m + 1 - 1] \o tt[m + 1]
    BY DEF Joins
  <2>2. m + 1 - 1 = m /\ (m # 0 => m \in 1..n)
    OBVIOUS
  <2>3. m # 0 => f[m] = g[m]
    BY <1>2, <2>2
  <2>4. ss[m + 1] = tt[m + 1]
    BY DEF Agree
  <2> QED
    BY <2>1, <2>2, <2>3, <2>4
<1> HIDE DEF U
<1>3. \A m \in Nat : m \in U
  BY <1>1, <1>2, Induction
<1> QED
  BY <1>3 DEF U, Agree

LEMMA FlattenJoins ==
    ASSUME NEW S, NEW ss \in Seq(Seq(S)), Len(ss) > 0
    PROVE  \E f \in [1..Len(ss) -> Seq(S)] :
               Joins(f, ss, Len(ss)) /\ FlattenSeq(ss) = f[Len(ss)]
<1> DEFINE N == Len(ss)
           T == {m \in Nat : m <= N => \E f \in [1..m -> Seq(S)] : Joins(f, ss, m)}
           Good(f) == f = [i \in 1..N |-> IF i = 1 THEN ss[i] ELSE f[i - 1] \o ss[i]]
           g == CHOOSE f : Good(f)
<1>0. N \in Nat
  OBVIOUS
<1>1. 0 \in T
  <2>1. [i \in 1..0 |-> <<>>] \in [1..0 -> Seq(S)] /\ Joins([i \in 1..0 |-> <<>>], ss, 0)
    BY DEF Joins
  <2> QED
    BY <2>1
<1>2. ASSUME NEW m \in Nat, m \in T PROVE m + 1 \in T
  <2> SUFFICES ASSUME m + 1 <= N
               PROVE  \E f \in [1..(m + 1) -> Seq(S)] : Joins(f, ss, m + 1)
    OBVIOUS
  <2>1. PICK f \in [1..m -> Seq(S)] : Joins(f, ss, m)
    BY <1>2
  <2> DEFINE h == [i \in 1..(m + 1) |->
                      IF i = m + 1 THEN IF i = 1 THEN ss[i] ELSE f[m] \o ss[i] ELSE f[i]]
  <2>2. h \in [1..(m + 1) -> Seq(S)]
    <3>1. ss[m + 1] \in Seq(S) /\ (m # 0 => f[m] \in Seq(S))
      BY <2>1
    <3>2. m # 0 => f[m] \o ss[m + 1] \in Seq(S)
      BY <3>1
    <3> QED
      BY <3>1, <3>2
  <2>3. ASSUME NEW i \in 1..(m + 1)
        PROVE  h[i] = IF i = 1 THEN ss[i] ELSE h[i - 1] \o ss[i]
    <3>1. CASE i = m + 1
      <4>1. i # 1 => i - 1 \in 1..(m + 1) /\ i - 1 # m + 1 /\ i - 1 = m
        BY <3>1
      <4> QED
        BY <3>1, <4>1
    <3>2. CASE i # m + 1
      <4>1. i \in 1..m /\ (i # 1 => i - 1 \in 1..(m + 1) /\ i - 1 # m + 1)
        BY <3>2
      <4> QED
        BY <3>2, <4>1, <2>1 DEF Joins
    <3> QED
      BY <3>1, <3>2
  <2> HIDE DEF h
  <2>4. Joins(h, ss, m + 1)
    BY <2>3 DEF Joins
  <2> QED
    BY <2>2, <2>4
<1> HIDE DEF T
<1>3. \A m \in Nat : m \in T
  BY <1>1, <1>2, Induction
<1>4. PICK f \in [1..N -> Seq(S)] : Joins(f, ss, N)
  BY <1>0, <1>3 DEF T
<1>5. Good(f)
  BY <1>4 DEF Joins
<1>6. Good(g)
  BY <1>5
<1>7. FlattenSeq(ss) = g[N]
  BY DEF FlattenSeq
<1> HIDE DEF g
<1>8. DOMAIN g = 1..N /\ Joins(g, ss, N)
  BY <1>6 DEF Joins
<1>9. \A i \in 1..N : g[i] = f[i]
  <2>1. Agree(ss, ss, N)
    BY DEF Agree
  <2> HIDE DEF N
  <2>2. Agree(g, f, N)
    BY <1>0, <1>4, <1>8, <2>1, JoinsUnique, Zenon
  <2> QED
    BY <2>2 DEF Agree
<1>10. FlattenSeq(ss) = f[N]
  BY <1>0, <1>7, <1>9
<1> QED
  BY <1>4, <1>10

LEMMA FlattenOne ==
    ASSUME NEW S, NEW x \in Seq(S)
    PROVE  FlattenSeq(<<x>>) = x
<1>1. <<x>> \in Seq(Seq(S)) /\ Len(<<x>>) = 1 /\ <<x>>[1] = x
  OBVIOUS
<1>2. Len(<<x>>) > 0
  OBVIOUS
<1>3. PICK f \in [1..Len(<<x>>) -> Seq(S)] :
          Joins(f, <<x>>, Len(<<x>>)) /\ FlattenSeq(<<x>>) = f[Len(<<x>>)]
  BY <1>1, <1>2, FlattenJoins, Zenon
<1>4. 1 \in Nat /\ 1 \in 1..1
  OBVIOUS
<1>5. Joins(f, <<x>>, 1) /\ FlattenSeq(<<x>>) = f[1]
  BY <1>1, <1>3, Zenon
<1>6. f[1] = <<x>>[1]
  BY ONLY <1>4, <1>5, JoinsFirst
<1> QED
  BY <1>1, <1>5, <1>6, Zenon

LEMMA FlattenTyped ==
    ASSUME NEW S, NEW ss \in Seq(Seq(S))
    PROVE  FlattenSeq(ss) \in Seq(S)
<1>1. CASE ss = <<>>
  <2>1. <<>> \in Seq(S)
    OBVIOUS
  <2> QED
    BY <1>1, <2>1, FlattenNone, Zenon
<1>2. CASE Len(ss) > 0
  <2>1. PICK f \in [1..Len(ss) -> Seq(S)] : Joins(f, ss, Len(ss)) /\ FlattenSeq(ss) = f[Len(ss)]
    BY <1>2, FlattenJoins
  <2>2. Len(ss) \in 1..Len(ss)
    BY <1>2
  <2> QED
    BY <2>1, <2>2
<1> QED
  BY <1>1, <1>2

LEMMA FlattenAppend ==
    ASSUME NEW S, NEW ss \in Seq(Seq(S)), NEW x \in Seq(S)
    PROVE  FlattenSeq(Append(ss, x)) = FlattenSeq(ss) \o x
<1>1. CASE ss = <<>>
  <2>1. Append(ss, x) = <<x>> /\ FlattenSeq(ss) = <<>> /\ <<>> \o x = x
    BY <1>1, FlattenNone
  <2> QED
    BY <2>1, FlattenOne
<1>2. CASE Len(ss) > 0
  <2> DEFINE tt == Append(ss, x)
             N == Len(ss)
  <2>1. /\ tt \in Seq(Seq(S)) /\ Len(tt) = N + 1 /\ N \in Nat /\ N > 0
        /\ tt[N + 1] = x /\ \A i \in 1..N : ss[i] = tt[i]
    BY <1>2
  <2>2. PICK f \in [1..N -> Seq(S)] : Joins(f, ss, N) /\ FlattenSeq(ss) = f[N]
    BY <1>2, FlattenJoins
  <2> HIDE DEF tt, N
  <2>3. PICK g \in [1..Len(tt) -> Seq(S)] : Joins(g, tt, Len(tt)) /\ FlattenSeq(tt) = g[Len(tt)]
    <3>1. Len(tt) > 0
      BY <2>1
    <3> QED
      BY <2>1, <3>1, FlattenJoins, Zenon
  <2>a. /\ N \in Nat /\ N \in 1..N /\ N + 1 \in Nat /\ N + 1 \in 1..(N + 1)
        /\ N # 0
    BY <2>1
  <2>b. Joins(g, tt, N + 1)
    BY <2>1, <2>3, Zenon
  <2>4. Joins(g, tt, N)
    <3>1. ASSUME NEW i \in 1..N PROVE i \in 1..(N + 1)
      BY <2>a
    <3> QED
      BY <2>b, <3>1, Zenon DEF Joins
  <2>5. f[N] = g[N]
    <3>1. Agree(ss, tt, N)
      BY <2>1 DEF Agree
    <3>2. Agree(f, g, N)
      BY <2>2, <2>4, <2>a, <3>1, JoinsUnique, Zenon
    <3> QED
      BY <2>a, <3>2, Zenon DEF Agree
  <2>6. g[N + 1] = g[N] \o tt[N + 1]
    BY ONLY <2>a, <2>b, JoinsNext
  <2>8. FlattenSeq(tt) = FlattenSeq(ss) \o x
    BY <2>1, <2>2, <2>3, <2>5, <2>6, Zenon
  <2> QED
    BY <2>8 DEF tt
<1> QED
  BY <1>1, <1>2

LEMMA ConcatAppend ==
    ASSUME NEW S, NEW ss \in Seq(Seq(S)), NEW vv \in Seq(Seq(S)), NEW x \in Seq(S),
           FlattenSeq(ss \o vv) = FlattenSeq(ss) \o FlattenSeq(vv)
    PROVE  FlattenSeq(ss \o Append(vv, x)) = FlattenSeq(ss) \o FlattenSeq(Append(vv, x))
<1>1. ss \o Append(vv, x) = Append(ss \o vv, x) /\ ss \o vv \in Seq(Seq(S))
  OBVIOUS
<1>2. \A a, b \in Seq(S) : (a \o b) \o x = a \o (b \o x)
  BY ConcatAssociative, SMTT(30)
<1>3. FlattenSeq(ss) \in Seq(S) /\ FlattenSeq(vv) \in Seq(S)
  BY FlattenTyped
<1>4. FlattenSeq(Append(ss \o vv, x)) = FlattenSeq(ss \o vv) \o x
  BY <1>1, FlattenAppend
<1>5. FlattenSeq(Append(vv, x)) = FlattenSeq(vv) \o x
  BY FlattenAppend
<1> QED
  BY <1>1, <1>2, <1>3, <1>4, <1>5, Zenon

LEMMA FlattenConcat ==
    ASSUME NEW S, NEW ss \in Seq(Seq(S)), NEW tt \in Seq(Seq(S))
    PROVE  FlattenSeq(ss \o tt) = FlattenSeq(ss) \o FlattenSeq(tt)
<1> DEFINE Holds(uu) == FlattenSeq(ss \o uu) = FlattenSeq(ss) \o FlattenSeq(uu)
           T == {n \in Nat : \A uu \in Seq(Seq(S)) : Len(uu) = n => Holds(uu)}
<1>1. 0 \in T
  <2> SUFFICES ASSUME NEW uu \in Seq(Seq(S)), Len(uu) = 0 PROVE Holds(uu)
    OBVIOUS
  <2>1. uu = <<>> /\ ss \o uu = ss
    OBVIOUS
  <2>2. FlattenSeq(ss) \in Seq(S) /\ FlattenSeq(uu) = <<>>
    BY <2>1, FlattenTyped, FlattenNone
  <2>3. FlattenSeq(ss) \o <<>> = FlattenSeq(ss)
    BY <2>2
  <2> QED
    BY <2>1, <2>2, <2>3
<1>2. ASSUME NEW n \in Nat, n \in T PROVE n + 1 \in T
  <2> SUFFICES ASSUME NEW uu \in Seq(Seq(S)), Len(uu) = n + 1 PROVE Holds(uu)
    OBVIOUS
  <2> DEFINE vv == SubSeq(uu, 1, n)
             x == uu[n + 1]
  <2>1. vv \in Seq(Seq(S)) /\ Len(vv) = n /\ x \in Seq(S) /\ uu = Append(vv, x)
    OBVIOUS
  <2>2. Holds(vv)
    BY <1>2, <2>1
  <2> HIDE DEF vv, x
  <2> QED
    BY <2>1, <2>2, ConcatAppend
<1> HIDE DEF T
<1>3. \A n \in Nat : n \in T
  BY <1>1, <1>2, Induction
<1> QED
  BY <1>3 DEF T

(* What holds of the parts, and of two texts one after the other. *)
LEMMA FlattenIn ==
    ASSUME NEW S, NEW ss \in Seq(Seq(S)), NEW P \in SUBSET Seq(S), <<>> \in P,
           \A x \in P : \A y \in P : x \o y \in P, \A i \in 1..Len(ss) : ss[i] \in P
    PROVE  FlattenSeq(ss) \in P
<1>1. CASE ss = <<>>
  BY <1>1, FlattenNone, Zenon
<1>2. CASE Len(ss) > 0
  <2>1. PICK f \in [1..Len(ss) -> Seq(S)] : Joins(f, ss, Len(ss)) /\ FlattenSeq(ss) = f[Len(ss)]
    BY <1>2, FlattenJoins
  <2> DEFINE T == {m \in Nat : m \in 1..Len(ss) => f[m] \in P}
  <2>2. 0 \in T
    OBVIOUS
  <2>3. ASSUME NEW m \in Nat, m \in T PROVE m + 1 \in T
    <3> SUFFICES ASSUME m + 1 \in 1..Len(ss) PROVE f[m + 1] \in P
      OBVIOUS
    <3>1. Len(ss) \in Nat /\ m + 1 - 1 = m /\ (m # 0 => m \in 1..Len(ss))
      OBVIOUS
    <3>2. m = 0 => f[m + 1] = ss[m + 1]
      <4>1. m = 0 => 1 \in 1..Len(ss) /\ m + 1 = 1
        OBVIOUS
      <4> QED
        BY <2>1, <3>1, <4>1, JoinsFirst
    <3>5. m # 0 => f[m + 1] = f[m] \o ss[m + 1]
      BY ONLY <2>1, <3>1, m \in Nat, m + 1 \in 1..Len(ss), JoinsNext
    <3>3. m # 0 => f[m] \in P
      BY <2>3, <3>1
    <3>4. ss[m + 1] \in P
      OBVIOUS
    <3> QED
      BY <3>2, <3>3, <3>4, <3>5, Zenon
  <2> HIDE DEF T
  <2>4. \A m \in Nat : m \in T
    BY <2>2, <2>3, Induction
  <2> QED
    BY <1>2, <2>1, <2>4 DEF T
<1> QED
  BY <1>1, <1>2

-----------------------------------------------------------------------------
(* Texts and what they are put together from *)

(* The two parts of a text again. *)
LEMMA Unjoined ==
    ASSUME NEW S, NEW a \in Seq(S), NEW b \in Seq(S)
    PROVE  /\ From(a \o b, Len(a) + 1) = b
           /\ SubSeq(a \o b, 1, Len(a)) = a
<1>1. a \o b \in Seq(S) /\ Len(a \o b) = Len(a) + Len(b) /\ Len(a) \in Nat /\ Len(b) \in Nat
  OBVIOUS
<1>2. \A i \in 1..Len(a) : (a \o b)[i] = a[i]
  BY JoinedBefore
<1>3. \A i \in 1..Len(b) : (a \o b)[Len(a) + i] = b[i]
  BY JoinedAfter
<1> DEFINE s == a \o b
           x == SubSeq(s, Len(a) + 1, Len(s))
           y == SubSeq(s, 1, Len(a))
<1> HIDE DEF s
<1>4. x \in Seq(S) /\ Len(x) = Len(b) /\ \A i \in 1..Len(b) : x[i] = s[Len(a) + i]
  BY <1>1 DEF s
<1>5. y \in Seq(S) /\ Len(y) = Len(a) /\ \A i \in 1..Len(a) : y[i] = s[i]
  BY <1>1 DEF s
<1> HIDE DEF x, y
<1>6. x = b
  BY <1>3, <1>4, SeqEqual DEF s
<1>7. y = a
  BY <1>2, <1>5, SeqEqual DEF s
<1> QED
  BY <1>6, <1>7, Zenon DEF From, x, y, s

Lacks(s, x) == \A i \in 1..Len(s) : s[i] # x
LEMMA LacksNone ==
    ASSUME NEW x
    PROVE  Lacks(<<>>, x)
BY DEF Lacks

LEMMA Lacks1 ==
    ASSUME NEW y, NEW x, y # x
    PROVE  Lacks(<<y>>, x)
BY DEF Lacks

LEMMA LacksJoin ==
    ASSUME NEW S, NEW a \in Seq(S), NEW b \in Seq(S), NEW x, Lacks(a, x), Lacks(b, x)
    PROVE  Lacks(a \o b, x)
<1> SUFFICES ASSUME NEW i \in 1..Len(a \o b) PROVE (a \o b)[i] # x
  BY DEF Lacks
<1>1. CASE i <= Len(a)
  <2>1. i \in 1..Len(a) /\ (a \o b)[i] = a[i]
    BY <1>1
  <2> QED
    BY <2>1 DEF Lacks
<1>2. CASE i > Len(a)
  <2>1. i - Len(a) \in 1..Len(b) /\ (a \o b)[i] = b[i - Len(a)]
    BY <1>2
  <2> QED
    BY <2>1 DEF Lacks
<1> QED
  BY <1>1, <1>2

Lacking(s, n, x) == \A i \in 1..n : s[i] # x
LEMMA FoundAt ==
    ASSUME NEW S, NEW s \in Seq(S), NEW x, NEW n \in Nat, n + 1 \in 1..Len(s),
           s[n + 1] = x, Lacking(s, n, x)
    PROVE  Find(s, x) = n + 1
<1> DEFINE k == n + 1
<1>1. k \in 1..Len(s) /\ k - 1 = n /\ s[k] = x
  OBVIOUS
<1> HIDE DEF k
<1>2. \A j \in 1..(k - 1) : s[j] # x
  BY <1>1, Zenon DEF Lacking
<1>3. Find(s, x) = k
  BY <1>1, <1>2, FindAt
<1> QED
  BY <1>3 DEF k

(* A text up to its first x, and what follows. *)
Splits(s, x, a, b) == Find(s, x) = Len(a) + 1 /\ Until(s, x) = a /\ After(s, x) = b
LEMMA SplitAt ==
    ASSUME NEW S, NEW a \in Seq(S), NEW x \in S, NEW b \in Seq(S), Lacks(a, x)
    PROVE  Splits(a \o (<<x>> \o b), x, a, b)
<1> DEFINE t == <<x>> \o b
           s == a \o t
<1>1. t \in Seq(S) /\ Len(t) = 1 + Len(b) /\ t[1] = x /\ Len(a) \in Nat /\ Len(b) \in Nat
  OBVIOUS
<1> HIDE DEF t
<1>2. s \in Seq(S) /\ Len(s) = Len(a) + Len(t)
  BY <1>1, JoinTyped, JoinedLen
<1>3. s[Len(a) + 1] = x
  <2>1. \A i \in 1..Len(t) : s[Len(a) + i] = t[i]
    BY <1>1, JoinedAfter
  <2> HIDE DEF s
  <2> QED
    BY <1>1, <2>1
<1>4. Lacking(s, Len(a), x)
  BY <1>1, JoinedBefore DEF Lacks, Lacking
<1>5. Until(s, x) = a /\ SubSeq(s, 1, Len(a)) = a
  <2>1. SubSeq(s, 1, Len(a)) = a
    BY <1>1, Unjoined, Zenon
  <2>2. Find(s, x) = Len(a) + 1
    <3> HIDE DEF s
    <3>1. Len(a) + 1 \in 1..Len(s)
      BY <1>1, <1>2
    <3> QED
      BY <1>1, <1>2, <1>3, <1>4, <3>1, FoundAt, Zenon
  <2> HIDE DEF s
  <2> QED
    BY <1>1, <2>1, <2>2 DEF Until
<1>6. Find(s, x) = Len(a) + 1
    <2> HIDE DEF s
    <2>1. Len(a) + 1 \in 1..Len(s)
      BY <1>1, <1>2
    <2> QED
      BY <1>1, <1>2, <1>3, <1>4, <2>1, FoundAt, Zenon
<1>7. From(s, Len(a) + 2) = b
  <2>1. s = (a \o <<x>>) \o b
    <3>1. <<x>> \in Seq(S)
      OBVIOUS
    <3>2. \A u, v, w \in Seq(S) : (u \o v) \o w = u \o (v \o w)
      BY SMTT(30)
    <3> QED
      BY <3>1, <3>2, Zenon DEF t
  <2>2. a \o <<x>> \in Seq(S) /\ Len(a \o <<x>>) = Len(a) + 1
    OBVIOUS
  <2> DEFINE u == a \o <<x>>
  <2> HIDE DEF u
  <2>3. From(u \o b, Len(u) + 1) = b
    BY <2>2, Unjoined DEF u
  <2>4. Len(u) + 1 = Len(a) + 2
    BY <1>1, <2>2 DEF u
  <2> QED
    BY <2>1, <2>3, <2>4, Zenon DEF u
<1>8. After(s, x) = b
  <2> HIDE DEF s
  <2>1. Find(s, x) # 0 /\ Find(s, x) + 1 = Len(a) + 2
    BY <1>1, <1>6
  <2> QED
    BY <1>7, <2>1, Zenon DEF After
<1> QED
  BY <1>2, <1>5, <1>6, <1>8 DEF t, Splits

LEMMA SplitNone ==
    ASSUME NEW S, NEW s \in Seq(S), NEW x, Lacks(s, x)
    PROVE  Find(s, x) = 0 /\ Until(s, x) = s /\ After(s, x) = <<>>
<1>1. Find(s, x) = 0
  BY FindNone DEF Lacks
<1> QED
  BY <1>1 DEF Until, After

(* What follows the first n symbols. *)
LEMMA Follows ==
    ASSUME NEW S, NEW a \in Seq(S), NEW b \in Seq(S), NEW n, Len(a) = n
    PROVE  From(a \o b, n + 1) = b
BY Unjoined, Zenon

Starts(s, x) == Len(s) > 0 /\ s[1] = x
LEMMA StartsJoined ==
    ASSUME NEW S, NEW a \in Seq(S), NEW b \in Seq(S), NEW x, Starts(a, x)
    PROVE  Starts(a \o b, x)
<1>1. 1 \in 1..Len(a) /\ Len(a) \in Nat /\ Len(b) \in Nat
  BY DEF Starts
<1>4. \A i \in 1..Len(a) : (a \o b)[i] = a[i]
  BY JoinedBefore, Zenon
<1>2. (a \o b)[1] = a[1]
  BY <1>1, <1>4, Zenon
<1>3. Len(a \o b) = Len(a) + Len(b)
  BY JoinedLen, Zenon
<1> QED
  BY <1>1, <1>2, <1>3 DEF Starts

LEMMA StartsAfter ==
    ASSUME NEW S, NEW a \in Seq(S), NEW b \in Seq(S)
    PROVE  \A i \in 1..Len(a) : (a \o b)[i] = a[i] /\ i \in 1..Len(a \o b)
<1>1. Len(a) \in Nat /\ Len(b) \in Nat /\ Len(a \o b) = Len(a) + Len(b)
  BY JoinedLen, LenProperties, Zenon
<1>2. \A i \in 1..Len(a) : i \in 1..Len(a \o b)
  BY ONLY <1>1
<1> QED
  BY <1>2, JoinedBefore, Zenon

LEMMA Single ==
    ASSUME NEW S, NEW s \in Seq(S), Len(s) >= 1
    PROVE  SubSeq(s, 1, 1) = <<s[1]>>
<1> DEFINE x == SubSeq(s, 1, 1)
           a == s[1]
           y == <<a>>
<1>1. Len(s) \in Nat /\ 1 \in 1..Len(s) /\ a \in S
  OBVIOUS
<1>2. x \in Seq(S) /\ Len(x) = 1 /\ x[1] = a
  BY <1>1
<1> HIDE DEF a
<1>3. y \in Seq(S) /\ Len(y) = 1 /\ y[1] = a
  BY <1>1
<1> HIDE DEF x, y
<1>4. \A i \in 1..Len(x) : x[i] = y[i]
  BY <1>2, <1>3
<1>5. x = y
  BY <1>2, <1>3, <1>4, SeqEqual
<1> QED
  BY <1>5 DEF x, y, a

(* Where a text of one symbol stands. *)
LEMMA PositionOf ==
    ASSUME NEW S, NEW s \in Seq(S), NEW x \in S
    PROVE  Position(s, <<x>>) = Find(s, x)
<1> DEFINE places == {i \in DOMAIN s : IsPrefix(<<x>>, From(s, i))}
           found == {i \in 1..Len(s) : s[i] = x}
<1>1. places = found
  <2>1. DOMAIN s = 1..Len(s)
    OBVIOUS
  <2>2. ASSUME NEW i \in 1..Len(s) PROVE IsPrefix(<<x>>, From(s, i)) <=> s[i] = x
    <3> DEFINE f == From(s, i)
    <3>1. f \in Seq(S) /\ Len(f) = Len(s) - i + 1 /\ f[1] = s[i] /\ Len(f) >= 1
      BY DEF From
    <3>2. SubSeq(f, 1, 1) = <<f[1]>>
      BY <3>1, Single DEF f
    <3>3. Len(<<x>>) = 1 /\ SubSeq(<<x>>, 1, 1) = <<x>>
      <4> DEFINE t == <<x>>
      <4>1. t \in Seq(S) /\ Len(t) = 1 /\ t[1] = x /\ Len(t) >= 1
        OBVIOUS
      <4> HIDE DEF t
      <4>2. SubSeq(t, 1, 1) = <<t[1]>>
        BY <4>1, Single, Zenon
      <4> QED
        BY <4>1, <4>2, Zenon DEF t
    <3> HIDE DEF f
    <3>4. IsPrefix(<<x>>, f) <=> <<x>> = <<f[1]>>
      BY <3>1, <3>2, <3>3 DEF IsPrefix
    <3>5. <<x>> = <<f[1]>> <=> x = f[1]
      OBVIOUS
    <3> QED
      BY <3>1, <3>4, <3>5, Zenon DEF f
  <2> QED
    BY <2>1, <2>2, Zenon
<1>2. Position(s, <<x>>) = IF places = {} THEN 0 ELSE CHOOSE i \in places : \A j \in places : i <= j
  BY DEF Position
<1>3. Find(s, x) = IF found = {} THEN 0 ELSE CHOOSE i \in found : \A j \in found : i <= j
  BY DEF Find, SelectInSeq, Min
<1> HIDE DEF places, found
<1> QED
  BY <1>1, <1>2, <1>3

(* Where any text stands in another one. *)
StandsAt(t, s, i) ==
    i + Len(t) <= Len(s) + 1 /\ \A j \in 1..Len(t) : s[i + j - 1] = t[j]
LEMMA PrefixAt ==
    ASSUME NEW S, NEW s \in Seq(S), NEW t \in Seq(S), NEW i \in 1..Len(s)
    PROVE  IsPrefix(t, From(s, i)) <=> StandsAt(t, s, i)
<1> DEFINE f == From(s, i)
           n == Len(t)
           m == Len(s)
           g == SubSeq(f, 1, n)
<1>1. n \in Nat /\ m \in Nat /\ i \in Nat /\ i >= 1 /\ i <= m
  BY LenProperties
<1>2. f \in Seq(S) /\ Len(f) = m - i + 1 /\ \A j \in 1..(m - i + 1) : f[j] = s[i + j - 1]
  BY <1>1, SubSeqProperties DEF From
<1>3. SubSeq(t, 1, n) = t
  BY SubSeqFull, Zenon
<1> HIDE DEF f
<1>4. IsPrefix(t, f) <=> n <= Len(f) /\ t = g
  BY <1>3, Zenon DEF IsPrefix
<1>5. n <= Len(f) <=> i + n <= m + 1
  BY ONLY <1>1, <1>2
<1>6. ASSUME n <= Len(f)
      PROVE  t = g <=> \A j \in 1..n : s[i + j - 1] = t[j]
  <2>1. g \in Seq(S) /\ Len(g) = n /\ \A j \in 1..n : g[j] = f[j]
    BY <1>1, <1>2, <1>6
  <2>2. \A j \in 1..n : j \in 1..(m - i + 1)
    BY ONLY <1>1, <1>2, <1>6
  <2> HIDE DEF g
  <2>3. \A j \in 1..n : g[j] = s[i + j - 1]
    BY <1>2, <2>1, <2>2, Zenon
  <2>4. (\A j \in 1..n : s[i + j - 1] = t[j]) => t = g
    BY <2>1, <2>3, SeqEqual
  <2> QED
    BY <2>3, <2>4, Zenon
<1> QED
  BY <1>4, <1>5, <1>6, Zenon DEF StandsAt, f, n, m

(* The first place, if it is known. *)
LEMMA PositionAt ==
    ASSUME NEW S, NEW s \in Seq(S), NEW t \in Seq(S), NEW n \in 1..Len(s),
           StandsAt(t, s, n), \A i \in 1..(n - 1) : ~StandsAt(t, s, i)
    PROVE  Position(s, t) = n
<1> DEFINE places == {i \in DOMAIN s : IsPrefix(t, From(s, i))}
<1>1. DOMAIN s = 1..Len(s) /\ Len(s) \in Nat
  BY LenProperties
<1>2. places = {i \in 1..Len(s) : StandsAt(t, s, i)}
  BY <1>1, PrefixAt, Zenon
<1>3. n \in places
  BY <1>2
<1>4. ASSUME NEW i \in places PROVE n <= i
  <2>1. i \in 1..Len(s) /\ i \notin 1..(n - 1)
    BY <1>2
  <2> QED
    BY <1>1, <2>1
<1>5. Position(s, t) = IF places = {} THEN 0 ELSE CHOOSE i \in places : \A j \in places : i <= j
  BY DEF Position
<1>6. places \subseteq Nat
  BY <1>1
<1> HIDE DEF places
<1> DEFINE First(i) == \A j \in places : i <= j
<1>8. First(n) /\ \A i \in places : First(i) => i = n
  BY <1>3, <1>4, <1>6
<1> HIDE DEF First
<1>9. (CHOOSE i \in places : First(i)) = n
  BY <1>3, <1>8
<1>7. (CHOOSE i \in places : \A j \in places : i <= j) = n
  BY <1>9 DEF First
<1> QED
  BY <1>3, <1>5, <1>7

LEMMA PositionNone ==
    ASSUME NEW t
    PROVE  Position(<<>>, t) = 0
BY DEF Position

-----------------------------------------------------------------------------
(* Runs of one symbol *)

(* From i on, x up to n. *)
AllSame(s, x, i, n) == \A j \in i..(n - 1) : s[j] = x
(* As the two directions of ft_skip_space choose. *)
Ahead(s, x, i) ==
    CHOOSE k \in i..(Len(s) + 1) : /\ k <= Len(s) => s[k] # x
                                   /\ \A j \in i..(k - 1) : s[j] = x
Back(s, x, i) ==
    CHOOSE k \in 0..i : /\ k > 0 => s[k + 1] # x
                        /\ \A j \in (k + 1)..i : s[j + 1] = x
LEMMA RunForward ==
    ASSUME NEW S, NEW s \in Seq(S), NEW x, NEW i \in Nat \ {0}, NEW n \in Nat,
           i <= n, n <= Len(s), s[n] # x, AllSame(s, x, i, n)
    PROVE  Ahead(s, x, i) = n
<1> DEFINE Stops(k) == /\ k <= Len(s) => s[k] # x
                       /\ \A j \in i..(k - 1) : s[j] = x
<1>1. n \in i..(Len(s) + 1) /\ Stops(n)
  BY DEF AllSame
<1>2. ASSUME NEW k \in i..(Len(s) + 1), Stops(k) PROVE k = n
  <2>1. CASE k < n
    <3>1. k \in i..(n - 1) /\ k <= Len(s)
      BY <2>1
    <3> QED
      BY <1>2, <3>1 DEF AllSame
  <2>2. CASE k > n
    <3>1. n \in i..(k - 1)
      BY <2>2
    <3> QED
      BY <1>2, <3>1
  <2> QED
    BY <2>1, <2>2
<1> HIDE DEF Stops
<1>3. (CHOOSE k \in i..(Len(s) + 1) : Stops(k)) = n
  BY <1>1, <1>2
<1> QED
  BY <1>3 DEF Stops, Ahead

LEMMA RunBack ==
    ASSUME NEW s, NEW x, NEW i \in Nat, s[i + 1] # x
    PROVE  Back(s, x, i) = i
<1> DEFINE Stops(k) == /\ k > 0 => s[k + 1] # x
                       /\ \A j \in (k + 1)..i : s[j + 1] = x
<1>1. i \in 0..i /\ Stops(i)
  OBVIOUS
<1>2. ASSUME NEW k \in 0..i, Stops(k) PROVE k = i
  <2>1. CASE k < i
    <3>1. i \in (k + 1)..i
      BY <2>1
    <3> QED
      BY <1>2, <3>1
  <2> QED
    BY <2>1
<1> HIDE DEF Stops
<1>3. (CHOOSE k \in 0..i : Stops(k)) = i
  BY <1>1, <1>2
<1> QED
  BY <1>3 DEF Stops, Back

(* What comes after a run. *)
AllOf(b, x) == \A i \in 1..Len(b) : b[i] = x
Past(s, x, i, n, c) ==
    /\ AllSame(s, x, i, n) /\ n <= Len(s) /\ s[n] # x
    /\ i \in Nat \ {0} /\ n \in Nat /\ i <= n /\ From(s, n) = c
LEMMA RunIn ==
    ASSUME NEW S, NEW p \in Seq(S), NEW b \in Seq(S), NEW c \in Seq(S), NEW x,
           AllOf(b, x), Len(c) > 0, c[1] # x
    PROVE  Past(p \o (b \o c), x, Len(p) + 1, Len(p) + Len(b) + 1, c)
<1> DEFINE q == p \o b
           s == p \o (b \o c)
           i == Len(p) + 1
           n == Len(p) + Len(b) + 1
<1>1. /\ q \in Seq(S) /\ Len(q) = Len(p) + Len(b)
      /\ Len(p) \in Nat /\ Len(b) \in Nat /\ Len(c) \in Nat
  BY JoinTyped, JoinedLen, LenProperties
<1>2. s = q \o c
  BY ONLY p \in Seq(S), b \in Seq(S), c \in Seq(S)
<1>3. \A j \in 1..Len(b) : q[Len(p) + j] = b[j]
  BY ONLY p \in Seq(S), b \in Seq(S), JoinedAfter
<1> HIDE DEF q, s
<1>4. /\ s \in Seq(S) /\ Len(s) = Len(q) + Len(c)
      /\ \A j \in 1..Len(q) : s[j] = q[j]
  BY <1>1, <1>2, JoinTyped, JoinedLen, JoinedBefore, Zenon
<1>5. \A j \in 1..Len(c) : s[Len(q) + j] = c[j]
  BY ONLY <1>1, <1>2, c \in Seq(S), JoinedAfter
<1>6. s[n] = c[1] /\ n <= Len(s)
  BY <1>1, <1>4, <1>5
<1>7. AllSame(s, x, i, n)
  <2> SUFFICES ASSUME NEW j \in i..(n - 1) PROVE s[j] = x
    BY DEF AllSame
  <2>1. j - Len(p) \in 1..Len(b) /\ Len(p) + (j - Len(p)) = j /\ j \in 1..Len(q)
    BY <1>1
  <2>2. b[j - Len(p)] = x
    BY <2>1 DEF AllOf
  <2> QED
    BY <1>3, <1>4, <2>1, <2>2
<1>8. From(s, n) = c
  <2>1. From(q \o c, Len(q) + 1) = c
    BY <1>1, Unjoined, Zenon
  <2> QED
    BY <1>1, <1>2, <2>1
<1> QED
  BY <1>1, <1>6, <1>7, <1>8 DEF s, Past

(* Two symbols between two texts. *)
Between(s, n, a, x, y, b) ==
    /\ Len(a) = n /\ Len(s) = n + 2 + Len(b) /\ s[n + 1] = x /\ s[n + 2] = y
    /\ SubSeq(s, 1, n) = a /\ From(s, n + 3) = b
LEMMA TwoBetween ==
    ASSUME NEW S, NEW a \in Seq(S), NEW x \in S, NEW y \in S, NEW b \in Seq(S)
    PROVE  Between(a \o (<<x, y>> \o b), Len(a), a, x, y, b)
<1> DEFINE d == <<x, y>>
           t == d \o b
           s == a \o t
           q == a \o d
           n == Len(a)
<1>1. d \in Seq(S) /\ Len(d) = 2 /\ d[1] = x /\ d[2] = y
  OBVIOUS
<1> HIDE DEF d
<1>2. /\ t \in Seq(S) /\ Len(t) = Len(d) + Len(b) /\ s \in Seq(S) /\ Len(s) = n + Len(t)
      /\ q \in Seq(S) /\ Len(q) = n + Len(d) /\ n \in Nat /\ Len(b) \in Nat
  BY <1>1, JoinTyped, JoinedLen, LenProperties, Zenon
<1>3. s = q \o b
  BY ONLY <1>1, a \in Seq(S), b \in Seq(S)
<1>4. \A i \in 1..Len(d) : t[i] = d[i]
  BY <1>1, JoinedBefore, Zenon
<1> HIDE DEF t
<1>5. \A i \in 1..Len(t) : s[Len(a) + i] = t[i]
  BY ONLY <1>2, a \in Seq(S), JoinedAfter
<1>6. SubSeq(s, 1, n) = a
  BY <1>2, Unjoined, Zenon
<1>7. From(q \o b, Len(q) + 1) = b
  BY <1>2, Unjoined, Zenon
<1> HIDE DEF s, q
<1>8. 1 \in 1..Len(d) /\ 2 \in 1..Len(d) /\ 1 \in 1..Len(t) /\ 2 \in 1..Len(t)
  BY <1>1, <1>2
<1>9. s[n + 1] = x /\ s[n + 2] = y
  BY <1>1, <1>4, <1>5, <1>8, Zenon
<1>10. Len(q) + 1 = n + 3 /\ Len(s) = n + 2 + Len(b)
  BY <1>1, <1>2
<1>11. From(s, n + 3) = b
  BY <1>3, <1>7, <1>10, Zenon
<1> QED
  BY <1>6, <1>9, <1>10, <1>11, Zenon DEF Between, s, t, d

(* A text with an x, and c behind the first one. *)
Leads(S, t, x, c) == \E b \in Seq(S) : Lacks(b, x) /\ t = b \o (<<x>> \o c)
LEMMA LeadsPast ==
    ASSUME NEW S, NEW a \in Seq(S), NEW t, NEW x \in S, NEW c \in Seq(S), Lacks(a, x), Leads(S, t, x, c)
    PROVE  Leads(S, a \o t, x, c)
<1> DEFINE y == <<x>> \o c
<1>1. y \in Seq(S)
  OBVIOUS
<1> HIDE DEF y
<1>2. PICK b \in Seq(S) : Lacks(b, x) /\ t = b \o y
  BY Zenon DEF Leads, y
<1>3. a \o (b \o y) = (a \o b) \o y
  BY ONLY <1>1, a \in Seq(S), b \in Seq(S)
<1>4. a \o b \in Seq(S) /\ Lacks(a \o b, x)
  BY <1>2, LacksJoin, JoinTyped, Zenon
<1> QED
  BY <1>2, <1>3, <1>4, Zenon DEF Leads, y

LEMMA LeadsNow ==
    ASSUME NEW S, NEW a \in Seq(S), NEW x \in S, NEW c \in Seq(S), Lacks(a, x)
    PROVE  Leads(S, a \o (<<x>> \o c), x, c)
BY Zenon DEF Leads

LEMMA LeadsTo ==
    ASSUME NEW S, NEW t, NEW x \in S, NEW c \in Seq(S), Leads(S, t, x, c)
    PROVE  After(t, x) = c
<1>1. PICK b \in Seq(S) : Lacks(b, x) /\ t = b \o (<<x>> \o c)
  BY Zenon DEF Leads
<1>2. Splits(b \o (<<x>> \o c), x, b, c)
  BY <1>1, SplitAt, Zenon
<1> QED
  BY <1>1, <1>2, Zenon DEF Splits

LEMMA EmptyBefore ==
    ASSUME NEW S, NEW w \in Seq(S)
    PROVE  <<>> \o w = w /\ <<>> \in Seq(S)
OBVIOUS

-----------------------------------------------------------------------------
(* Texts of a few symbols, and parts *)

LEMMA NotEmpty ==
    ASSUME NEW S, NEW s \in Seq(S)
    PROVE  /\ Len(s) \in Nat /\ DOMAIN s = 1..Len(s)
           /\ s # <<>> => Len(s) > 0
           /\ Len(s) > 0 => s # <<>>
  OBVIOUS

LEMMA SubSeqFirst ==
    ASSUME NEW S, NEW s \in Seq(S), NEW k \in Nat, k < Len(s)
    PROVE  SubSeq(s, k + 1, Len(s)) = <<s[k + 1]>> \o SubSeq(s, k + 2, Len(s))
<1> DEFINE n == Len(s)
           x == SubSeq(s, k + 1, n)
           y == SubSeq(s, k + 2, n)
           z == <<s[k + 1]>> \o y
<1>1. n \in Nat /\ k + 1 \in 1..n
  OBVIOUS
<1>2. x \in Seq(S) /\ Len(x) = n - k /\ \A i \in 1..(n - k) : x[i] = s[k + i]
  BY <1>1, SubSeqProperties
<1>3. y \in Seq(S) /\ Len(y) = n - k - 1 /\ \A i \in 1..(n - k - 1) : y[i] = s[k + 1 + i]
  <2>1. CASE k + 2 <= n
    BY <1>1, <2>1, SubSeqProperties
  <2>2. CASE k + 2 > n
    <3>1. y = <<>> /\ n - k - 1 = 0
      BY <1>1, <2>2, SubSeqProperties
    <3> QED
      BY <3>1
  <2> QED
    BY <1>1, <2>1, <2>2
<1>4. s[k + 1] \in S /\ <<s[k + 1]>> \in Seq(S) /\ Len(<<s[k + 1]>>) = 1 /\ <<s[k + 1]>>[1] = s[k + 1]
  BY <1>1
<1> HIDE DEF n, x, y
<1>5. z \in Seq(S) /\ Len(z) = 1 + (n - k - 1)
  BY <1>3, <1>4
<1>6. z[1] = s[k + 1] /\ \A i \in 1..Len(y) : z[1 + i] = y[i]
  <2>1. \A i \in 1..Len(<<s[k + 1]>>) : z[i] = <<s[k + 1]>>[i]
    BY <1>3, <1>4, JoinedBefore
  <2>2. \A i \in 1..Len(y) : z[Len(<<s[k + 1]>>) + i] = y[i]
    BY <1>3, <1>4, JoinedAfter
  <2> QED
    BY <1>4, <2>1, <2>2
<1> HIDE DEF z
<1>7. Len(z) = Len(x)
  BY <1>1, <1>2, <1>5
<1>8. ASSUME NEW i \in 1..Len(x) PROVE x[i] = z[i]
  <2>1. i \in Nat /\ i \in 1..(n - k) /\ x[i] = s[k + i]
    BY <1>1, <1>2
  <2>2. CASE i = 1
    BY <2>1, <2>2, <1>6
  <2>3. CASE i # 1
    <3> DEFINE j == i - 1
    <3>1. j \in 1..(n - k - 1) /\ i = 1 + j /\ k + 1 + j = k + i
      BY ONLY <1>1, <2>1, <2>3, k \in Nat, SMTT(30) DEF j
    <3> HIDE DEF j
    <3>2. z[1 + j] = y[j] /\ y[j] = s[k + 1 + j]
      BY <3>1, <1>3, <1>6
    <3> QED
      BY <2>1, <3>1, <3>2
  <2> QED
    BY <2>2, <2>3
<1>9. x = z
  BY <1>2, <1>5, <1>7, <1>8, SeqEqual
<1> QED
  BY <1>9 DEF x, y, z, n

LEMMA AllOf1 ==
    ASSUME NEW x
    PROVE  AllOf(<<x>>, x) /\ <<x>>[1] = x /\ Len(<<x>>) = 1
<1>1. \A i \in 1..1 : <<x>>[i] = x
  OBVIOUS
<1>2. Len(<<x>>) = 1 /\ 1 \in 1..1
  OBVIOUS
<1> QED
  BY <1>1, <1>2, Zenon DEF AllOf

LEMMA LacksParts ==
    ASSUME NEW S, NEW a \in Seq(S), NEW b \in Seq(S), NEW x, Lacks(a \o b, x)
    PROVE  Lacks(a, x) /\ Lacks(b, x)
<1> DEFINE s == a \o b
           n == Len(a)
           k == Len(b)
<1>1. \A i \in 1..k : s[n + i] = b[i]
  BY JoinedAfter DEF s, n, k
<1>2. \A i \in 1..n : s[i] = a[i]
  BY JoinedBefore, Zenon
<1>3. Len(s) = n + k /\ n \in Nat /\ k \in Nat
  BY JoinedLen, LenProperties, Zenon
<1>4. \A i \in 1..Len(s) : s[i] # x
  BY Zenon DEF Lacks
<1> HIDE DEF s, n, k
<1>5. /\ \A i \in 1..n : i \in 1..Len(s)
      /\ \A i \in 1..k : n + i \in 1..Len(s)
  BY ONLY <1>3
<1> QED
  BY <1>1, <1>2, <1>4, <1>5, Zenon DEF Lacks, n, k

LEMMA TwoAndOne ==
    ASSUME NEW a, NEW b, NEW c
    PROVE  <<a, b>> \o <<c>> = <<a, b, c>>
<1> DEFINE S == {a, b, c}
           x == <<a, b>>
           y == <<c>>
           z == <<a, b, c>>
<1>1. x \in Seq(S) /\ y \in Seq(S) /\ z \in Seq(S)
  <2>1. a \in S /\ b \in S /\ c \in S
    OBVIOUS
  <2> HIDE DEF S
  <2> QED
    BY <2>1
<1> HIDE DEF S
<1>2. Len(x \o y) = 3 /\ Len(z) = 3
  OBVIOUS
<1>3. (x \o y)[1] = a /\ (x \o y)[2] = b /\ (x \o y)[3] = c
  OBVIOUS
<1>4. \A i \in 1..3 : (x \o y)[i] = z[i]
  BY <1>3
<1>5. x \o y \in Seq(S)
  BY <1>1, ConcatProperties
<1> HIDE DEF x, y, z
<1>6. x \o y = z
  BY <1>1, <1>2, <1>4, <1>5, SeqEqual
<1> QED
  BY <1>6 DEF x, y, z

(* The texts of several symbols, symbol by symbol. *)
Fours(w, a, b, c, d) == w = <<a>> \o (<<b>> \o (<<c>> \o <<d>>))
LEMMA FourOnes ==
    ASSUME NEW S, NEW a \in S, NEW b \in S, NEW c \in S, NEW d \in S
    PROVE  Fours(<<a, b, c, d>>, a, b, c, d)
<1> DEFINE p == <<a>>
           q == <<b>>
           r == <<c, d>>
<1>1. p \in Seq(S) /\ q \in Seq(S) /\ r \in Seq(S)
  OBVIOUS
<1>2. <<a, b, c, d>> = (p \o q) \o r
  <2>1. <<a, b>> \o <<c, d>> = <<a, b, c, d>>
    BY TwoTwos
  <2>2. <<a, b>> = <<a>> \o <<b>>
    BY TwoOnes
  <2> QED
    BY <2>1, <2>2, Zenon
<1>3. r = <<c>> \o <<d>>
  BY TwoOnes, Zenon
<1> HIDE DEF p, q, r
<1>4. (p \o q) \o r = p \o (q \o r)
  BY ONLY <1>1
<1> QED
  BY <1>2, <1>3, <1>4, Zenon DEF Fours, p, q

Fives(w, ab, c, de) == w = ab \o (<<c>> \o de)
LEMMA FiveOnes ==
    ASSUME NEW S, NEW a \in S, NEW b \in S, NEW c \in S, NEW d \in S, NEW e \in S
    PROVE  Fives(<<a, b, c, d, e>>, <<a, b>>, c, <<d, e>>)
<1> DEFINE p == <<a, b>>
           q == <<c>>
           r == <<d>>
           s == <<e>>
           cd == <<c, d>>
<1>1. p \in Seq(S) /\ q \in Seq(S) /\ r \in Seq(S) /\ s \in Seq(S) /\ cd \in Seq(S)
  OBVIOUS
<1>2. <<a, b, c, d, e>> = (p \o cd) \o s
  <2>1. <<a, b>> \o <<c, d>> = <<a, b, c, d>>
    BY TwoTwos
  <2>2. <<a, b, c, d>> \o <<e>> = <<a, b, c, d, e>>
    BY FourAndOne
  <2> QED
    BY <2>1, <2>2, Zenon
<1>3. cd = q \o r /\ <<d, e>> = r \o s
  BY TwoOnes, Zenon
<1> HIDE DEF p, q, r, s, cd
<1>4. (p \o cd) \o s = p \o (cd \o s)
  BY ONLY <1>1
<1>5. (q \o r) \o s = q \o (r \o s)
  BY ONLY <1>1
<1> QED
  BY <1>2, <1>3, <1>4, <1>5, Zenon DEF Fives, p, q

LEMMA PrefixOne ==
    ASSUME NEW S, NEW x \in S, NEW y \in Seq(S)
    PROVE  IsPrefix(<<x>>, <<x>> \o y)
<1> DEFINE b == <<x>>
           t == b \o y
<1>1. b \in Seq(S) /\ Len(b) = 1
  OBVIOUS
<1> HIDE DEF b
<1>2. SubSeq(t, 1, Len(b)) = b
  BY <1>1, Unjoined, Zenon
<1>3. SubSeq(b, 1, Len(b)) = b
  BY <1>1, SubSeqFull, Zenon
<1>4. Len(t) = Len(b) + Len(y) /\ Len(y) \in Nat
  BY <1>1, JoinedLen, LenProperties, Zenon
<1> HIDE DEF t
<1>5. Len(b) <= Len(t)
  BY ONLY <1>1, <1>4
<1> QED
  BY <1>2, <1>3, <1>5, Zenon DEF IsPrefix, t, b

LEMMA Halves ==
    \A n \in Nat : \E k \in Nat : n = 2 * k \/ n = 2 * k + 1
<1> DEFINE T == {n \in Nat : \E k \in Nat : n = 2 * k \/ n = 2 * k + 1}
<1>1. 0 \in T
  <2>1. 0 = 2 * 0
    OBVIOUS
  <2> QED
    BY <2>1
<1>2. ASSUME NEW n \in Nat, n \in T PROVE n + 1 \in T
  <2>1. PICK k \in Nat : n = 2 * k \/ n = 2 * k + 1
    BY <1>2
  <2>2. n + 1 = 2 * k + 1 \/ n + 1 = 2 * (k + 1)
    BY <2>1
  <2>3. k + 1 \in Nat /\ n + 1 \in Nat
    OBVIOUS
  <2>4. \E j \in Nat : n + 1 = 2 * j \/ n + 1 = 2 * j + 1
    BY <2>2, <2>3, Zenon
  <2> QED
    BY <2>3, <2>4
<1> HIDE DEF T
<1>3. \A n \in Nat : n \in T
  BY <1>1, <1>2, Induction
<1> QED
  BY <1>3 DEF T

-----------------------------------------------------------------------------
(* Texts of pairs *)
Pairs(w, ss, n) ==
    /\ Len(w) = 2 * n
    /\ \A j \in 1..n : w[2 * j - 1] = ss[j][1] /\ w[2 * j] = ss[j][2]
LEMMA PairsNext ==
    ASSUME NEW S, NEW w \in Seq(S), NEW ss, NEW n \in Nat, Pairs(w, ss, n),
           NEW x \in Seq(S), Len(x) = 2, x = ss[n + 1]
    PROVE  Pairs(w \o x, ss, n + 1)
<1> DEFINE v == w \o x
<1>1. Len(x) = 2 /\ Len(w) = 2 * n
  BY DEF Pairs
<1>2. Len(v) = Len(w) + Len(x)
  BY JoinedLen, Zenon
<1>3. \A i \in 1..Len(w) : v[i] = w[i]
  BY JoinedBefore, Zenon
<1>4. \A i \in 1..Len(x) : v[Len(w) + i] = x[i]
  BY JoinedAfter
<1> HIDE DEF v
<1>5. v[2 * n + 1] = x[1] /\ v[2 * n + 2] = x[2]
  <2>1. 1 \in 1..Len(x) /\ 2 \in 1..Len(x)
    BY <1>1
  <2>2. v[Len(w) + 1] = x[1] /\ v[Len(w) + 2] = x[2]
    BY <1>4, <2>1, Zenon
  <2> QED
    BY <1>1, <2>2
<1>6. \A j \in 1..n : 2 * j - 1 \in 1..Len(w) /\ 2 * j \in 1..Len(w)
  BY <1>1
<1>7. \A j \in 1..n : w[2 * j - 1] = ss[j][1] /\ w[2 * j] = ss[j][2]
  BY DEF Pairs
<1>8. \A j \in 1..n : v[2 * j - 1] = ss[j][1] /\ v[2 * j] = ss[j][2]
  BY <1>3, <1>6, <1>7, Zenon
<1>9. ASSUME NEW j \in 1..(n + 1)
      PROVE  v[2 * j - 1] = ss[j][1] /\ v[2 * j] = ss[j][2]
  <2>1. CASE j = n + 1
    <3>1. 2 * j - 1 = 2 * n + 1 /\ 2 * j = 2 * n + 2
      BY <2>1
    <3>2. x = ss[j]
      BY <2>1
    <3> QED
      BY <3>1, <3>2, <1>5
  <2>2. CASE j \in 1..n
    BY <2>2, <1>8
  <2> QED
    BY <2>1, <2>2
<1>10. Len(v) = 2 * (n + 1)
  BY <1>1, <1>2
<1> QED
  BY <1>9, <1>10 DEF Pairs, v

LEMMA FlattenPairs ==
    ASSUME NEW S, NEW ss \in Seq(Seq(S)), \A i \in 1..Len(ss) : Len(ss[i]) = 2
    PROVE  Pairs(FlattenSeq(ss), ss, Len(ss))
<1>1. CASE ss = <<>>
  <2>1. FlattenSeq(ss) = <<>> /\ Len(ss) = 0
    BY <1>1, FlattenNone
  <2> QED
    BY <2>1 DEF Pairs
<1>2. CASE Len(ss) > 0
  <2>1. PICK f \in [1..Len(ss) -> Seq(S)] : Joins(f, ss, Len(ss)) /\ FlattenSeq(ss) = f[Len(ss)]
    BY <1>2, FlattenJoins
  <2> DEFINE T == {m \in Nat : m + 1 \in 1..Len(ss) => Pairs(f[m + 1], ss, m + 1)}
  <2>2. 0 \in T
    <3>1. 1 \in 1..Len(ss) /\ ss[1] \in Seq(S) /\ Len(ss[1]) = 2
      BY <1>2
    <3>2. f[1] = ss[1]
      BY <2>1, <3>1, JoinsFirst
    <3> QED
      BY <3>1, <3>2 DEF Pairs
  <2>3. ASSUME NEW m \in Nat, m \in T PROVE m + 1 \in T
    <3> SUFFICES ASSUME m + 2 \in 1..Len(ss) PROVE Pairs(f[m + 2], ss, m + 2)
      OBVIOUS
    <3> DEFINE h == m + 1
    <3>1. h \in Nat /\ h # 0 /\ h + 1 \in 1..Len(ss) /\ h + 1 = m + 2 /\ h \in 1..Len(ss) /\ Len(ss) \in Nat
      OBVIOUS
    <3>2. Pairs(f[h], ss, h)
      BY <2>3, <3>1
    <3>3. f[h] \in Seq(S) /\ ss[h + 1] \in Seq(S) /\ Len(ss[h + 1]) = 2
      <4>1. f[h] \in Seq(S)
        BY <3>1
      <4>2. ss[h + 1] \in Seq(S)
        BY <3>1
      <4> QED
        BY <3>1, <4>1, <4>2
    <3> HIDE DEF h
    <3>4. f[h + 1] = f[h] \o ss[h + 1]
      BY ONLY <2>1, <3>1, JoinsNext
    <3>5. Pairs(f[h] \o ss[h + 1], ss, h + 1)
      BY <3>1, <3>2, <3>3, PairsNext
    <3> QED
      BY <3>1, <3>4, <3>5
  <2> HIDE DEF T
  <2>4. \A m \in Nat : m \in T
    BY <2>2, <2>3, Induction
  <2>5. Len(ss) - 1 \in Nat /\ Len(ss) - 1 + 1 = Len(ss) /\ Len(ss) \in 1..Len(ss)
    BY <1>2
  <2> QED
    BY <2>1, <2>4, <2>5 DEF T
<1> QED
  BY <1>1, <1>2

-----------------------------------------------------------------------------
(* Maps *)
IsPut(q, map, key, value) ==
    /\ DOMAIN q = DOMAIN map \cup {key} /\ q[key] = value
    /\ \A k \in DOMAIN map : k # key => q[k] = map[k]
LEMMA PutSo ==
    ASSUME NEW map, NEW key, NEW value
    PROVE  IsPut(Put(map, key, value), map, key, value)
BY DEF Put, IsPut

LEMMA SameText ==
    ASSUME NEW x, NEW y
    PROVE  <<x>> = <<y>> <=> x = y
OBVIOUS
==============================================================================
