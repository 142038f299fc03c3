-------------------------- MODULE RequestReadProofs --------------------------
(*****************************************************************************)
(* What parseText makes of every request that can be taken apart (Readable): *)
(* the path is judged as a walk from the root, the fields are read one after *)
(* the other, the body is found, and header and code say so.                 *)
(*****************************************************************************)
EXTENDS RequestFramingProofs

-----------------------------------------------------------------------------
(* The path check *)

(* A path of steps, each behind an x, and how often it has gone up, to y. *)
Stepped(url, steps, x, n) ==
    /\ url \in Seq(STRING) /\ n \in Nat /\ Len(url) = 2 * n
    /\ \A j \in 1..n : url[2 * j - 1] = x /\ url[2 * j] = steps[j] /\ steps[j] # x
Marks(url, x) == {i \in DOMAIN url : i > 1 /\ url[i] = x}
UpTo(url, x, i) == {j \in Marks(url, x) : j <= i}
Rising(url, x, y, i) == {j \in UpTo(url, x, i) : url[j - 1] = y /\ url[j - 2] = x}
Behind(i, n) == \E k \in 1..(n - 1) : i = 2 * k + 1
LEMMA MarksSo ==
    ASSUME NEW url, NEW steps, NEW x, NEW n, Stepped(url, steps, x, n)
    PROVE  /\ \A k \in Nat : k \in 1..(n - 1) => 2 * k + 1 \in Marks(url, x)
           /\ \A i \in Marks(url, x) : Behind(i, n)
<1>1. url \in Seq(STRING) /\ n \in Nat /\ Len(url) = 2 * n /\ DOMAIN url = 1..(2 * n)
  BY DEF Stepped
<1>2. \A j \in 1..n : url[2 * j - 1] = x /\ url[2 * j] # x
  BY DEF Stepped
<1>3. ASSUME NEW k \in Nat, k \in 1..(n - 1) PROVE 2 * k + 1 \in Marks(url, x)
  <2>1. k + 1 \in 1..n /\ 2 * (k + 1) - 1 = 2 * k + 1 /\ 2 * k + 1 \in 1..(2 * n) /\ 2 * k + 1 > 1
    BY <1>1, <1>3
  <2>2. url[2 * k + 1] = x
    BY <1>2, <2>1
  <2> QED
    BY <1>1, <2>1, <2>2 DEF Marks
<1>4. ASSUME NEW i \in Marks(url, x) PROVE Behind(i, n)
  <2>1. i \in 1..(2 * n) /\ i > 1 /\ url[i] = x
    BY <1>1 DEF Marks
  <2>2. PICK k \in Nat : i = 2 * k \/ i = 2 * k + 1
    <3>1. i \in Nat
      BY <1>1, <2>1
    <3> QED
      BY <3>1, Halves, Zenon
  <2>3. CASE i = 2 * k
    <3>1. k \in 1..n
      BY <1>1, <2>1, <2>3
    <3> QED
      BY <1>2, <2>1, <2>3, <3>1
  <2>4. CASE i = 2 * k + 1
    <3>1. k \in 1..(n - 1)
      BY <1>1, <2>1, <2>4
    <3> QED
      BY <2>4, <3>1 DEF Behind
  <2> QED
    BY <2>2, <2>3, <2>4
<1> QED
  BY <1>3, <1>4

LEMMA UpToNext ==
    ASSUME NEW url, NEW steps, NEW x, NEW n, Stepped(url, steps, x, n), NEW k \in 1..(n - 1)
    PROVE  /\ UpTo(url, x, 2 * k + 1) = UpTo(url, x, 2 * (k - 1) + 1) \cup {2 * k + 1}
           /\ 2 * k + 1 \notin UpTo(url, x, 2 * (k - 1) + 1)
           /\ UpTo(url, x, 1) = {}
<1>1. n \in Nat /\ k \in Nat /\ 2 * (k - 1) + 1 = 2 * k - 1
  BY DEF Stepped
<1>2. 2 * k + 1 \in Marks(url, x)
  BY <1>1, MarksSo
<1>3. \A i \in Marks(url, x) : i \in Nat /\ i > 1 /\ (i <= 2 * k + 1 <=> i <= 2 * k - 1 \/ i = 2 * k + 1)
  <2> SUFFICES ASSUME NEW i \in Marks(url, x)
               PROVE  i \in Nat /\ i > 1 /\ (i <= 2 * k + 1 <=> i <= 2 * k - 1 \/ i = 2 * k + 1)
    OBVIOUS
  <2>1. PICK j \in 1..(n - 1) : i = 2 * j + 1
    BY MarksSo DEF Behind
  <2> QED
    BY <1>1, <2>1
<1> QED
  BY <1>1, <1>2, <1>3 DEF UpTo

Rises(url, steps, x, y, k) ==
    LET r == Rising(url, x, y, 2 * (k - 1) + 1)
    IN  /\ steps[k] = y => Rising(url, x, y, 2 * k + 1) = r \cup {2 * k + 1}
        /\ steps[k] # y => Rising(url, x, y, 2 * k + 1) = r
        /\ 2 * k + 1 \notin r
LEMMA RisingNext ==
    ASSUME NEW url, NEW steps, NEW x, NEW y, NEW n, Stepped(url, steps, x, n), NEW k \in 1..(n - 1)
    PROVE  Rises(url, steps, x, y, k)
<1> DEFINE i == 2 * k + 1
           b == 2 * (k - 1) + 1
<1>1. n \in Nat /\ k \in 1..n /\ i - 1 = 2 * k /\ i - 2 = 2 * k - 1
  BY DEF Stepped
<1>2. url[i - 1] = steps[k] /\ url[i - 2] = x
  BY <1>1 DEF Stepped
<1>3. UpTo(url, x, i) = UpTo(url, x, b) \cup {i} /\ i \notin UpTo(url, x, b) /\ UpTo(url, x, 1) = {}
  BY UpToNext
<1> HIDE DEF i, b
<1>4. /\ steps[k] = y => Rising(url, x, y, i) = Rising(url, x, y, b) \cup {i}
      /\ steps[k] # y => Rising(url, x, y, i) = Rising(url, x, y, b)
  BY <1>2, <1>3 DEF Rising
<1>5. i \notin Rising(url, x, y, b)
  BY <1>3 DEF Rising
<1> QED
  BY <1>4, <1>5 DEF i, b, Rises

(* How many marks there are, and how many of them go up. *)
Ups(url, x, y, k) == Cardinality(Rising(url, x, y, 2 * k + 1))
Counted(url, x, y, k) ==
    /\ IsFiniteSet(UpTo(url, x, 2 * k + 1)) /\ Cardinality(UpTo(url, x, 2 * k + 1)) = k
    /\ IsFiniteSet(Rising(url, x, y, 2 * k + 1)) /\ Ups(url, x, y, k) \in Nat
LEMMA CountedNext ==
    ASSUME NEW url, NEW steps, NEW x, NEW y, NEW n, Stepped(url, steps, x, n), NEW k \in 1..(n - 1),
           Counted(url, x, y, k - 1)
    PROVE  /\ Counted(url, x, y, k)
           /\ Ups(url, x, y, k) = Ups(url, x, y, k - 1) + IF steps[k] = y THEN 1 ELSE 0
<1> DEFINE i == 2 * k + 1
           u == UpTo(url, x, 2 * (k - 1) + 1)
           r == Rising(url, x, y, 2 * (k - 1) + 1)
<1>1. IsFiniteSet(u) /\ Cardinality(u) = k - 1 /\ IsFiniteSet(r) /\ Cardinality(r) \in Nat
  BY DEF Counted, Ups
<1>2. UpTo(url, x, i) = u \cup {i} /\ i \notin u
  BY UpToNext
<1>3. /\ steps[k] = y => Rising(url, x, y, i) = r \cup {i}
      /\ steps[k] # y => Rising(url, x, y, i) = r
      /\ i \notin r
  <2>1. Rises(url, steps, x, y, k)
    BY RisingNext, Zenon
  <2> QED
    BY <2>1 DEF Rises
<1>4. n \in Nat /\ k \in Nat /\ k - 1 + 1 = k
  BY DEF Stepped
<1> HIDE DEF u, r
<1>5. IsFiniteSet(u \cup {i}) /\ Cardinality(u \cup {i}) = Cardinality(u) + 1
  BY <1>1, <1>2, FS_AddElement
<1>6. IsFiniteSet(r \cup {i}) /\ Cardinality(r \cup {i}) = Cardinality(r) + 1
  BY <1>1, <1>3, FS_AddElement
<1> HIDE DEF i
<1>7. IsFiniteSet(UpTo(url, x, i)) /\ Cardinality(UpTo(url, x, i)) = k
  BY <1>1, <1>2, <1>4, <1>5
<1>8. /\ IsFiniteSet(Rising(url, x, y, i)) /\ Cardinality(Rising(url, x, y, i)) \in Nat
      /\ Cardinality(Rising(url, x, y, i)) = Cardinality(r) + IF steps[k] = y THEN 1 ELSE 0
  BY <1>1, <1>3, <1>6
<1> QED
  BY <1>7, <1>8 DEF Counted, Ups, i, r

LEMMA CountedFirst ==
    ASSUME NEW url, NEW steps, NEW x, NEW y, NEW n, Stepped(url, steps, x, n)
    PROVE  Counted(url, x, y, 0) /\ Ups(url, x, y, 0) = 0
<1>1. \A i \in Marks(url, x) : ~(i <= 1)
  BY DEF Marks, Stepped
<1>2. UpTo(url, x, 1) = {}
  BY <1>1 DEF UpTo
<1>3. Rising(url, x, y, 1) = {}
  BY <1>2 DEF Rising
<1>4. 2 * 0 + 1 = 1
  OBVIOUS
<1> QED
  BY <1>2, <1>3, <1>4, FS_EmptySet DEF Counted, Ups

LEMMA CountedAll ==
    ASSUME NEW url, NEW steps, NEW x, NEW y, NEW n, Stepped(url, steps, x, n)
    PROVE  \A k \in Nat : k < n \/ k = 0 => Counted(url, x, y, k)
<1> DEFINE T == {k \in Nat : k < n \/ k = 0 => Counted(url, x, y, k)}
<1>1. 0 \in T
  BY CountedFirst
<1>2. ASSUME NEW k \in Nat, k \in T PROVE k + 1 \in T
  <2> SUFFICES ASSUME k + 1 < n PROVE Counted(url, x, y, k + 1)
    BY <1>2
  <2> DEFINE h == k + 1
  <2>1. n \in Nat
    BY DEF Stepped
  <2>2. h \in 1..(n - 1) /\ h - 1 = k /\ (k < n \/ k = 0)
    BY <2>1
  <2>3. Counted(url, x, y, h - 1)
    BY <1>2, <2>2
  <2> HIDE DEF h
  <2>4. Counted(url, x, y, h)
    BY <2>2, <2>3, CountedNext
  <2> QED
    BY <2>4 DEF h
<1> HIDE DEF T
<1>3. \A k \in Nat : k \in T
  BY <1>1, <1>2, Induction
<1> QED
  BY <1>3 DEF T

LEMMA TooHighSo ==
    ASSUME NEW url
    PROVE  TooHigh(url) <=> \E i \in Marks(url, "/") :
               2 * Cardinality(Rising(url, "/", "..", i)) > Cardinality(UpTo(url, "/", i))
<1>1. Slashes(url) = Marks(url, "/")
  BY Zenon DEF Slashes, Marks
<1>2. \A i : {j \in Slashes(url) : j <= i} = UpTo(url, "/", i)
  BY <1>1, Zenon DEF UpTo
<1>3. \A i : {j \in UpTo(url, "/", i) : GoesUp(url, j)} = Rising(url, "/", "..", i)
  BY Zenon DEF Rising, GoesUp
<1> QED
  BY <1>1, <1>2, <1>3, Zenon DEF TooHigh

(* The mark behind step k. *)
Climbs(url, x, y, k) == 2 * Ups(url, x, y, k) > k
LEMMA MarkClimbs ==
    ASSUME NEW url, NEW steps, NEW x, NEW y, NEW n, Stepped(url, steps, x, n), NEW k \in 1..(n - 1)
    PROVE  2 * Cardinality(Rising(url, x, y, 2 * k + 1)) > Cardinality(UpTo(url, x, 2 * k + 1))
               <=> Climbs(url, x, y, k)
<1>1. n \in Nat /\ k \in Nat /\ k < n
  BY DEF Stepped
<1>2. Counted(url, x, y, k)
  BY <1>1, CountedAll
<1> QED
  BY <1>1, <1>2 DEF Counted, Ups, Climbs

(* The path check: whether the path is above the root behind some step.  *)
LEMMA HighSo ==
    ASSUME NEW url, NEW steps, NEW n, Stepped(url, steps, "/", n)
    PROVE  TooHigh(url) <=> \E k \in 1..(n - 1) : Climbs(url, "/", "..", k)
<1>1. ASSUME TooHigh(url) PROVE \E k \in 1..(n - 1) : Climbs(url, "/", "..", k)
  <2>1. PICK i \in Marks(url, "/") :
            2 * Cardinality(Rising(url, "/", "..", i)) > Cardinality(UpTo(url, "/", i))
    BY <1>1, TooHighSo, Zenon
  <2>2. PICK k \in 1..(n - 1) : i = 2 * k + 1
    <3>1. Behind(i, n)
      BY MarksSo, Zenon
    <3> QED
      BY <3>1, Zenon DEF Behind
  <2>3. Climbs(url, "/", "..", k)
    BY <2>1, <2>2, MarkClimbs, Zenon
  <2> QED
    BY <2>3, Zenon
<1>2. ASSUME NEW k \in 1..(n - 1), Climbs(url, "/", "..", k) PROVE TooHigh(url)
  <2>1. k \in Nat
    BY ONLY k \in 1..(n - 1)
  <2>2. 2 * k + 1 \in Marks(url, "/")
    BY <2>1, MarksSo, Zenon
  <2>3. 2 * Cardinality(Rising(url, "/", "..", 2 * k + 1)) > Cardinality(UpTo(url, "/", 2 * k + 1))
    BY <1>2, MarkClimbs, Zenon
  <2> QED
    BY <2>2, <2>3, TooHighSo, Zenon
<1> QED
  BY <1>1, <1>2, Zenon

-----------------------------------------------------------------------------
(* The walk *)

(* From one directory to the next; up is "..". *)
Goto(x, step, up) == IF x = <<>> \/ step = up THEN Front(x) ELSE Append(x, step)
Walks(f, steps, root, up, n) ==
    f[0] = root /\ \A k \in 1..n : f[k] = Goto(f[k - 1], steps[k], up)
LEMMA FrontSo ==
    ASSUME NEW S, NEW x \in Seq(S)
    PROVE  /\ Front(x) \in Seq(S)
           /\ Len(x) > 0 => Len(Front(x)) = Len(x) - 1
           /\ x = <<>> => Front(x) = <<>>
<1>1. Len(x) \in Nat
  OBVIOUS
<1>2. CASE x = <<>>
  <2>1. Len(x) = 0
    BY <1>2
  <2>2. SubSeq(x, 1, Len(x) - 1) = <<>>
    BY <2>1, SubSeqProperties
  <2> QED
    BY <1>2, <2>1, <2>2 DEF Front
<1>3. CASE Len(x) > 0
  <2> DEFINE n == Len(x) - 1
  <2>1. x # <<>> /\ n \in 0..Len(x) /\ n = Len(x) - 1
    BY <1>1, <1>3
  <2> HIDE DEF n
  <2>2. SubSeq(x, 1, n) \in Seq(S) /\ Len(SubSeq(x, 1, n)) = n
    BY <2>1, Parts
  <2>3. Front(x) = SubSeq(x, 1, n)
    BY DEF Front, n
  <2> QED
    BY <2>1, <2>2, <2>3
<1> QED
  BY <1>1, <1>2, <1>3

LEMMA GotoSo ==
    ASSUME NEW S, NEW x \in Seq(S), NEW step \in S, NEW up
    PROVE  /\ Goto(x, step, up) \in Seq(S)
           /\ x = <<>> => Goto(x, step, up) = <<>>
           /\ x # <<>> /\ step = up => Len(Goto(x, step, up)) = Len(x) - 1
           /\ x # <<>> /\ step # up => Len(Goto(x, step, up)) = Len(x) + 1
<1>1. Append(x, step) \in Seq(S) /\ Len(Append(x, step)) = Len(x) + 1
  OBVIOUS
<1>2. x # <<>> => Len(x) > 0
  OBVIOUS
<1> QED
  BY <1>1, <1>2, FrontSo DEF Goto

LEMMA WalksSome ==
    ASSUME NEW S, NEW steps \in Seq(S), NEW root \in Seq(S), NEW up
    PROVE  \E f \in [0..Len(steps) -> Seq(S)] : Walks(f, steps, root, up, Len(steps))
<1> DEFINE N == Len(steps)
           T == {m \in Nat : m <= N => \E f \in [0..m -> Seq(S)] : Walks(f, steps, root, up, m)}
<1>0. N \in Nat
  OBVIOUS
<1>1. 0 \in T
  <2>1. [k \in 0..0 |-> root] \in [0..0 -> Seq(S)] /\ Walks([k \in 0..0 |-> root], steps, root, up, 0)
    BY DEF Walks
  <2> QED
    BY <2>1
<1>2. ASSUME NEW m \in Nat, m \in T PROVE m + 1 \in T
  <2> SUFFICES ASSUME m + 1 <= N
               PROVE  \E f \in [0..(m + 1) -> Seq(S)] : Walks(f, steps, root, up, m + 1)
    OBVIOUS
  <2>1. PICK f \in [0..m -> Seq(S)] : Walks(f, steps, root, up, m)
    BY <1>2
  <2> DEFINE x == Goto(f[m], steps[m + 1], up)
             h == [k \in 0..(m + 1) |-> IF k = m + 1 THEN x ELSE f[k]]
  <2>2. x \in Seq(S)
    <3>1. f[m] \in Seq(S) /\ steps[m + 1] \in S
      BY <2>1
    <3> QED
      BY <3>1, GotoSo
  <2> HIDE DEF x
  <2>3. h \in [0..(m + 1) -> Seq(S)]
    BY <2>1, <2>2
  <2>4. h[0] = root
    BY <2>1 DEF Walks
  <2>5. ASSUME NEW k \in 1..(m + 1) PROVE h[k] = Goto(h[k - 1], steps[k], up)
    <3>1. CASE k = m + 1
      <4>1. h[k] = x /\ h[k - 1] = f[m] /\ steps[k] = steps[m + 1]
        BY <3>1
      <4> QED
        BY <4>1 DEF x
    <3>2. CASE k # m + 1
      <4>1. k \in 1..m /\ h[k] = f[k] /\ h[k - 1] = f[k - 1]
        BY <3>2
      <4> QED
        BY <4>1, <2>1 DEF Walks
    <3> QED
      BY <3>1, <3>2
  <2> HIDE DEF h
  <2>6. Walks(h, steps, root, up, m + 1)
    BY <2>4, <2>5 DEF Walks
  <2> QED
    BY <2>3, <2>6
<1> HIDE DEF T
<1>3. \A m \in Nat : m \in T
  BY <1>1, <1>2, Induction
<1> QED
  BY <1>0, <1>3 DEF T

(* Walk, as it goes. *)
LEMMA WalkAlong ==
    ASSUME NEW steps \in Seq(STRING), \A k \in 1..Len(steps) : steps[k] \notin Still
    PROVE  \E f : Walks(f, steps, <<"/">>, "..", Len(steps)) /\ Walk(steps) = f[Len(steps)]
<1> DEFINE n == Len(steps)
           Good(f) == f = [k \in 0..n |-> IF k = 0 THEN <<"/">>
                                          ELSE IF f[k - 1] = <<>> \/ steps[k] = ".." THEN Front(f[k - 1])
                                          ELSE IF steps[k] \in Still THEN f[k - 1]
                                          ELSE Append(f[k - 1], steps[k])]
           g == CHOOSE f : Good(f)
<1>1. n \in Nat
  BY LenProperties, Zenon
<1>2. Walk(steps) = g[n]
  BY Zenon DEF Walk
<1>0. \A k \in 1..n : steps[k] \notin Still
  OBVIOUS
<1>3. PICK h \in [0..n -> Seq(STRING)] : Walks(h, steps, <<"/">>, "..", n)
  <2>1. <<"/">> \in Seq(STRING)
    BY WordsTyped, Typed1, Zenon
  <2> QED
    BY <2>1, WalksSome, Zenon
<1> HIDE DEF n
<1>4. \A k \in 0..n : k # 0 => k \in 1..n
  BY <1>1
<1>5. Good(h)
  <2>1. \A k \in 0..n : h[k] = IF k = 0 THEN <<"/">>
                                ELSE IF h[k - 1] = <<>> \/ steps[k] = ".." THEN Front(h[k - 1])
                                ELSE IF steps[k] \in Still THEN h[k - 1]
                                ELSE Append(h[k - 1], steps[k])
    BY <1>3, <1>4, <1>0, Zenon DEF Walks, Goto
  <2>2. h = [k \in 0..n |-> h[k]]
    BY <1>3, Zenon
  <2> QED
    BY <2>1, <2>2, Zenon
<1>6. Good(g)
  BY <1>5, Zenon
<1> HIDE DEF g
<1>7. g[0] = <<"/">>
  BY ONLY <1>1, <1>6 DEF Good
<1>8. \A k \in 1..n : g[k] = Goto(g[k - 1], steps[k], "..")
  <2>1. \A k \in 1..n : k \in 0..n /\ k # 0
    BY <1>1
  <2> QED
    BY <1>0, <1>6, <2>1, Zenon DEF Goto
<1>9. Walks(g, steps, <<"/">>, "..", n)
  BY <1>7, <1>8, Zenon DEF Walks
<1> QED
  BY <1>2, <1>9, Zenon DEF n

(* How far down a path is behind step k, as long as it has not left the root. *)
Above(url, x, y, k) == \E j \in 1..k : Climbs(url, x, y, j)
Deep(to, url, x, y, k) ==
    /\ to \in Seq(STRING)
    /\ to = <<>> <=> Above(url, x, y, k)
    /\ to # <<>> => Len(to) = 1 + k - 2 * Ups(url, x, y, k)
LEMMA DeepNext ==
    ASSUME NEW url, NEW steps, NEW x, NEW y, NEW n, Stepped(url, steps, x, n), NEW k \in 1..(n - 1),
           NEW to, Deep(to, url, x, y, k - 1), steps[k] \in STRING
    PROVE  Deep(Goto(to, steps[k], y), url, x, y, k)
<1> DEFINE v == Ups(url, x, y, k - 1)
           u == Ups(url, x, y, k)
           next == Goto(to, steps[k], y)
<1>1. n \in Nat /\ k \in Nat /\ k - 1 \in Nat /\ k - 1 < n
  BY DEF Stepped
<1>2. v \in Nat
  BY <1>1, CountedAll DEF Counted
<1>3. u = v + IF steps[k] = y THEN 1 ELSE 0
  <2>1. Counted(url, x, y, k - 1)
    BY <1>1, CountedAll
  <2> QED
    BY <2>1, CountedNext
<1>4. /\ next \in Seq(STRING)
      /\ to = <<>> => next = <<>>
      /\ to # <<>> /\ steps[k] = y => Len(next) = Len(to) - 1
      /\ to # <<>> /\ steps[k] # y => Len(next) = Len(to) + 1
  BY GotoSo DEF Deep
<1>5. Above(url, x, y, k) <=> Above(url, x, y, k - 1) \/ 2 * u > k
  <2>1. \A j : j \in 1..k <=> j \in 1..(k - 1) \/ j = k
    BY <1>1
  <2> QED
    BY <2>1 DEF Above, Climbs
<1>6. to # <<>> /\ k > 1 => 2 * v <= k - 1
  <2>1. k > 1 => k - 1 \in 1..(k - 1)
    BY <1>1
  <2>2. to # <<>> => ~Above(url, x, y, k - 1)
    BY DEF Deep
  <2> QED
    BY <1>1, <1>2, <2>1, <2>2 DEF Above, Climbs
<1>7. k = 1 => v = 0
  BY CountedFirst, <1>1
<1>8. to \in Seq(STRING) /\ (to = <<>> <=> Above(url, x, y, k - 1)) /\ (to # <<>> => Len(to) = k - 2 * v)
  <2>1. /\ to \in Seq(STRING) /\ (to = <<>> <=> Above(url, x, y, k - 1))
        /\ to # <<>> => Len(to) = 1 + (k - 1) - 2 * v
    BY DEF Deep
  <2>2. 1 + (k - 1) - 2 * v = k - 2 * v
    BY <1>1, <1>2
  <2> QED
    BY <2>1, <2>2
<1>9. next = <<>> <=> Len(next) = 0
  BY <1>4
<1>11. Len(next) \in Nat
  BY <1>4
<1> HIDE DEF u, v, next
<1>10. /\ next = <<>> <=> Above(url, x, y, k)
       /\ next # <<>> => Len(next) = 1 + k - 2 * u
  <2>1. CASE to = <<>>
    BY <2>1, <1>4, <1>5, <1>8
  <2>2. CASE to # <<>> /\ steps[k] = y
    <3>1. Len(next) = k - 2 * v - 1 /\ u = v + 1 /\ 2 * v <= k - 1
      BY ONLY <2>2, <1>1, <1>2, <1>3, <1>4, <1>6, <1>7, <1>8
    <3> QED
      BY ONLY <1>1, <1>2, <1>5, <1>8, <1>9, <2>2, <3>1
  <2>3. CASE to # <<>> /\ steps[k] # y
    <3>1. Len(next) = k - 2 * v + 1 /\ u = v /\ 2 * v <= k - 1
      BY ONLY <2>3, <1>1, <1>2, <1>3, <1>4, <1>6, <1>7, <1>8
    <3> QED
      BY ONLY <1>1, <1>2, <1>5, <1>8, <1>9, <2>3, <3>1
  <2> QED
    BY <2>1, <2>2, <2>3
<1> QED
  BY <1>4, <1>10 DEF Deep, next, u

LEMMA WalkDeep ==
    ASSUME NEW url, NEW steps \in Seq(STRING), NEW x, NEW y, NEW n, Stepped(url, steps, x, n),
           n = Len(steps), NEW root \in Seq(STRING), Len(root) = 1,
           NEW f, Walks(f, steps, root, y, n)
    PROVE  \A k \in Nat : k < n => Deep(f[k], url, x, y, k)
<1> DEFINE T == {k \in Nat : k < n => Deep(f[k], url, x, y, k)}
<1>1. 0 \in T
  <2>1. f[0] = root /\ root # <<>>
    <3>1. f[0] = root
      BY Zenon DEF Walks
    <3>2. Len(root) > 0
      BY ONLY Len(root) = 1
    <3> QED
      BY <3>1, <3>2, NotEmpty, Zenon
  <2>2. Ups(url, x, y, 0) = 0
    BY CountedFirst
  <2>3. ~Above(url, x, y, 0)
    BY DEF Above
  <2>4. 1 + 0 - 2 * 0 = 1
    OBVIOUS
  <2>5. Deep(root, url, x, y, 0)
    BY <2>1, <2>2, <2>3, <2>4 DEF Deep
  <2> QED
    BY <2>1, <2>5
<1>2. ASSUME NEW k \in Nat, k \in T PROVE k + 1 \in T
  <2> SUFFICES ASSUME k + 1 < n PROVE Deep(f[k + 1], url, x, y, k + 1)
    OBVIOUS
  <2> DEFINE h == k + 1
  <2>1. n \in Nat
    BY DEF Stepped
  <2>2. h \in 1..(n - 1) /\ h \in 1..n /\ h - 1 = k /\ k < n /\ steps[h] \in STRING
    BY <2>1
  <2>3. Deep(f[h - 1], url, x, y, h - 1)
    BY <1>2, <2>2
  <2> HIDE DEF h
  <2>4. f[h] = Goto(f[h - 1], steps[h], y)
    BY <2>2, Zenon DEF Walks
  <2>5. Deep(Goto(f[h - 1], steps[h], y), url, x, y, h)
    BY <2>2, <2>3, DeepNext
  <2> QED
    BY <2>4, <2>5 DEF h
<1> HIDE DEF T
<1>3. \A k \in Nat : k \in T
  BY <1>1, <1>2, Induction
<1> QED
  BY <1>3 DEF T

(* Whether a path that does not end in ".." leaves the root. *)
LEMMA WalkSo ==
    ASSUME NEW url, NEW steps \in Seq(STRING), NEW x, NEW y, NEW n, Stepped(url, steps, x, n),
           n = Len(steps), n > 0, steps[n] # y, NEW root \in Seq(STRING), Len(root) = 1,
           NEW f, Walks(f, steps, root, y, n)
    PROVE  f[n] = <<>> <=> Above(url, x, y, n - 1)
<1>1. n \in Nat /\ n \in 1..n /\ n - 1 \in Nat /\ n - 1 < n /\ steps[n] \in STRING
  BY DEF Stepped
<1>2. Deep(f[n - 1], url, x, y, n - 1)
  BY <1>1, WalkDeep
<1>3. f[n] = Goto(f[n - 1], steps[n], y)
  BY <1>1, Zenon DEF Walks
<1>4. f[n - 1] \in Seq(STRING)
  BY <1>2, Zenon DEF Deep
<1>5. /\ f[n] \in Seq(STRING) 
      /\ f[n - 1] = <<>> => f[n] = <<>>
      /\ f[n - 1] # <<>> => Len(f[n]) = Len(f[n - 1]) + 1
  BY <1>1, <1>3, <1>4, GotoSo
<1>6. f[n - 1] # <<>> => f[n] # <<>>
  BY <1>4, <1>5
<1> QED
  BY <1>2, <1>5, <1>6 DEF Deep

-----------------------------------------------------------------------------
(* The path of a request *)

LEMMA PathStepped ==
    ASSUME NEW m \in Messages, Opens(m)
    PROVE  Stepped(Path(m), m.steps, "/", Len(m.steps))
<1> DEFINE n == Len(m.steps)
           ss == [k \in DOMAIN m.steps |-> <<"/", m.steps[k]>>]
           w == FlattenSeq(ss)
<1>1. m.steps \in Seq(STRING) /\ n \in Nat /\ DOMAIN m.steps = 1..n
  BY MessageTyped
<1>2. \A k \in 1..n : m.steps[k] \in STRING
  BY <1>1
<1>3. \A k \in 1..n : <<"/", m.steps[k]>> \in Seq(STRING) /\ Len(<<"/", m.steps[k]>>) = 2
  <2> SUFFICES ASSUME NEW k \in 1..n
               PROVE  <<"/", m.steps[k]>> \in Seq(STRING) /\ Len(<<"/", m.steps[k]>>) = 2
    OBVIOUS
  <2>1. <<"/", m.steps[k]>> \in Seq(STRING)
    BY <1>2, WordsTyped, Typed2, Zenon
  <2>2. Len(<<"/", m.steps[k]>>) = 2
    OBVIOUS
  <2> QED
    BY <2>1, <2>2
<1>4. ss \in Seq(Seq(STRING)) /\ Len(ss) = n /\ \A k \in 1..n : ss[k] = <<"/", m.steps[k]>>
  BY <1>1, <1>3
<1>5. Path(m) = w
  BY DEF Path
<1> HIDE DEF ss, w
<1>6. Pairs(w, ss, n)
  <2>1. \A i \in 1..Len(ss) : Len(ss[i]) = 2
    BY <1>3, <1>4
  <2> QED
    BY <1>4, <2>1, FlattenPairs DEF w
<1>7. w \in Seq(STRING)
  BY <1>5, PathTyped
<1>8. \A k \in 1..n : m.steps[k] # "/"
  BY <1>1 DEF Opens
<1>9. \A k \in 1..n : ss[k][1] = "/" /\ ss[k][2] = m.steps[k]
  BY <1>4
<1>10. Len(w) = 2 * n /\ \A k \in 1..n : w[2 * k - 1] = ss[k][1] /\ w[2 * k] = ss[k][2]
  BY <1>6, Zenon DEF Pairs
<1> QED
  BY <1>1, <1>5, <1>7, <1>8, <1>9, <1>10, Zenon DEF Stepped, n

(* The path check refuses a path that leaves the root, and no other.  *)
LEMMA PathJudged ==
    ASSUME NEW m \in Messages, Opens(m)
    PROVE  TooHigh(Path(m)) <=> Walk(m.steps) = <<>>
<1> DEFINE n == Len(m.steps)
<1>1. Stepped(Path(m), m.steps, "/", n)
  BY PathStepped
<1>2. m.steps \in Seq(STRING) /\ n \in Nat
  BY MessageTyped
<1>3. n > 0
  <2>1. m.steps # <<>>
    BY Zenon DEF Opens
  <2> QED
    BY <1>2, <2>1, NotEmpty, Zenon
<1>4. m.steps[n] # ".."
  BY Zenon DEF Opens
<1>5. PICK f : Walks(f, m.steps, <<"/">>, "..", n) /\ Walk(m.steps) = f[n]
  <2>1. \A k \in DOMAIN m.steps : m.steps[k] \notin Still
    BY Zenon DEF Opens
  <2>2. DOMAIN m.steps = 1..n
    BY <1>2
  <2> QED
    BY <1>2, <2>1, <2>2, WalkAlong, Zenon
<1>6. <<"/">> \in Seq(STRING) /\ Len(<<"/">>) = 1
  <2>1. <<"/">> \in Seq(STRING)
    BY WordsTyped, Typed1, Zenon
  <2>2. Len(<<"/">>) = 1
    OBVIOUS
  <2> QED
    BY <2>1, <2>2
<1>7. f[n] = <<>> <=> Above(Path(m), "/", "..", n - 1)
  BY <1>1, <1>2, <1>3, <1>4, <1>5, <1>6, WalkSo, ZenonT(60)
<1>8. TooHigh(Path(m)) <=> Above(Path(m), "/", "..", n - 1)
  BY <1>1, HighSo, Zenon DEF Above
<1> QED
  BY <1>5, <1>7, <1>8, Zenon

LEMMA PathSo ==
    ASSUME NEW m \in Messages, Opens(m)
    PROVE  /\ Path(m) # <<>> /\ Path(m)[1] = "/"
           /\ Lacks(Path(m), " ") /\ Lacks(Path(m), "?")
<1> DEFINE n == Len(m.steps)
           url == Path(m)
<1>1. Stepped(url, m.steps, "/", n)
  BY PathStepped
<1>2. m.steps \in Seq(STRING) /\ n \in Nat /\ DOMAIN m.steps = 1..n /\ n > 0
  <2>1. m.steps # <<>>
    BY Zenon DEF Opens
  <2>2. m.steps \in Seq(STRING)
    BY MessageTyped, Zenon
  <2> QED
    BY <2>1, <2>2, NotEmpty, Zenon
<1>3. \A k \in 1..n : m.steps[k] # " " /\ m.steps[k] # "?"
  BY <1>2 DEF Opens
<1> HIDE DEF url
<1>4. url \in Seq(STRING) /\ Len(url) = 2 * n /\ \A j \in 1..n : url[2 * j - 1] = "/" /\ url[2 * j] = m.steps[j]
  BY <1>1, Zenon DEF Stepped
<1>5. "/" # " " /\ "/" # "?"
  OBVIOUS
<1>6. \A i \in 1..(2 * n) : \E j \in 1..n : i = 2 * j - 1 \/ i = 2 * j
  <2> SUFFICES ASSUME NEW i \in 1..(2 * n) PROVE \E j \in 1..n : i = 2 * j - 1 \/ i = 2 * j
    OBVIOUS
  <2>0. i \in Nat
    BY ONLY i \in 1..(2 * n), <1>2
  <2>1. PICK k \in Nat : i = 2 * k \/ i = 2 * k + 1
    BY <2>0, Halves, Zenon
  <2>2. CASE i = 2 * k
    <3>1. k \in 1..n
      BY ONLY <1>2, <2>0, <2>2, i \in 1..(2 * n), k \in Nat
    <3> QED
      BY <2>2, <3>1, Zenon
  <2>3. CASE i = 2 * k + 1
    <3>1. k + 1 \in 1..n /\ i = 2 * (k + 1) - 1
      BY ONLY <1>2, <2>0, <2>3, i \in 1..(2 * n), k \in Nat
    <3> QED
      BY <3>1, Zenon
  <2> QED
    BY <2>1, <2>2, <2>3
<1>7. \A i \in 1..Len(url) : url[i] # " " /\ url[i] # "?"
  <2>1. DOMAIN url = 1..(2 * n) /\ Len(url) = 2 * n
    BY <1>4, NotEmpty, Zenon
  <2> SUFFICES ASSUME NEW i \in 1..(2 * n) PROVE url[i] # " " /\ url[i] # "?"
    BY <2>1, Zenon
  <2>2. PICK j \in 1..n : i = 2 * j - 1 \/ i = 2 * j
    BY <1>6, Zenon
  <2>3. url[2 * j - 1] = "/" /\ url[2 * j] = m.steps[j]
    BY <1>4, Zenon
  <2> QED
    BY <1>3, <1>5, <2>2, <2>3, Zenon
<1>8. url # <<>> /\ url[1] = "/"
  <2>1. 1 \in 1..n /\ 2 * 1 - 1 = 1 /\ Len(url) > 0
    BY ONLY <1>2, <1>4
  <2>2. url[2 * 1 - 1] = "/"
    BY <1>4, <2>1, Zenon
  <2>3. url # <<>>
    BY ONLY <1>4, <2>1
  <2> QED
    BY <2>1, <2>2, <2>3
<1> QED
  BY <1>7, <1>8, Zenon DEF Lacks, url

-----------------------------------------------------------------------------
(* What is left of a text behind each of its fields *)
Count(m) == Len(FieldsOf(m))
Onward(m, k) == SaidAll(SubSeq(FieldsOf(m), k + 1, Count(m))) \o (BlankLine \o Content(m))
Left(m, k) == From(Onward(m, k), 3)
(* The text of a field, and one more. *)
Telling(t, f, x) == t = CRLF \o FieldText(f.name, f.before, f.value, x)
LEMMA SaidText ==
    ASSUME NEW f \in Field, f.after = <<>>, NEW x \in Seq(STRING)
    PROVE  Telling(Said(f) \o (CRLF \o x), f, x)
<1> DEFINE p == <<f.name>>
           q == <<":">>
           b == f.before
           v == f.value
           t == CRLF \o x
           c == CRLF
<1>1. f.name \in STRING /\ b \in Seq(STRING) /\ v \in Seq(STRING)
  BY DEF Field
<1>2. p \in Seq(STRING) /\ q \in Seq(STRING) /\ c \in Seq(STRING) /\ t \in Seq(STRING)
  BY <1>1, WordsTyped, EndsTyped, Typed1, JoinTyped, Zenon
<1>3. <<f.name, ":">> = p \o q
  BY TwoOnes, Zenon
<1> HIDE DEF p, q, b, v, t, c
<1> DEFINE pq == p \o q
           vt == v \o t
           bvt == b \o vt
           cpqb == c \o pq \o b
           cpqbv == cpqb \o v
           cpq == c \o pq
<1>4. Said(f) = cpqbv \o <<>>
  BY <1>3, Zenon DEF Said, b, v, c
<1>t1. pq \in Seq(STRING)
  BY <1>1, <1>2, JoinTyped, Zenon
<1>t2. vt \in Seq(STRING)
  BY <1>1, <1>2, JoinTyped, Zenon
<1>t3. bvt \in Seq(STRING)
  BY <1>1, <1>2, JoinTyped, Zenon
<1>t4. cpq \in Seq(STRING)
  BY <1>1, <1>2, JoinTyped, Zenon
<1>t5. cpqb \in Seq(STRING)
  BY <1>1, <1>2, JoinTyped, Zenon
<1>t6. cpqbv \in Seq(STRING)
  BY <1>1, <1>2, JoinTyped, Zenon
<1>t7. b \in Seq(STRING) /\ v \in Seq(STRING)
  BY <1>1
<1> HIDE DEF vt
<1>7. (cpqb \o v) \o t = cpqb \o vt
  <2> HIDE DEF cpqb
  <2>1. t \in Seq(STRING) /\ v \in Seq(STRING)
    BY <1>1, <1>2
  <2> QED
    BY ONLY <1>t5, <2>1 DEF vt
<1> HIDE DEF bvt
<1>8. (cpq \o b) \o vt = cpq \o bvt
  <2> HIDE DEF cpq
  <2>1. b \in Seq(STRING)
    BY <1>1
  <2> QED
    BY ONLY <1>t4, <1>t2, <2>1, SMTT(30) DEF bvt
<1>9. (c \o pq) \o bvt = c \o (pq \o bvt)
  <2> HIDE DEF pq
  <2>1. c \in Seq(STRING)
    BY <1>2
  <2> QED
    BY ONLY <1>t1, <1>t3, <2>1
<1>10. (p \o q) \o bvt = p \o (q \o bvt)
  <2>1. p \in Seq(STRING) /\ q \in Seq(STRING)
    BY <1>2
  <2> QED
    BY ONLY <1>t3, <2>1, SMTT(30)
<1> HIDE DEF cpqbv
<1>6. cpqbv \o <<>> = cpqbv
  BY ONLY <1>t6
<1>11. Said(f) \o t = c \o (p \o (q \o bvt))
  BY <1>4, <1>6, <1>7, <1>8, <1>9, <1>10, Zenon DEF cpqbv
<1> QED
  BY <1>11, Zenon DEF Telling, FieldText, p, q, b, v, t, c, vt, bvt

Fine(f) ==
    /\ f \in Field /\ f.after = <<>> /\ f.name # "CR"
    /\ Apart(f.name, f.before, f.value)
(* Those that say how a request is framed. *)
LEMMA FineOne ==
    ASSUME NEW name \in STRING, name # ":", name # "CR", NEW x \in STRING, x # "LF", x # " "
    PROVE  Fine(Plain(name, <<x>>))
<1>1. Lacks(<<x>>, "LF") /\ AllOf(<<" ">>, " ") /\ <<x>>[1] = x
  BY Lacks1, AllOf1, Zenon
<1>2. <<x>> \in Seq(STRING)
  BY Typed1, Zenon
<1>3. Plain(name, <<x>>) \in Field
  BY <1>2, PlainTyped
<1>4. /\ Plain(name, <<x>>).name = name /\ Plain(name, <<x>>).before = <<" ">>
      /\ Plain(name, <<x>>).value = <<x>> /\ Plain(name, <<x>>).after = <<>>
  BY DEF Plain
<1> QED
  BY <1>1, <1>3, <1>4, Zenon DEF Fine, Apart

LEMMA FineMultipart == Fine(Multipart)
<1> DEFINE v == <<"multipart", "boundary=", "boundary">>
<1>1. "multipart" # "LF" /\ "boundary=" # "LF" /\ "boundary" # "LF" /\ "multipart" # " "
  OBVIOUS
<1>2. Lacks(v, "LF") /\ v[1] = "multipart"
  <2>1. Len(v) = 3 /\ v[1] = "multipart" /\ v[2] = "boundary=" /\ v[3] = "boundary"
    OBVIOUS
  <2> HIDE DEF v
  <2>2. \A i \in 1..3 : i = 1 \/ i = 2 \/ i = 3
    OBVIOUS
  <2>3. \A i \in 1..Len(v) : v[i] # "LF"
    BY <1>1, <2>1, <2>2, Zenon
  <2> QED
    BY <2>1, <2>3, Zenon DEF Lacks
<1>3. AllOf(<<" ">>, " ")
  BY AllOf1, Zenon
<1>4. "Content-Type" # ":" /\ "Content-Type" # "CR"
  OBVIOUS
<1>5. /\ Multipart.name = "Content-Type" /\ Multipart.before = <<" ">>
      /\ Multipart.value = v /\ Multipart.after = <<>>
  BY DEF Multipart, Plain
<1> HIDE DEF v
<1> QED
  BY <1>1, <1>2, <1>3, <1>4, <1>5, MultipartTyped, Zenon DEF Fine, Apart

LEMMA FineOwn ==
    ASSUME NEW m \in Messages, Framed(m), Lists(m), NEW j \in DOMAIN m.fields
    PROVE  Fine(m.fields[j])
<1> DEFINE f == m.fields[j]
<1>1. f \in Field /\ Whole(f)
  BY FramedField
<1>2. /\ f.name # ":" /\ (\A i \in DOMAIN f.before : f.before[i] = " ")
      /\ (f.value # <<>> => f.value[1] # " ") /\ f.after = <<>>
  BY Zenon DEF Lists
<1> HIDE DEF f
<1>3. f.before \in Seq(STRING) /\ f.value \in Seq(STRING)
  BY <1>1, Zenon DEF Field
<1>4. DOMAIN f.before = 1..Len(f.before) /\ (Len(f.value) > 0 => f.value # <<>>)
  BY <1>3, NotEmpty, Zenon
<1>5. AllOf(f.before, " ") /\ Lacks(f.value, "LF") /\ f.name # "CR"
  BY <1>1, <1>2, <1>4, Zenon DEF AllOf, Lacks, Whole, Unbroken
<1> QED
  BY <1>1, <1>2, <1>4, <1>5, Zenon DEF Fine, Apart, f

LEMMA EachFine ==
    ASSUME NEW m \in Messages, Framed(m), Lists(m), NEW k \in DOMAIN FieldsOf(m)
    PROVE  Fine(FieldsOf(m)[k])
<1>1. Fine(Sized(Content(m)))
  <2>1. Len(Content(m)) \in 0..MaxNumber
    BY ContentSized, Zenon
  <2>2. /\ ToString(Len(Content(m))) \in STRING /\ ToString(Len(Content(m))) # "LF"
        /\ ToString(Len(Content(m))) # " "
    BY <2>1, NumeralSo, Zenon
  <2>3. "Content-Length" # ":" /\ "Content-Length" # "CR" /\ "Content-Length" \in STRING
    BY WordsTyped
  <2> QED
    BY <2>2, <2>3, FineOne, Zenon DEF Sized
<1>2. Fine(Chunking)
  <2>1. /\ "Transfer-Encoding" # ":" /\ "Transfer-Encoding" # "CR" /\ "Transfer-Encoding" \in STRING
        /\ "chunked" # "LF" /\ "chunked" # " " /\ "chunked" \in STRING
    BY WordsTyped
  <2> QED
    BY <2>1, FineOne, Zenon DEF Chunking
<1>3. CASE FieldsOf(m)[k] \in {Multipart, Sized(Content(m)), Chunking}
  BY <1>1, <1>2, <1>3, FineMultipart, Zenon
<1>4. CASE \E j \in DOMAIN m.fields : FieldsOf(m)[k] = m.fields[j]
  BY <1>4, FineOwn, Zenon
<1> QED
  BY <1>3, <1>4, EachField, Zenon

LEMMA CountSo ==
    ASSUME NEW m \in Messages
    PROVE  Count(m) \in Nat /\ DOMAIN FieldsOf(m) = 1..Count(m)
<1>1. FieldsOf(m) \in Seq(Field)
  BY FieldsOfTyped
<1> QED
  BY <1>1 DEF Count

(* Behind each field, the next one; behind the last one, the blank line. *)
LEMMA TailTyped ==
    ASSUME NEW m \in Messages, NEW k \in Nat, k <= Count(m)
    PROVE  /\ SubSeq(FieldsOf(m), k + 1, Count(m)) \in Seq(Field)
           /\ Onward(m, k) \in Seq(STRING)
<1>1. FieldsOf(m) \in Seq(Field)
  BY FieldsOfTyped
<1>2. Count(m) \in Nat
  BY CountSo
<1>3. SubSeq(FieldsOf(m), k + 1, Count(m)) \in Seq(Field)
  BY <1>1, <1>2, Parts DEF Count
<1>4. Onward(m, k) \in Seq(STRING)
  BY <1>3, SaidAllTyped, ContentTyped, EndsTyped, JoinTyped, Zenon DEF Onward
<1> QED
  BY <1>3, <1>4

LEMMA TailLast ==
    ASSUME NEW m \in Messages
    PROVE  Onward(m, Count(m)) = CRLF \o (CRLF \o Content(m))
<1> DEFINE c == CRLF
           y == Content(m)
<1>1. Count(m) \in Nat
  <2>1. FieldsOf(m) \in Seq(Field)
    BY FieldsOfTyped
  <2> QED
    BY <2>1 DEF Count
<1>2. SubSeq(FieldsOf(m), Count(m) + 1, Count(m)) = <<>>
  BY <1>1, SubSeqProperties
<1>3. [k \in DOMAIN <<>> |-> Said(<<>>[k])] = <<>>
  OBVIOUS
<1>4. SaidAll(<<>>) = <<>>
  BY <1>3, FlattenNone, Zenon DEF SaidAll
<1>5. c \in Seq(STRING) /\ y \in Seq(STRING)
  BY EndsTyped, ContentTyped, Zenon
<1> HIDE DEF c, y
<1>6. (c \o c) \o y = c \o (c \o y)
  BY ONLY <1>5
<1>7. (c \o c) \o y \in Seq(STRING)
  BY <1>5, JoinTyped, Zenon
<1> DEFINE z == (c \o c) \o y
<1>8. z \in Seq(STRING)
  BY <1>7
<1> HIDE DEF z
<1>9. <<>> \o z = z
  BY ONLY <1>8, EmptyBefore
<1> QED
  BY <1>2, <1>4, <1>6, <1>9, Zenon DEF Onward, BlankLine, c, y, z

Tailed(m, k, f) == Onward(m, k) = Said(f) \o Onward(m, k + 1)
LEMMA TailNext ==
    ASSUME NEW m \in Messages, NEW k \in Nat, k < Count(m)
    PROVE  Tailed(m, k, FieldsOf(m)[k + 1])
<1> DEFINE f == FieldsOf(m)[k + 1]
           g == SubSeq(FieldsOf(m), k + 2, Count(m))
           e == BlankLine \o Content(m)
           a == Said(f)
           b == SaidAll(g)
<1>1. FieldsOf(m) \in Seq(Field)
  BY FieldsOfTyped
<1>2. Count(m) = Len(FieldsOf(m)) /\ k + 1 \in Nat /\ k + 1 <= Count(m) /\ k + 1 + 1 = k + 2
      /\ k + 1 \in 1..Len(FieldsOf(m)) /\ k < Len(FieldsOf(m))
  BY <1>1 DEF Count
<1>3. f \in Field
  BY <1>1, <1>2
<1>4. g \in Seq(Field)
  BY <1>2, TailTyped
<1>5. SubSeq(FieldsOf(m), k + 1, Count(m)) = <<f>> \o g
  BY <1>1, <1>2, SubSeqFirst
<1> HIDE DEF f, g
<1>6. SaidAll(<<f>> \o g) = SaidAll(<<f>>) \o SaidAll(g)
  <2>1. <<f>> \in Seq(Field)
    BY <1>3
  <2> QED
    BY <2>1, <1>4, SaidConcat
<1>7. SaidAll(<<f>>) = a
  BY <1>3, SaidOne
<1>8. a \in Seq(STRING) /\ b \in Seq(STRING) /\ e \in Seq(STRING)
  BY <1>3, <1>4, SaidTyped, SaidAllTyped, EndsTyped, ContentTyped, JoinTyped, Zenon
<1> HIDE DEF a, b, e
<1>9. (a \o b) \o e = a \o (b \o e)
  BY ONLY <1>8
<1>10. Onward(m, k) = (a \o b) \o e
  BY <1>5, <1>6, <1>7, Zenon DEF Onward, b, e
<1>11. Onward(m, k + 1) = b \o e
  BY <1>2, Zenon DEF Onward, b, e, g
<1> QED
  BY <1>9, <1>10, <1>11, Zenon DEF Tailed, a, f

(* Every one begins with the end of a line. *)
Ended(m, k) == Left(m, k) \in Seq(STRING) /\ Onward(m, k) = CRLF \o Left(m, k)
LEMMA EndedSo ==
    ASSUME NEW m \in Messages, NEW k, NEW x \in Seq(STRING), Onward(m, k) = CRLF \o x
    PROVE  Ended(m, k) /\ Left(m, k) = x
<1>1. From(CRLF \o x, 3) = x
  BY BlankSo, Zenon
<1>2. Left(m, k) = x
  BY <1>1, Zenon DEF Left
<1> QED
  BY <1>2, Zenon DEF Ended

LEMMA FieldTextTyped ==
    ASSUME NEW f \in Field, NEW x \in Seq(STRING)
    PROVE  FieldText(f.name, f.before, f.value, x) \in Seq(STRING)
<1>1. f.name \in STRING /\ f.before \in Seq(STRING) /\ f.value \in Seq(STRING)
  BY DEF Field
<1> QED
  BY <1>1, WordsTyped, EndsTyped, Typed1, JoinTyped, Zenon DEF FieldText

(* What is left, field by field. *)
LeftAs(m, k, f) == Left(m, k) = FieldText(f.name, f.before, f.value, Left(m, k + 1))
LEMMA LeftNext ==
    ASSUME NEW m \in Messages, Framed(m), Lists(m), NEW k \in Nat, k < Count(m), Ended(m, k + 1)
    PROVE  Ended(m, k) /\ LeftAs(m, k, FieldsOf(m)[k + 1])
<1> DEFINE f == FieldsOf(m)[k + 1]
           x == Left(m, k + 1)
           t == FieldText(f.name, f.before, f.value, x)
<1>1. Count(m) \in Nat /\ DOMAIN FieldsOf(m) = 1..Count(m)
  BY CountSo
<1>2. k + 1 \in DOMAIN FieldsOf(m)
  BY <1>1
<1>3. Fine(f)
  BY <1>2, EachFine, Zenon
<1>4. Tailed(m, k, f)
  BY TailNext, Zenon
<1> HIDE DEF f
<1>5. x \in Seq(STRING) /\ Onward(m, k + 1) = CRLF \o x
  BY Zenon DEF Ended
<1>6. f \in Field /\ f.after = <<>>
  BY <1>3, Zenon DEF Fine
<1>7. Telling(Said(f) \o (CRLF \o x), f, x)
  BY <1>5, <1>6, SaidText, Zenon
<1>8. t \in Seq(STRING)
  BY <1>5, <1>6, FieldTextTyped, Zenon
<1>9. Onward(m, k) = CRLF \o t
  BY <1>4, <1>5, <1>7, Zenon DEF Tailed, Telling
<1> HIDE DEF t, x
<1>10. Ended(m, k) /\ Left(m, k) = t
  BY <1>8, <1>9, EndedSo
<1> QED
  BY <1>10, Zenon DEF LeftAs, t, x, f

LEMMA LeftLast ==
    ASSUME NEW m \in Messages
    PROVE  Ended(m, Count(m)) /\ Left(m, Count(m)) = CRLF \o Content(m)
<1>1. CRLF \o Content(m) \in Seq(STRING)
  BY EndsTyped, ContentTyped, JoinTyped, Zenon
<1> QED
  BY <1>1, TailLast, EndedSo

LEMMA AllEnded ==
    ASSUME NEW m \in Messages, Framed(m), Lists(m)
    PROVE  \A k \in Nat : k <= Count(m) => Ended(m, k)
<1> DEFINE n == Count(m)
           T == {j \in Nat : j <= n => Ended(m, n - j)}
<1>1. n \in Nat
  BY CountSo
<1>2. 0 \in T
  <2>1. n - 0 = n
    BY <1>1
  <2> QED
    BY <2>1, LeftLast
<1>3. ASSUME NEW j \in Nat, j \in T PROVE j + 1 \in T
  <2> SUFFICES ASSUME j + 1 <= n PROVE Ended(m, n - (j + 1))
    OBVIOUS
  <2> DEFINE k == n - (j + 1)
  <2>1. k \in Nat /\ k < n /\ k + 1 = n - j /\ j <= n
    BY ONLY <1>1, j \in Nat, j + 1 <= n
  <2>2. Ended(m, k + 1)
    BY <1>3, <2>1
  <2> HIDE DEF k
  <2>3. Ended(m, k)
    BY <2>1, <2>2, LeftNext
  <2> QED
    BY <2>3 DEF k
<1> HIDE DEF T
<1>4. \A j \in Nat : j \in T
  BY <1>2, <1>3, Induction
<1> HIDE DEF n
<1>5. ASSUME NEW k \in Nat, k <= n PROVE Ended(m, k)
  <2>1. n - k \in Nat /\ n - (n - k) = k /\ n - k <= n
    BY ONLY <1>1, <1>5, k \in Nat
  <2> QED
    BY <1>4, <2>1 DEF T
<1> QED
  BY <1>5 DEF n

-----------------------------------------------------------------------------
(* The whole text *)
Opened(m) == LineText(m.method, Target(m), m.version, Left(m, 0))
LEMMA BytesLine ==
    ASSUME NEW m \in Messages, Framed(m), Lists(m)
    PROVE  Bytes[m] = Opened(m) /\ Left(m, 0) \in Seq(STRING)
<1> DEFINE l == Line(m)
           h == SaidAll(FieldsOf(m))
           e == BlankLine
           y == Content(m)
           x == Left(m, 0)
           c == CRLF
           t == Target(m)
           p == <<m.method>>
           s == <<" ">>
           v == <<m.version>>
<1>0. Count(m) \in Nat /\ FieldsOf(m) \in Seq(Field)
  BY CountSo, FieldsOfTyped
<1>1. Ended(m, 0)
  <2>1. 0 \in Nat /\ 0 <= Count(m)
    BY <1>0
  <2> QED
    BY <2>1, AllEnded, Zenon
<1>2. SubSeq(FieldsOf(m), 0 + 1, Count(m)) = FieldsOf(m)
  BY <1>0 DEF Count
<1>3. Onward(m, 0) = h \o (e \o y)
  BY <1>2, Zenon DEF Onward
<1>4. Bytes[m] = (l \o h) \o e \o y
  BY BytesTyped, Zenon DEF Heading
<1>5. l \in Seq(STRING)
  BY LineTyped
<1>6. h \in Seq(STRING)
  BY <1>0, SaidAllTyped
<1>7. e \in Seq(STRING) /\ c \in Seq(STRING) /\ y \in Seq(STRING)
  BY EndsTyped, ContentTyped
<1>8. x \in Seq(STRING) /\ Onward(m, 0) = c \o x
  BY <1>1, Zenon DEF Ended
<1>9. t \in Seq(STRING) /\ p \in Seq(STRING) /\ s \in Seq(STRING) /\ v \in Seq(STRING)
  BY TargetTyped, MessageTyped, WordsTyped, Typed1, Zenon
<1>10. l = (p \o s) \o t \o (s \o v)
  BY TwoOnes, Zenon DEF Line
<1> HIDE DEF l, h, e, y, x, c, t, p, s, v
<1>11. (l \o h) \o e \o y = l \o (h \o (e \o y))
  <2>1. l \in Seq(STRING) /\ h \in Seq(STRING) /\ e \in Seq(STRING) /\ y \in Seq(STRING)
    BY <1>5, <1>6, <1>7
  <2> DEFINE a == l \o h
             b == e \o y
  <2>2. a \in Seq(STRING)
    BY <2>1, JoinTyped, Zenon
  <2>3. b \in Seq(STRING)
    BY <2>1, JoinTyped, Zenon
  <2> HIDE DEF a, b
  <2>4. (a \o e) \o y = a \o b
    <3>1. e \in Seq(STRING) /\ y \in Seq(STRING)
      BY <2>1
    <3> QED
      BY ONLY <2>2, <3>1 DEF b
  <2>5. (l \o h) \o b = l \o (h \o b)
    <3>1. l \in Seq(STRING) /\ h \in Seq(STRING)
      BY <2>1
    <3> QED
      BY ONLY <2>3, <3>1
  <2> QED
    BY <2>4, <2>5, Zenon DEF a, b
<1>12. Bytes[m] = l \o (c \o x)
  BY <1>3, <1>4, <1>8, <1>11, Zenon
<1> DEFINE cx == c \o x
           sv == s \o v
           ps == p \o s
           vc == v \o cx
           svc == s \o vc
           tsvc == t \o svc
<1>13. cx \in Seq(STRING)
  BY <1>7, <1>8, JoinTyped, Zenon
<1>14. sv \in Seq(STRING) /\ ps \in Seq(STRING)
  BY <1>9, JoinTyped, Zenon
<1>15. vc \in Seq(STRING)
  BY <1>9, <1>13, JoinTyped, Zenon
<1>16. svc \in Seq(STRING)
  BY <1>9, <1>15, JoinTyped, Zenon
<1>17. tsvc \in Seq(STRING)
  BY <1>9, <1>16, JoinTyped, Zenon
<1> HIDE DEF cx
<1>18. (ps \o t \o sv) \o cx = ps \o (t \o (sv \o cx))
  <2> HIDE DEF ps, sv
  <2>1. ps \in Seq(STRING) /\ t \in Seq(STRING) /\ sv \in Seq(STRING)
    BY <1>9, <1>14
  <2> DEFINE a == ps \o t
             b == sv \o cx
  <2>2. a \in Seq(STRING)
    BY <2>1, JoinTyped, Zenon
  <2>3. b \in Seq(STRING)
    BY <2>1, <1>13, JoinTyped, Zenon
  <2> HIDE DEF a, b
  <2>4. (a \o sv) \o cx = a \o b
    <3>1. sv \in Seq(STRING)
      BY <2>1
    <3> QED
      BY ONLY <2>2, <3>1, <1>13 DEF b
  <2>5. (ps \o t) \o b = ps \o (t \o b)
    <3>1. ps \in Seq(STRING) /\ t \in Seq(STRING)
      BY <2>1
    <3> QED
      BY ONLY <2>3, <3>1
  <2> QED
    BY <2>4, <2>5, Zenon DEF a, b
<1>19. (s \o v) \o cx = svc
  <2>1. s \in Seq(STRING) /\ v \in Seq(STRING)
    BY <1>9
  <2> QED
    BY ONLY <2>1, <1>13 DEF svc, vc
<1> HIDE DEF tsvc
<1>20. (p \o s) \o tsvc = p \o (s \o tsvc)
  <2>1. p \in Seq(STRING) /\ s \in Seq(STRING)
    BY <1>9
  <2> QED
    BY ONLY <2>1, <1>17
<1>21. Bytes[m] = p \o (s \o (t \o (s \o (v \o (c \o x)))))
  BY <1>10, <1>12, <1>18, <1>19, <1>20, Zenon DEF ps, sv, svc, vc, tsvc, cx
<1> QED
  BY <1>8, <1>21, Zenon DEF Opened, LineText, p, s, t, v, c, x

LEMMA LongerField ==
    ASSUME NEW f \in Field, NEW x \in Seq(STRING)
    PROVE  Len(FieldText(f.name, f.before, f.value, x)) > Len(x)
<1> DEFINE y1 == CRLF \o x
           y2 == f.value \o y1
           y3 == f.before \o y2
           y4 == <<":">> \o y3
           y5 == <<f.name>> \o y4
<1>1. f.name \in STRING /\ f.before \in Seq(STRING) /\ f.value \in Seq(STRING)
  BY DEF Field
<1>2. <<f.name>> \in Seq(STRING) /\ <<":">> \in Seq(STRING) /\ CRLF \in Seq(STRING)
  BY <1>1, WordsTyped, EndsTyped, Typed1, Zenon
<1>3. y1 \in Seq(STRING) /\ y2 \in Seq(STRING) /\ y3 \in Seq(STRING) /\ y4 \in Seq(STRING)
  BY <1>1, <1>2, JoinTyped, Zenon
<1>4. Len(CRLF) = 2
  BY DEF CRLF
<1>5. Len(y1) = Len(CRLF) + Len(x)
  BY <1>2, JoinedLen, Zenon
<1>6. Len(y2) = Len(f.value) + Len(y1)
  BY <1>1, <1>3, JoinedLen, Zenon
<1>7. Len(y3) = Len(f.before) + Len(y2)
  BY <1>1, <1>3, JoinedLen, Zenon
<1>8. Len(y4) = Len(<<":">>) + Len(y3)
  BY <1>2, <1>3, JoinedLen, Zenon
<1>9. Len(y5) = Len(<<f.name>>) + Len(y4)
  BY <1>2, <1>3, JoinedLen, Zenon
<1>10. Len(x) \in Nat /\ Len(f.value) \in Nat /\ Len(f.before) \in Nat
  BY <1>1
<1>11. Len(<<":">>) \in Nat /\ Len(<<f.name>>) \in Nat
  OBVIOUS
<1>12. FieldText(f.name, f.before, f.value, x) = y5
  BY Zenon DEF FieldText
<1> HIDE DEF y1, y2, y3, y4, y5
<1> DEFINE n0 == Len(x)
           n1 == Len(f.value)
           n2 == Len(f.before)
           n3 == Len(<<":">>)
           n4 == Len(<<f.name>>)
           n == Len(y5)
<1>13. n0 \in Nat /\ n1 \in Nat /\ n2 \in Nat /\ n3 \in Nat /\ n4 \in Nat
  BY <1>10, <1>11
<1>14. n = n4 + (n3 + (n2 + (n1 + (2 + n0))))
  BY <1>4, <1>5, <1>6, <1>7, <1>8, <1>9, Zenon
<1> HIDE DEF n, n0, n1, n2, n3, n4
<1>15. n > n0
  BY ONLY <1>13, <1>14
<1> QED
  BY <1>12, <1>15, Zenon DEF n, n0

(* There are as many turns as the loop needs. *)
LEMMA LeftLong ==
    ASSUME NEW m \in Messages, Framed(m), Lists(m)
    PROVE  Len(Left(m, 0)) \in Nat /\ Len(Left(m, 0)) >= Count(m) + 2
<1> DEFINE n == Count(m)
           T == {j \in Nat : j <= n => Len(Left(m, n - j)) \in Nat /\ Len(Left(m, n - j)) >= j + 2}
<1>1. n \in Nat /\ DOMAIN FieldsOf(m) = 1..n
  BY CountSo
<1>2. 0 \in T
  <2>1. n - 0 = n
    BY <1>1
  <2>2. Left(m, n) = CRLF \o Content(m)
    BY LeftLast
  <2>3. Len(CRLF) = 2 /\ Len(Content(m)) \in Nat
    BY ContentTyped DEF CRLF
  <2>4. Len(CRLF \o Content(m)) = Len(CRLF) + Len(Content(m))
    BY EndsTyped, ContentTyped, JoinedLen, Zenon
  <2> QED
    BY <2>1, <2>2, <2>3, <2>4
<1>3. ASSUME NEW j \in Nat, j \in T PROVE j + 1 \in T
  <2> SUFFICES ASSUME j + 1 <= n
               PROVE  Len(Left(m, n - (j + 1))) \in Nat /\ Len(Left(m, n - (j + 1))) >= j + 1 + 2
    OBVIOUS
  <2> DEFINE k == n - (j + 1)
  <2>1. k \in Nat /\ k < n /\ k + 1 = n - j /\ j <= n /\ k + 1 <= n /\ k + 1 \in Nat /\ k <= n /\ k + 1 \in 1..n
    BY ONLY <1>1, j \in Nat, j + 1 <= n
  <2>2. Len(Left(m, k + 1)) \in Nat /\ Len(Left(m, k + 1)) >= j + 2
    BY <1>3, <2>1
  <2> HIDE DEF k
  <2>3. Ended(m, k + 1) /\ Ended(m, k)
    BY <2>1, AllEnded
  <2>4. LeftAs(m, k, FieldsOf(m)[k + 1])
    BY <2>1, <2>3, LeftNext, Zenon
  <2>5. FieldsOf(m)[k + 1] \in Field
    BY <1>1, <2>1, EachFine, Zenon DEF Fine
  <2>6. Left(m, k + 1) \in Seq(STRING) /\ Left(m, k) \in Seq(STRING)
    BY <2>3, Zenon DEF Ended
  <2>7. Len(Left(m, k)) > Len(Left(m, k + 1))
    BY <2>4, <2>5, <2>6, LongerField, Zenon DEF LeftAs
  <2>8. Len(Left(m, k)) \in Nat
    BY <2>6
  <2> QED
    BY <2>2, <2>7, <2>8 DEF k
<1> HIDE DEF T
<1>4. \A j \in Nat : j \in T
  BY <1>2, <1>3, Induction
<1>5. n - n = 0 /\ n <= n
  BY <1>1
<1> QED
  BY <1>1, <1>4, <1>5 DEF T

-----------------------------------------------------------------------------
(* The map of the fields *)

(* Names in capitals are none of the keys of the request line. *)
LEMMA UpperApart ==
    ASSUME NEW x
    PROVE  Upper(x) \notin {"method", "url", "args", "http", "port", "body"}
BY DEF Upper

LEMMA OneMore ==
    ASSUME NEW S, NEW x, x \notin S, IsFiniteSet(S), NEW n \in Nat, Cardinality(S) = n
    PROVE  IsFiniteSet(S \cup {x}) /\ Cardinality(S \cup {x}) = n + 1
BY FS_AddElement

BaseKeys == LineKeys \cup {<<"port">>}
LEMMA BaseSo ==
    /\ IsFiniteSet(BaseKeys) /\ Cardinality(BaseKeys) = 5
    /\ \A x : <<Upper(x)>> \notin BaseKeys \cup {<<"body">>}
    /\ <<"body">> \notin BaseKeys /\ <<"disposition">> \notin BaseKeys
<1>1. /\ <<"port">> # <<"method">> /\ <<"port">> # <<"url">> /\ <<"port">> # <<"args">>
      /\ <<"port">> # <<"http">>
  OBVIOUS
<1>2. IsFiniteSet({}) /\ Cardinality({}) = 0
  BY FS_EmptySet
<1> DEFINE a == {<<"method">>}
           b == a \cup {<<"url">>}
           c == b \cup {<<"args">>}
           d == c \cup {<<"http">>}
           e == d \cup {<<"port">>}
<1>3. IsFiniteSet(a) /\ Cardinality(a) = 1
  BY FS_Singleton
<1>n. 1 + 1 = 2 /\ 2 + 1 = 3 /\ 3 + 1 = 4 /\ 4 + 1 = 5 /\ 1 \in Nat /\ 2 \in Nat /\ 3 \in Nat /\ 4 \in Nat
  OBVIOUS
<1>m. /\ <<"url">> \notin a /\ <<"args">> \notin b /\ <<"http">> \notin c /\ <<"port">> \notin d
  BY <1>1, KeysApart, Zenon
<1>4. IsFiniteSet(b) /\ Cardinality(b) = 2
  BY <1>3, <1>n, <1>m, OneMore, Zenon
<1>5. IsFiniteSet(c) /\ Cardinality(c) = 3
  BY <1>4, <1>n, <1>m, OneMore, Zenon
<1>6. IsFiniteSet(d) /\ Cardinality(d) = 4
  BY <1>5, <1>n, <1>m, OneMore, Zenon
<1>7. IsFiniteSet(e) /\ Cardinality(e) = 5
  BY <1>6, <1>n, <1>m, OneMore, Zenon
<1>8. e = BaseKeys
  BY Zenon DEF BaseKeys, LineKeys
<1>9. ASSUME NEW x PROVE <<Upper(x)>> \notin BaseKeys \cup {<<"body">>}
  BY UpperApart, SameText, Zenon DEF BaseKeys, LineKeys
<1>10. <<"body">> \notin BaseKeys /\ <<"disposition">> \notin BaseKeys
  BY DEF BaseKeys, LineKeys
<1> QED
  BY <1>7, <1>8, <1>9, <1>10

(* The key of a field, and the map behind k fields. *)
Named(m, j) == <<Upper(FieldsOf(m)[j].name)>>
Names(m, k) == {Named(m, j) : j \in 1..k}
Holds(m, k, line, map) ==
    /\ DOMAIN map = BaseKeys \cup Names(m, k)
    /\ \A j \in 1..k : map[Named(m, j)] = FieldsOf(m)[j].value
    /\ \A key \in BaseKeys : map[key] = line[key]
LEMMA NamesNext ==
    ASSUME NEW m, NEW k \in Nat
    PROVE  Names(m, k + 1) = Names(m, k) \cup {Named(m, k + 1)}
<1>1. \A j : j \in 1..(k + 1) <=> j \in 1..k \/ j = k + 1
  OBVIOUS
<1> QED
  BY <1>1, Zenon DEF Names

LEMMA NamesApart ==
    ASSUME NEW m \in Messages, Lists(m), NEW j \in 1..Count(m), NEW k \in 1..Count(m), j # k
    PROVE  Named(m, j) # Named(m, k)
<1>1. j \in DOMAIN FieldsOf(m) /\ k \in DOMAIN FieldsOf(m)
  BY CountSo, Zenon
<1>2. Upper(FieldsOf(m)[j].name) # Upper(FieldsOf(m)[k].name)
  BY <1>1, Zenon DEF Lists
<1> QED
  BY <1>2, SameText, Zenon DEF Named

LEMMA HoldsFirst ==
    ASSUME NEW m, NEW line, DOMAIN line = BaseKeys
    PROVE  Holds(m, 0, line, line)
<1>1. Names(m, 0) = {}
  BY DEF Names
<1> QED
  BY <1>1 DEF Holds

LEMMA HoldsNext ==
    ASSUME NEW m \in Messages, Lists(m), NEW k \in Nat, k < Count(m), NEW line, NEW map,
           Holds(m, k, line, map)
    PROVE  Holds(m, k + 1, line, Put(map, Named(m, k + 1), FieldsOf(m)[k + 1].value))
<1> DEFINE key == Named(m, k + 1)
           v == FieldsOf(m)[k + 1].value
           q == Put(map, key, v)
<1>1. IsPut(q, map, key, v)
  BY PutSo, Zenon
<1>2. key \notin BaseKeys
  BY BaseSo, Zenon DEF Named
<1>3. Count(m) \in Nat
  BY CountSo
<1>4. \A j \in 1..k : j # k + 1 /\ j \in 1..Count(m) /\ k + 1 \in 1..Count(m)
  BY <1>3
<1>5. \A j \in 1..k : Named(m, j) # key
  BY <1>4, NamesApart, Zenon
<1>6. Names(m, k + 1) = Names(m, k) \cup {key}
  BY NamesNext
<1>9. \A j : j \in 1..(k + 1) <=> j \in 1..k \/ j = k + 1
  OBVIOUS
<1> HIDE DEF key, v, q
<1>7. /\ DOMAIN q = DOMAIN map \cup {key} /\ q[key] = v
      /\ \A i \in DOMAIN map : i # key => q[i] = map[i]
  BY <1>1, Zenon DEF IsPut
<1>8. /\ DOMAIN map = BaseKeys \cup Names(m, k)
      /\ \A j \in 1..k : map[Named(m, j)] = FieldsOf(m)[j].value
      /\ \A i \in BaseKeys : map[i] = line[i]
  BY Zenon DEF Holds
<1>10. DOMAIN q = BaseKeys \cup Names(m, k + 1)
  BY <1>6, <1>7, <1>8
<1>11. \A i \in BaseKeys : q[i] = line[i]
  BY <1>2, <1>7, <1>8, Zenon
<1>12. \A j \in 1..k : Named(m, j) \in DOMAIN map
  BY <1>8, Zenon DEF Names
<1>13. \A j \in 1..k : q[Named(m, j)] = FieldsOf(m)[j].value
  BY <1>5, <1>7, <1>8, <1>12, Zenon
<1>14. \A j \in 1..(k + 1) : q[Named(m, j)] = FieldsOf(m)[j].value
  BY <1>7, <1>9, <1>13, Zenon DEF key, v
<1>15. Holds(m, k + 1, line, q)
  BY <1>10, <1>11, <1>14, Zenon DEF Holds
<1> QED
  BY <1>15, Zenon DEF q, v, key

(* No two fields have one entry. *)
LEMMA NamesCounted ==
    ASSUME NEW m \in Messages, Lists(m)
    PROVE  \A k \in Nat : k <= Count(m) =>
               IsFiniteSet(BaseKeys \cup Names(m, k)) /\ Cardinality(BaseKeys \cup Names(m, k)) = 5 + k
<1> DEFINE D(k) == BaseKeys \cup Names(m, k)
           T == {k \in Nat : k <= Count(m) => IsFiniteSet(D(k)) /\ Cardinality(D(k)) = 5 + k}
<1>1. 0 \in T
  <2>1. D(0) = BaseKeys
    BY DEF Names
  <2> QED
    BY <2>1, BaseSo
<1>2. ASSUME NEW k \in Nat, k \in T PROVE k + 1 \in T
  <2> SUFFICES ASSUME k + 1 <= Count(m)
               PROVE  IsFiniteSet(D(k + 1)) /\ Cardinality(D(k + 1)) = 5 + (k + 1)
    OBVIOUS
  <2> DEFINE key == Named(m, k + 1)
  <2>1. Count(m) \in Nat
    BY CountSo
  <2>2. IsFiniteSet(D(k)) /\ Cardinality(D(k)) = 5 + k
    BY <1>2, <2>1
  <2>3. \A j \in 1..k : j # k + 1 /\ j \in 1..Count(m) /\ k + 1 \in 1..Count(m)
    BY <2>1
  <2>4. \A j \in 1..k : Named(m, j) # key
    BY <2>3, NamesApart, Zenon
  <2>5. key \notin BaseKeys
    BY BaseSo, Zenon DEF Named
  <2>6. key \notin D(k)
    BY <2>4, <2>5, Zenon DEF Names
  <2>7. D(k + 1) = D(k) \cup {key}
    BY NamesNext
  <2> HIDE DEF key, D
  <2>8. IsFiniteSet(D(k) \cup {key}) /\ Cardinality(D(k) \cup {key}) = 5 + k + 1
    BY <2>2, <2>6, FS_AddElement
  <2>9. 5 + k + 1 = 5 + (k + 1)
    OBVIOUS
  <2> QED
    BY <2>7, <2>8, <2>9, Zenon
<1> HIDE DEF T
<1>3. \A k \in Nat : k \in T
  BY <1>1, <1>2, Induction
<1> QED
  BY <1>3 DEF T

-----------------------------------------------------------------------------
(* The boundary *)
TypeOfForm == <<"multipart", "boundary=", "boundary">>
LEMMA TypeSplit ==
    After(TypeOfForm, "boundary=") = <<"boundary">> /\ After(<<>>, "boundary=") = <<>>
<1> DEFINE a == <<"multipart">>
           b == <<"boundary=">>
           c == <<"boundary">>
<1>1. TypeOfForm = a \o (b \o c)
  BY DEF TypeOfForm
<1>2. "boundary=" \in STRING /\ a \in Seq(STRING) /\ c \in Seq(STRING) /\ <<>> \in Seq(STRING)
  <2>1. <<>> \in Seq(STRING)
    OBVIOUS
  <2> QED
    BY <2>1, WordsTyped, Typed1, Zenon
<1>3. Lacks(a, "boundary=")
  <2>1. "multipart" # "boundary="
    OBVIOUS
  <2> QED
    BY <2>1, Lacks1, Zenon
<1>4. Splits(a \o (b \o c), "boundary=", a, c)
  BY <1>2, <1>3, SplitAt, Zenon
<1>5. Lacks(<<>>, "boundary=")
  BY LacksNone, Zenon
<1>6. After(<<>>, "boundary=") = <<>>
  BY <1>2, <1>5, SplitNone, Zenon
<1> QED
  BY <1>1, <1>4, <1>6, Zenon DEF Splits

(* It is known two fields behind the Content-Type. *)
Typed(m, k) == \E j \in 1..k : FieldsOf(m)[j] = Multipart
Bounded(m, k, bound) ==
    /\ Typed(m, k - 1) => bound = <<"boundary">>
    /\ ~Typed(m, k - 1) => bound = <<>>
LEMMA OtherType ==
    ASSUME NEW m \in Messages, Framed(m), Lists(m), NEW j \in 1..Count(m),
           FieldsOf(m)[j] # Multipart, Named(m, j) = <<"CONTENT-TYPE">>
    PROVE  After(FieldsOf(m)[j].value, "boundary=") = <<>>
<1> DEFINE f == FieldsOf(m)[j]
<1>1. Upper(f.name) = "CONTENT-TYPE"
  BY SameText, Zenon DEF Named
<1>2. j \in DOMAIN FieldsOf(m)
  BY CountSo, Zenon
<1>3. f # Sized(Content(m))
  <2>1. Sized(Content(m)).name = "Content-Length"
    BY DEF Sized, Plain
  <2>2. "CONTENT-LENGTH" # "CONTENT-TYPE"
    OBVIOUS
  <2> QED
    BY <1>1, <2>1, <2>2, UpperSo, Zenon
<1>4. f # Chunking
  <2>1. Chunking.name = "Transfer-Encoding"
    BY DEF Chunking, Plain
  <2>2. "TRANSFER-ENCODING" # "CONTENT-TYPE"
    OBVIOUS
  <2> QED
    BY <1>1, <2>1, <2>2, UpperSo, Zenon
<1>5. PICK i \in DOMAIN m.fields : f = m.fields[i]
  <2>1. f \notin {Multipart, Sized(Content(m)), Chunking}
    BY <1>3, <1>4
  <2> QED
    BY <1>2, <2>1, EachField, Zenon
<1>6. f.value \in Seq(STRING)
  <2>1. f \in Field
    BY <1>2, EachFine, Zenon DEF Fine
  <2> QED
    BY <2>1, Zenon DEF Field
<1>7. \A p \in DOMAIN f.value : f.value[p] # "boundary="
  BY <1>1, <1>5, Zenon DEF Lists
<1>8. Lacks(f.value, "boundary=")
  <2>1. DOMAIN f.value = 1..Len(f.value)
    BY <1>6, NotEmpty, Zenon
  <2> QED
    BY <1>7, <2>1, Zenon DEF Lacks
<1> QED
  BY <1>6, <1>8, SplitNone, Zenon

LEMMA BoundNext ==
    ASSUME NEW m \in Messages, Framed(m), Lists(m), NEW k \in Nat, k <= Count(m), NEW line, NEW map,
           Holds(m, k, line, map), NEW bound, Bounded(m, k, bound)
    PROVE  Bounded(m, k + 1, BoundIn(map, bound))
<1> DEFINE type == <<"CONTENT-TYPE">>
           found == After(Value(map, type), "boundary=")
<1>1. Count(m) \in Nat /\ k + 1 - 1 = k /\ (\A j \in 1..k : j \in 1..Count(m))
      /\ (\A j \in 1..(k - 1) : j \in 1..k)
  BY CountSo
<1>2. /\ DOMAIN map = BaseKeys \cup Names(m, k)
      /\ \A j \in 1..k : map[Named(m, j)] = FieldsOf(m)[j].value
  BY Zenon DEF Holds
<1>3. /\ bound = <<>> => BoundIn(map, bound) = found
      /\ bound # <<>> => BoundIn(map, bound) = bound
  BY Zenon DEF BoundIn
<1>4. <<"boundary">> # <<>>
  OBVIOUS
<1>5. ASSUME NEW j \in 1..k, FieldsOf(m)[j] = Multipart PROVE found = <<"boundary">>
  <2>1. Multipart.name = "Content-Type" /\ Multipart.value = TypeOfForm
    BY DEF Multipart, Plain, TypeOfForm
  <2>2. Named(m, j) = type
    BY <1>5, <2>1, UpperSo, Zenon DEF Named
  <2>3. type \in DOMAIN map /\ map[type] = TypeOfForm
    BY <1>2, <1>5, <2>1, <2>2, Zenon DEF Names
  <2> QED
    BY <2>3, TypeSplit, Zenon DEF Value
<1>6. ASSUME \A j \in 1..k : FieldsOf(m)[j] # Multipart PROVE found = <<>>
  <2>1. CASE type \in DOMAIN map
    <3>1. type \notin BaseKeys
      BY BaseSo, UpperSo, Zenon
    <3>2. PICK j \in 1..k : type = Named(m, j)
      BY <1>2, <2>1, <3>1, Zenon DEF Names
    <3>3. found = After(FieldsOf(m)[j].value, "boundary=")
      BY <1>2, <2>1, <3>2, Zenon DEF Value
    <3> QED
      BY <1>1, <1>6, <3>2, <3>3, OtherType, Zenon
  <2>2. CASE type \notin DOMAIN map
    BY <2>2, TypeSplit, Zenon DEF Value
  <2> QED
    BY <2>1, <2>2, Zenon
<1>7. Typed(m, k - 1) => Typed(m, k)
  BY <1>1, Zenon DEF Typed
<1>8. CASE Typed(m, k - 1)
  <2>1. bound = <<"boundary">>
    BY <1>8, Zenon DEF Bounded
  <2>2. BoundIn(map, bound) = <<"boundary">>
    BY <1>3, <1>4, <2>1, Zenon
  <2>3. Typed(m, k + 1 - 1)
    BY <1>1, <1>7, <1>8, Zenon
  <2> DEFINE h == k + 1
  <2>4. Typed(m, h - 1)
    BY <2>3
  <2> HIDE DEF h
  <2>5. Bounded(m, h, BoundIn(map, bound))
    BY <2>2, <2>4 DEF Bounded
  <2> QED
    BY <2>5 DEF h
<1>9. CASE ~Typed(m, k - 1)
  <2>1. bound = <<>>
    BY <1>9, Zenon DEF Bounded
  <2>2. BoundIn(map, bound) = found
    BY <1>3, <2>1, Zenon
  <2>3. Typed(m, k) => found = <<"boundary">>
    BY <1>5, Zenon DEF Typed
  <2>4. ~Typed(m, k) => found = <<>>
    BY <1>6, Zenon DEF Typed
  <2>5. Typed(m, k + 1 - 1) <=> Typed(m, k)
    BY <1>1, Zenon
  <2> DEFINE h == k + 1
  <2>6. Typed(m, h - 1) <=> Typed(m, k)
    BY <2>5
  <2> HIDE DEF h
  <2>7. Bounded(m, h, BoundIn(map, bound))
    BY <2>2, <2>3, <2>4, <2>6 DEF Bounded
  <2> QED
    BY <2>7 DEF h
<1> QED
  BY <1>8, <1>9, Zenon

(* The loop behind the first k fields. *)
Reading(m, k, line, at) ==
    \E map : \E bound :
        /\ at = Stage(Left(m, k), map, bound, FALSE, 0)
        /\ Holds(m, k, line, map) /\ Bounded(m, k, bound)
LEMMA ReadingNext ==
    ASSUME NEW m \in Messages, Framed(m), Lists(m), NEW k \in Nat, k < Count(m), NEW line, NEW at,
           Reading(m, k, line, at)
    PROVE  Reading(m, k + 1, line, Fields(at))
<1> DEFINE f == FieldsOf(m)[k + 1]
           x == Left(m, k + 1)
           t == FieldText(f.name, f.before, f.value, x)
<1>1. PICK map, bound : /\ at = Stage(Left(m, k), map, bound, FALSE, 0)
                        /\ Holds(m, k, line, map) /\ Bounded(m, k, bound)
  BY Zenon DEF Reading
<1>2. Count(m) \in Nat /\ k + 1 \in DOMAIN FieldsOf(m) /\ k + 1 <= Count(m) /\ k <= Count(m) /\ k + 1 \in Nat
  BY CountSo
<1>3. Fine(f)
  BY <1>2, EachFine, Zenon
<1>4. Ended(m, k + 1)
  BY <1>2, AllEnded, Zenon
<1>5. LeftAs(m, k, f)
  BY <1>4, LeftNext, Zenon
<1>6. Holds(m, k + 1, line, Put(map, Named(m, k + 1), f.value))
  BY <1>1, HoldsNext, Zenon
<1>7. Bounded(m, k + 1, BoundIn(map, bound))
  BY <1>1, <1>2, BoundNext, Zenon
<1>8. Named(m, k + 1) = <<Upper(f.name)>>
  BY Zenon DEF Named
<1> HIDE DEF f
<1>9. x \in Seq(STRING) /\ Left(m, k) = t
  BY <1>4, <1>5, Zenon DEF Ended, LeftAs
<1>10. f \in Field /\ f.name # "CR" /\ Apart(f.name, f.before, f.value)
  BY <1>3, Zenon DEF Fine
<1>11. f.name \in STRING /\ f.before \in Seq(STRING) /\ f.value \in Seq(STRING)
  BY <1>10, Zenon DEF Field
<1> HIDE DEF x
<1>12. t \in Seq(STRING)
  BY <1>9, <1>10, FieldTextTyped, Zenon
<1>13. Starts(t, f.name)
  <2>1. Starts(<<f.name>>, f.name)
    BY DEF Starts
  <2> DEFINE y == <<":">> \o (f.before \o (f.value \o (CRLF \o x)))
  <2>2. y \in Seq(STRING) /\ <<f.name>> \in Seq(STRING)
    BY <1>9, <1>11, WordsTyped, EndsTyped, Typed1, JoinTyped, Zenon
  <2> HIDE DEF y
  <2>3. Starts(<<f.name>> \o y, f.name)
    BY <2>1, <2>2, StartsJoined, Zenon
  <2> QED
    BY <2>3, Zenon DEF FieldText, y
<1>14. ~AtBlank(t)
  BY <1>10, <1>12, <1>13, NotBlank, Zenon
<1> DEFINE next == Stage(x, Put(map, <<Upper(f.name)>>, f.value), BoundIn(map, bound), FALSE, 0)
<1>15. Fields(Stage(t, map, bound, FALSE, 0)) = ReadField(Stage(t, map, bound, FALSE, 0))
  <2> HIDE DEF t
  <2> QED
    BY <1>14, TurnField
<1>16. ReadField(Stage(t, map, bound, FALSE, 0)) = next
  <2>1. Takes(Stage(t, map, bound, FALSE, 0), next)
    BY <1>9, <1>10, <1>11, FieldTurn, Zenon
  <2> QED
    BY <2>1, Zenon DEF Takes
<1>17. Fields(at) = next
  BY <1>1, <1>9, <1>15, <1>16, Zenon
<1> QED
  BY <1>6, <1>7, <1>8, <1>17, Zenon DEF Reading, x

-----------------------------------------------------------------------------
(* Which fields there are *)

(* t is s and then so many more. *)
Longer(t, s, n) == Len(t) = Len(s) + n /\ \A j \in 1..Len(s) : t[j] = s[j]
Has(t, n, f) == t[n] = f
LEMMA Added ==
    ASSUME NEW S, NEW s \in Seq(S), NEW f \in S, NEW g \in S
    PROVE  /\ Longer(s \o <<>>, s, 0) /\ Longer(s \o <<f>>, s, 1) /\ Longer(s \o <<f, g>>, s, 2)
           /\ Has(s \o <<f>>, Len(s) + 1, f)
           /\ Has(s \o <<f, g>>, Len(s) + 1, f) /\ Has(s \o <<f, g>>, Len(s) + 2, g)
BY DEF Longer, Has

(* Which fields there are, in order. *)
Listed(m, p, f, g) ==
    /\ p \in Nat /\ DOMAIN m.fields = 1..p
    /\ \A j \in 1..p : FieldsOf(m)[j] = m.fields[j]
    /\ m.framing = "none" => Count(m) = p
    /\ m.framing = "length" => Count(m) = p + 1 /\ FieldsOf(m)[p + 1] = f
    /\ m.framing = "chunked" => Count(m) = p + 1 /\ FieldsOf(m)[p + 1] = Chunking
    /\ m.framing = "form" =>
           Count(m) = p + 2 /\ FieldsOf(m)[p + 1] = g /\ FieldsOf(m)[p + 2] = f
    /\ m.framing = "form, type last" =>
           Count(m) = p + 2 /\ FieldsOf(m)[p + 1] = f /\ FieldsOf(m)[p + 2] = g
LEMMA FieldsListed ==
    ASSUME NEW m \in Messages
    PROVE  Listed(m, Len(m.fields), Sized(Content(m)), Multipart)
<1> DEFINE f == Sized(Content(m))
           g == Multipart
           c == Chunking
           s == m.fields
           p == Len(s)
<1>1. s \in Seq(Field) /\ f \in Field /\ g \in Field
  BY MessageTyped, SizedTyped, MultipartTyped, Zenon
<1>2. c \in Field
  BY PlainTyped, WordsTyped, Typed1, Zenon DEF Chunking
<1>3. p \in Nat /\ DOMAIN s = 1..p
  BY <1>1, NotEmpty, Zenon
<1>4. m.framing \in {"none", "length", "chunked", "form", "form, type last"}
  BY MessageTyped DEF Framings
<1>5. /\ m.framing = "none" => FieldsOf(m) = s \o <<>>
      /\ m.framing = "length" => FieldsOf(m) = s \o <<f>>
      /\ m.framing = "chunked" => FieldsOf(m) = s \o <<c>>
      /\ m.framing = "form" => FieldsOf(m) = s \o <<g, f>>
      /\ m.framing = "form, type last" => FieldsOf(m) = s \o <<f, g>>
  BY FieldsOfSo, Zenon DEF Chunking
<1> HIDE DEF f, g, c
<1>6. CASE m.framing = "none"
  <2>1. FieldsOf(m) = s \o <<>> /\ m.framing \notin {"length", "chunked", "form", "form, type last"}
    BY <1>5, <1>6
  <2>2. Longer(s \o <<>>, s, 0)
    BY <1>1, Added, Zenon
  <2>3. Len(s \o <<>>) = p /\ \A j \in 1..p : (s \o <<>>)[j] = s[j]
    BY <1>3, <2>2 DEF Longer
  <2> QED
    BY <1>3, <1>6, <2>1, <2>3, Zenon DEF Listed, Count, f
<1>7. CASE m.framing = "length"
  <2>1. FieldsOf(m) = s \o <<f>> /\ m.framing \notin {"none", "chunked", "form", "form, type last"}
    BY <1>5, <1>7
  <2>2. Longer(s \o <<f>>, s, 1) /\ Has(s \o <<f>>, p + 1, f)
    BY <1>1, Added, Zenon
  <2>3. /\ Len(s \o <<f>>) = p + 1 /\ \A j \in 1..p : (s \o <<f>>)[j] = s[j]
        /\ (s \o <<f>>)[p + 1] = f
    BY <2>2, Zenon DEF Longer, Has
  <2> QED
    BY <1>3, <1>7, <2>1, <2>3, Zenon DEF Listed, Count, f
<1>8. CASE m.framing = "chunked"
  <2>1. FieldsOf(m) = s \o <<c>> /\ m.framing \notin {"none", "length", "form", "form, type last"}
    BY <1>5, <1>8
  <2>2. Longer(s \o <<c>>, s, 1) /\ Has(s \o <<c>>, p + 1, c)
    BY <1>1, <1>2, Added, Zenon
  <2>3. /\ Len(s \o <<c>>) = p + 1 /\ \A j \in 1..p : (s \o <<c>>)[j] = s[j]
        /\ (s \o <<c>>)[p + 1] = c
    BY <2>2, Zenon DEF Longer, Has
  <2> QED
    BY <1>3, <1>8, <2>1, <2>3, Zenon DEF Listed, Count, c
<1>9. CASE m.framing = "form"
  <2>1. FieldsOf(m) = s \o <<g, f>> /\ m.framing \notin {"none", "length", "chunked", "form, type last"}
    BY <1>5, <1>9
  <2>2. Longer(s \o <<g, f>>, s, 2) /\ Has(s \o <<g, f>>, p + 1, g) /\ Has(s \o <<g, f>>, p + 2, f)
    BY <1>1, Added, Zenon
  <2>3. /\ Len(s \o <<g, f>>) = p + 2 /\ \A j \in 1..p : (s \o <<g, f>>)[j] = s[j]
        /\ (s \o <<g, f>>)[p + 1] = g /\ (s \o <<g, f>>)[p + 2] = f
    BY <2>2, Zenon DEF Longer, Has
  <2> QED
    BY <1>3, <1>9, <2>1, <2>3, Zenon DEF Listed, Count, f, g
<1>10. CASE m.framing = "form, type last"
  <2>1. FieldsOf(m) = s \o <<f, g>> /\ m.framing \notin {"none", "length", "chunked", "form"}
    BY <1>5, <1>10
  <2>2. Longer(s \o <<f, g>>, s, 2) /\ Has(s \o <<f, g>>, p + 1, f) /\ Has(s \o <<f, g>>, p + 2, g)
    BY <1>1, Added, Zenon
  <2>3. /\ Len(s \o <<f, g>>) = p + 2 /\ \A j \in 1..p : (s \o <<f, g>>)[j] = s[j]
        /\ (s \o <<f, g>>)[p + 1] = f /\ (s \o <<f, g>>)[p + 2] = g
    BY <2>2, Zenon DEF Longer, Has
  <2> QED
    BY <1>3, <1>10, <2>1, <2>3, Zenon DEF Listed, Count, f, g
<1> QED
  BY <1>4, <1>6, <1>7, <1>8, <1>9, <1>10, Zenon

(* The names that are not there, and where the type is. *)
LEMMA OwnNames ==
    ASSUME NEW m \in Messages, Framed(m), Lists(m), NEW j \in DOMAIN m.fields
    PROVE  /\ Upper(m.fields[j].name) # "disposition"
           /\ Upper(m.fields[j].name) # "TRANSFER-ENCODING"
           /\ m.fields[j] # Multipart
<1> DEFINE f == m.fields[j]
<1>1. Upper(f.name) # "disposition"
  BY Zenon DEF Lists
<1>2. Upper(f.name) # "TRANSFER-ENCODING"
  <2>1. Quiet(f.name)
    BY FramedField, Zenon
  <2> QED
    BY <2>1 DEF Quiet
<1>3. f # Multipart
  <2> SUFFICES ASSUME f = Multipart PROVE FALSE
    OBVIOUS
  <2>1. Multipart.name = "Content-Type" /\ Multipart.value[2] = "boundary=" /\ 2 \in DOMAIN Multipart.value
    <3>1. Multipart.name = "Content-Type" /\ Multipart.value = TypeOfForm
      BY DEF Multipart, Plain, TypeOfForm
    <3>2. TypeOfForm[2] = "boundary=" /\ 2 \in DOMAIN TypeOfForm
      BY DEF TypeOfForm
    <3> QED
      BY <3>1, <3>2, Zenon
  <2>2. \A i \in DOMAIN f.value : f.value[i] # "boundary="
    BY <2>1, UpperSo, Zenon DEF Lists
  <2> QED
    BY <2>1, <2>2, Zenon
<1> QED
  BY <1>1, <1>2, <1>3

Free(m, key) == key \notin BaseKeys \cup Names(m, Count(m))
LEMMA NamesFree ==
    ASSUME NEW m \in Messages, Framed(m), Lists(m)
    PROVE  /\ Free(m, <<"body">>) /\ Free(m, <<"disposition">>)
           /\ m.framing # "chunked" => Free(m, <<"TRANSFER-ENCODING">>)
           /\ m.framing = "chunked" =>
                  /\ Chunking = FieldsOf(m)[Count(m)] /\ Count(m) \in 1..Count(m)
                  /\ Named(m, Count(m)) = <<"TRANSFER-ENCODING">>
<1> DEFINE p == Len(m.fields)
           n == Count(m)
<1>0. m.framing \in {"none", "length", "chunked", "form", "form, type last"}
  BY MessageTyped DEF Framings
<1>1. Listed(m, p, Sized(Content(m)), Multipart)
  BY FieldsListed
<1> DEFINE Other(x) == x = Sized(Content(m)) \/ x = Multipart \/ (m.framing = "chunked" /\ x = Chunking)
<1>2. p \in Nat /\ DOMAIN m.fields = 1..p /\ \A j \in 1..p : FieldsOf(m)[j] = m.fields[j]
  BY <1>1, Zenon DEF Listed
<1>3. ASSUME NEW j \in 1..n, j \notin 1..p PROVE Other(FieldsOf(m)[j])
  <2>1. CASE m.framing = "none"
    BY <1>1, <1>3, <2>1 DEF Listed
  <2>2. CASE m.framing = "length"
    <3>1. n = p + 1 /\ FieldsOf(m)[p + 1] = Sized(Content(m))
      BY <1>1, <2>2 DEF Listed
    <3>2. j = p + 1
      BY ONLY <1>2, <1>3, <3>1
    <3> QED
      BY <3>1, <3>2, Zenon
  <2>3. CASE m.framing = "chunked"
    <3>1. n = p + 1 /\ FieldsOf(m)[p + 1] = Chunking
      BY <1>1, <2>3 DEF Listed
    <3>2. j = p + 1
      BY ONLY <1>2, <1>3, <3>1
    <3> QED
      BY <2>3, <3>1, <3>2, Zenon
  <2>4. CASE m.framing \in {"form", "form, type last"}
    <3>1. /\ n = p + 2
          /\ FieldsOf(m)[p + 1] = Sized(Content(m)) \/ FieldsOf(m)[p + 1] = Multipart
          /\ FieldsOf(m)[p + 2] = Sized(Content(m)) \/ FieldsOf(m)[p + 2] = Multipart
      BY <1>1, <2>4 DEF Listed
    <3>2. j = p + 1 \/ j = p + 2
      BY ONLY <1>2, <1>3, <3>1
    <3> QED
      BY <3>1, <3>2, Zenon
  <2> QED
    BY <1>0, <2>1, <2>2, <2>3, <2>4
<1>4. /\ Upper(Sized(Content(m)).name) = "CONTENT-LENGTH" /\ Upper(Multipart.name) = "CONTENT-TYPE"
      /\ Upper(Chunking.name) = "TRANSFER-ENCODING"
  BY UpperSo DEF Sized, Multipart, Chunking, Plain
<1>5. /\ "CONTENT-LENGTH" # "disposition" /\ "CONTENT-TYPE" # "disposition"
      /\ "TRANSFER-ENCODING" # "disposition" /\ "CONTENT-LENGTH" # "TRANSFER-ENCODING"
      /\ "CONTENT-TYPE" # "TRANSFER-ENCODING"
  OBVIOUS
<1>6. ASSUME NEW j \in 1..n
      PROVE  /\ Upper(FieldsOf(m)[j].name) # "disposition"
             /\ m.framing # "chunked" => Upper(FieldsOf(m)[j].name) # "TRANSFER-ENCODING"
  <2>1. CASE j \in 1..p
    BY <1>2, <2>1, OwnNames, Zenon
  <2>2. CASE j \notin 1..p
    BY <1>3, <1>4, <1>5, <2>2, Zenon
  <2> QED
    BY <2>1, <2>2
<1>7. Free(m, <<"body">>)
  BY BaseSo, Zenon DEF Free, Names, Named
<1>8. Free(m, <<"disposition">>)
  BY <1>6, BaseSo, SameText, Zenon DEF Free, Names, Named
<1>9. ASSUME m.framing # "chunked" PROVE Free(m, <<"TRANSFER-ENCODING">>)
  <2>1. <<"TRANSFER-ENCODING">> \notin BaseKeys
    BY BaseSo, UpperSo, Zenon
  <2> QED
    BY <1>6, <1>9, <2>1, SameText, Zenon DEF Free, Names, Named
<1>10. ASSUME m.framing = "chunked"
       PROVE  /\ Chunking = FieldsOf(m)[n] /\ n \in 1..n
              /\ Named(m, n) = <<"TRANSFER-ENCODING">>
  <2>1. n = p + 1 /\ FieldsOf(m)[p + 1] = Chunking
    BY <1>1, <1>10, Zenon DEF Listed
  <2>2. n \in 1..n
    BY ONLY <1>2, <2>1
  <2> QED
    BY <1>4, <2>1, <2>2, Zenon DEF Named
<1> QED
  BY <1>7, <1>8, <1>9, <1>10, Zenon

LEMMA TypeFirst ==
    ASSUME NEW m \in Messages, Framed(m), Lists(m)
    PROVE  Typed(m, Count(m) - 1) <=> m.framing = "form"
<1> DEFINE p == Len(m.fields)
           n == Count(m)
<1>0. m.framing \in {"none", "length", "chunked", "form", "form, type last"}
  BY MessageTyped DEF Framings
<1>1. Listed(m, p, Sized(Content(m)), Multipart)
  BY FieldsListed
<1>2. p \in Nat /\ DOMAIN m.fields = 1..p /\ \A j \in 1..p : FieldsOf(m)[j] = m.fields[j]
  BY <1>1, Zenon DEF Listed
<1>3. \A j \in 1..p : FieldsOf(m)[j] # Multipart
  BY <1>2, OwnNames, Zenon
<1>4. CASE m.framing = "form"
  <2>1. n = p + 2 /\ FieldsOf(m)[p + 1] = Multipart
    BY <1>1, <1>4, Zenon DEF Listed
  <2>2. p + 1 \in 1..(n - 1)
    BY ONLY <1>2, <2>1
  <2> QED
    BY <1>4, <2>1, <2>2, Zenon DEF Typed
<1>5. CASE m.framing = "form, type last"
  <2>1. n = p + 2 /\ FieldsOf(m)[p + 1] = Sized(Content(m))
    BY <1>1, <1>5, Zenon DEF Listed
  <2>2. \A j \in 1..(n - 1) : j \in 1..p \/ j = p + 1
    BY ONLY <1>2, <2>1
  <2>3. Sized(Content(m)) # Multipart
    <3>1. "Content-Length" # "Content-Type"
      OBVIOUS
    <3>2. Sized(Content(m)).name = "Content-Length" /\ Multipart.name = "Content-Type"
      BY DEF Sized, Multipart, Plain
    <3> QED
      BY <3>1, <3>2, Zenon
  <2>4. "form, type last" # "form"
    OBVIOUS
  <2> QED
    BY <1>3, <1>5, <2>1, <2>2, <2>3, <2>4, Zenon DEF Typed
<1>6. CASE m.framing \in {"none", "length", "chunked"}
  <2>1. n = p \/ n = p + 1
    BY <1>1, <1>6, Zenon DEF Listed
  <2>2. \A j \in 1..(n - 1) : j \in 1..p
    BY ONLY <1>2, <2>1
  <2>3. m.framing # "form"
    BY <1>6
  <2> QED
    BY <1>3, <2>2, <2>3, Zenon DEF Typed
<1> QED
  BY <1>0, <1>4, <1>5, <1>6

-----------------------------------------------------------------------------
(* The body in chunks *)

(* What is left behind k chunks, and the data so far. *)
Pieces(m) == [k \in DOMAIN m.chunks |-> Chunk(m.chunks[k])]
Chunks(m) == Len(m.chunks)
ChunkTail(m, k) == FlattenSeq(SubSeq(Pieces(m), k + 1, Chunks(m))) \o (<<"0">> \o BlankLine)
DataTo(m, k) == FlattenSeq(SubSeq(m.chunks, 1, k))
IsChunk(t, data, y) == t = ChunkText(data, y)
LEMMA ChunkSaid ==
    ASSUME NEW data \in Seq(STRING), ToString(Len(data)) \in STRING, NEW y \in Seq(STRING)
    PROVE  IsChunk(Chunk(data) \o y, data, y)
<1> DEFINE p == <<ToString(Len(data))>>
           c == CRLF
<1>1. p \in Seq(STRING)
  BY Typed1, Zenon
<1>2. c \in Seq(STRING)
  BY EndsTyped
<1> HIDE DEF p, c
<1> DEFINE pc_ == p \o c
           pcd == pc_ \o data
           cy == c \o y
           dcy == data \o cy
<1>3. pc_ \in Seq(STRING)
  BY <1>1, <1>2, JoinTyped, Zenon
<1>4. pcd \in Seq(STRING)
  BY <1>3, JoinTyped, Zenon
<1>5. cy \in Seq(STRING)
  BY <1>2, JoinTyped, Zenon
<1>6. dcy \in Seq(STRING)
  BY <1>5, JoinTyped, Zenon
<1>7. Chunk(data) = pcd \o c
  BY Zenon DEF Chunk, p, c
<1>8. (pcd \o c) \o y = pcd \o cy
  <2> HIDE DEF pcd
  <2> QED
    BY ONLY <1>2, <1>4, y \in Seq(STRING) DEF cy
<1> HIDE DEF cy
<1>9. (pc_ \o data) \o cy = pc_ \o dcy
  <2> HIDE DEF pc_
  <2> QED
    BY ONLY <1>3, <1>5, data \in Seq(STRING) DEF dcy
<1> HIDE DEF dcy
<1>10. (p \o c) \o dcy = p \o (c \o dcy)
  BY ONLY <1>1, <1>2, <1>6, SMTT(30)
<1>11. Chunk(data) \o y = p \o (c \o dcy)
  BY <1>7, <1>8, <1>9, <1>10, Zenon DEF pcd, pc_
<1> QED
  BY <1>11, Zenon DEF IsChunk, ChunkText, dcy, cy, p, c

LEMMA LongerChunk ==
    ASSUME NEW data \in Seq(STRING), ToString(Len(data)) \in STRING, NEW y \in Seq(STRING)
    PROVE  ChunkText(data, y) \in Seq(STRING) /\ Len(ChunkText(data, y)) > Len(y)
<1> DEFINE y1 == CRLF \o y
           y2 == data \o y1
           y3 == CRLF \o y2
           x == <<ToString(Len(data))>>
           y4 == x \o y3
<1>1. x \in Seq(STRING) /\ CRLF \in Seq(STRING)
  BY EndsTyped, Typed1, Zenon
<1>2. y1 \in Seq(STRING) /\ y2 \in Seq(STRING) /\ y3 \in Seq(STRING) /\ y4 \in Seq(STRING)
  BY <1>1, JoinTyped, Zenon
<1>3. Len(CRLF) = 2
  BY DEF CRLF
<1>4. Len(y1) = Len(CRLF) + Len(y)
  BY <1>1, JoinedLen, Zenon
<1>5. Len(y2) = Len(data) + Len(y1)
  BY <1>2, JoinedLen, Zenon
<1>6. Len(y3) = Len(CRLF) + Len(y2)
  BY <1>1, <1>2, JoinedLen, Zenon
<1>7. Len(y4) = Len(x) + Len(y3)
  BY <1>1, <1>2, JoinedLen, Zenon
<1>8. ChunkText(data, y) = y4
  BY Zenon DEF ChunkText
<1>10. Len(y) \in Nat /\ Len(data) \in Nat /\ Len(x) \in Nat
  BY <1>1, LenProperties, Zenon
<1> HIDE DEF y1, y2, y3, y4, x
<1> DEFINE n0 == Len(y)
           n1 == Len(data)
           n2 == Len(x)
           n == Len(y4)
<1>11. n = n2 + (2 + (n1 + (2 + n0)))
  BY <1>3, <1>4, <1>5, <1>6, <1>7, Zenon
<1>12. n0 \in Nat /\ n1 \in Nat /\ n2 \in Nat
  BY <1>10
<1> HIDE DEF n, n0, n1, n2
<1>13. n > n0
  BY ONLY <1>11, <1>12
<1> QED
  BY <1>2, <1>8, <1>13, Zenon DEF n, n0

LEMMA ChunksTyped ==
    ASSUME NEW m \in Messages
    PROVE  /\ m.chunks \in Seq(Seq(STRING)) /\ Chunks(m) \in Nat /\ DOMAIN m.chunks = 1..Chunks(m)
           /\ Pieces(m) \in Seq(Seq(STRING)) /\ Len(Pieces(m)) = Chunks(m)
           /\ \A k \in 1..Chunks(m) :
                  /\ m.chunks[k] \in Seq(STRING) /\ Pieces(m)[k] = Chunk(m.chunks[k])
                  /\ Pieces(m)[k] \in Seq(STRING) /\ Len(m.chunks[k]) \in 0..MaxNumber
<1> DEFINE n == Chunks(m)
<1>1. m.chunks \in Seq(Seq(STRING))
  BY MessageTyped
<1>2. n \in Nat /\ DOMAIN m.chunks = 1..n
  BY <1>1, NotEmpty, Zenon DEF Chunks
<1>3. ASSUME NEW k \in 1..n
      PROVE  m.chunks[k] \in Seq(STRING) /\ Len(m.chunks[k]) \in 0..MaxNumber
             /\ Chunk(m.chunks[k]) \in Seq(STRING)
  <2>1. m.chunks[k] \in Seq(STRING)
    BY <1>1, <1>2
  <2>2. Len(m.chunks[k]) <= MaxNumber
    BY <1>2, SizesAssumption
  <2>3. MaxNumber \in Nat /\ Len(m.chunks[k]) \in Nat
    BY <2>1, MaxNumberTyped
  <2> QED
    BY <2>1, <2>2, <2>3, ChunkTyped
<1> HIDE DEF n
<1>4. Pieces(m) = [k \in 1..n |-> Chunk(m.chunks[k])]
  BY <1>2, Zenon DEF Pieces
<1>5. Pieces(m) \in Seq(Seq(STRING)) /\ Len(Pieces(m)) = n
      /\ \A k \in 1..n : Pieces(m)[k] = Chunk(m.chunks[k])
  BY <1>2, <1>3, <1>4
<1> QED
  BY <1>1, <1>2, <1>3, <1>5, Zenon DEF n

LEMMA ZeroSo == 0 \in 0..MaxNumber /\ ToString(0) = "0"
<1>1. 0 \in 0..MaxNumber
  BY MaxNumberTyped
<1>2. ToString(0) = "0"
  BY TextAssumption, Zenon
<1> QED
  BY <1>1, <1>2

LEMMA ChunkTailLast ==
    ASSUME NEW m \in Messages
    PROVE  ChunkTail(m, Chunks(m)) = ChunkText(<<>>, <<>>)
<1> DEFINE n == Chunks(m)
           z == <<"0">> \o BlankLine
<1>1. n \in Nat
  BY ChunksTyped
<1>2. SubSeq(Pieces(m), n + 1, n) = <<>>
  BY <1>1, SubSeqProperties
<1>3. z \in Seq(STRING)
  BY WordsTyped, EndsTyped, Typed1, JoinTyped, Zenon
<1> HIDE DEF z
<1>4. <<>> \o z = z
  BY ONLY <1>3, EmptyBefore
<1>5. CRLF \o <<>> = CRLF
  BY DEF CRLF
<1>6. <<>> \o CRLF = CRLF
  BY DEF CRLF
<1>7. Len(<<>>) = 0
  OBVIOUS
<1>8. ChunkText(<<>>, <<>>) = z
  BY <1>5, <1>6, <1>7, ZeroSo, Zenon DEF ChunkText, z, BlankLine
<1> QED
  BY <1>2, <1>4, <1>8, FlattenNone, Zenon DEF ChunkTail, z, n

LEMMA ChunkTailNext ==
    ASSUME NEW m \in Messages, NEW k \in Nat, k < Chunks(m)
    PROVE  /\ ChunkTail(m, k) \in Seq(STRING) /\ ChunkTail(m, k + 1) \in Seq(STRING)
           /\ IsChunk(ChunkTail(m, k), m.chunks[k + 1], ChunkTail(m, k + 1))
<1> DEFINE n == Chunks(m)
           z == <<"0">> \o BlankLine
           ss == SubSeq(Pieces(m), k + 2, n)
           x == Pieces(m)[k + 1]
           b == FlattenSeq(ss)
           d == m.chunks[k + 1]
<1>1. n \in Nat /\ Pieces(m) \in Seq(Seq(STRING)) /\ Len(Pieces(m)) = n
  BY ChunksTyped
<1>2. k + 1 \in 1..n /\ k + 1 + 1 = k + 2
  BY <1>1
<1>3. SubSeq(Pieces(m), k + 1, n) = <<x>> \o ss
  BY <1>1, SubSeqFirst
<1>4. /\ x \in Seq(STRING) /\ d \in Seq(STRING) /\ x = Chunk(d)
      /\ Len(d) \in 0..MaxNumber
  BY <1>2, ChunksTyped
<1>5. ss \in Seq(Seq(STRING))
  <2>1. k + 1 \in 0..n
    BY <1>1
  <2>2. SubSeq(Pieces(m), k + 1 + 1, n) \in Seq(Seq(STRING))
    BY <1>1, <2>1, Parts
  <2> QED
    BY <1>2, <2>2
<1>6. z \in Seq(STRING)
  BY WordsTyped, EndsTyped, Typed1, JoinTyped, Zenon
<1> HIDE DEF x, d, ss, z
<1>7. FlattenSeq(<<x>> \o ss) = x \o b
  <2>1. <<x>> \in Seq(Seq(STRING))
    BY <1>4, Typed1, Zenon
  <2>2. FlattenSeq(<<x>> \o ss) = FlattenSeq(<<x>>) \o FlattenSeq(ss)
    BY <1>5, <2>1, FlattenConcat
  <2>3. FlattenSeq(<<x>>) = x
    BY <1>4, FlattenOne
  <2> QED
    BY <2>2, <2>3, Zenon
<1>8. b \in Seq(STRING)
  BY <1>5, FlattenTyped, Zenon
<1>9. ChunkTail(m, k) = (x \o b) \o z
  BY <1>3, <1>7, Zenon DEF ChunkTail, z, n
<1>10. ChunkTail(m, k + 1) = b \o z
  BY <1>2, Zenon DEF ChunkTail, z, n, ss
<1> HIDE DEF b
<1>11. (x \o b) \o z = x \o (b \o z)
  <2>1. x \in Seq(STRING)
    BY <1>4
  <2> QED
    BY ONLY <2>1, <1>6, <1>8
<1>12. b \o z \in Seq(STRING)
  BY <1>6, <1>8, JoinTyped, Zenon
<1>13. x \o (b \o z) \in Seq(STRING)
  BY <1>4, <1>12, JoinTyped, Zenon
<1>14. ToString(Len(d)) \in STRING
  BY <1>4, NumeralSo, Zenon
<1>15. IsChunk(Chunk(d) \o (b \o z), d, b \o z)
  BY <1>4, <1>12, <1>14, ChunkSaid, Zenon
<1>16. ChunkTail(m, k) = Chunk(d) \o (b \o z)
  BY <1>4, <1>9, <1>11, Zenon
<1> QED
  BY <1>9, <1>10, <1>11, <1>12, <1>13, <1>15, <1>16, Zenon DEF d

(* As many turns as chunks, and one more. *)
LEMMA ChunksLong ==
    ASSUME NEW m \in Messages
    PROVE  Len(ChunkTail(m, 0)) \in Nat /\ Len(ChunkTail(m, 0)) > Chunks(m)
<1> DEFINE n == Chunks(m)
           T == {j \in Nat : j <= n => Len(ChunkTail(m, n - j)) \in Nat /\ Len(ChunkTail(m, n - j)) > j}
<1>1. n \in Nat
  BY ChunksTyped
<1>2. 0 \in T
  <2>1. n - 0 = n
    BY <1>1
  <2>2. ToString(Len(<<>>)) \in STRING /\ <<>> \in Seq(STRING) /\ Len(<<>>) = 0
    <3>1. Len(<<>>) = 0 /\ <<>> \in Seq(STRING)
      OBVIOUS
    <3> QED
      BY <3>1, ZeroSo, WordsTyped, Zenon
  <2>3. ChunkText(<<>>, <<>>) \in Seq(STRING) /\ Len(ChunkText(<<>>, <<>>)) > Len(<<>>)
    BY <2>2, LongerChunk, Zenon
  <2>4. Len(ChunkText(<<>>, <<>>)) \in Nat
    BY <2>3, LenProperties, Zenon
  <2>5. Len(ChunkTail(m, n)) \in Nat /\ Len(ChunkTail(m, n)) > 0
    BY <2>2, <2>3, <2>4, ChunkTailLast, Zenon
  <2> QED
    BY <2>1, <2>5
<1>3. ASSUME NEW j \in Nat, j \in T PROVE j + 1 \in T
  <2> SUFFICES ASSUME j + 1 <= n
               PROVE  Len(ChunkTail(m, n - (j + 1))) \in Nat /\ Len(ChunkTail(m, n - (j + 1))) > j + 1
    OBVIOUS
  <2> DEFINE k == n - (j + 1)
             y == ChunkTail(m, k + 1)
  <2>1. k \in Nat /\ k < n /\ k + 1 = n - j /\ j <= n /\ k + 1 \in 1..n
    BY ONLY <1>1, j \in Nat, j + 1 <= n
  <2>2. Len(y) \in Nat /\ Len(y) > j
    BY <1>3, <2>1
  <2> HIDE DEF k
  <2>3. /\ ChunkTail(m, k) \in Seq(STRING) /\ y \in Seq(STRING)
        /\ IsChunk(ChunkTail(m, k), m.chunks[k + 1], y)
    BY <2>1, ChunkTailNext, Zenon
  <2>4. m.chunks[k + 1] \in Seq(STRING) /\ Len(m.chunks[k + 1]) \in 0..MaxNumber
    BY <2>1, ChunksTyped, Zenon
  <2>5. ToString(Len(m.chunks[k + 1])) \in STRING
    BY <2>4, NumeralSo, Zenon
  <2>6. Len(ChunkTail(m, k)) > Len(y)
    BY <2>3, <2>4, <2>5, LongerChunk, Zenon DEF IsChunk
  <2>7. Len(ChunkTail(m, k)) \in Nat
    BY <2>3, LenProperties, Zenon
  <2> HIDE DEF y
  <2>8. Len(ChunkTail(m, k)) > j + 1
    BY ONLY <2>2, <2>6, <2>7, j \in Nat
  <2> QED
    BY <2>7, <2>8 DEF k
<1> HIDE DEF T
<1>4. \A j \in Nat : j \in T
  BY <1>2, <1>3, Induction
<1>5. n - n = 0 /\ n <= n
  BY <1>1
<1> QED
  BY <1>1, <1>4, <1>5 DEF T

LEMMA DataNext ==
    ASSUME NEW m \in Messages, NEW k \in Nat, k < Chunks(m)
    PROVE  DataTo(m, k + 1) = DataTo(m, k) \o m.chunks[k + 1]
<1> DEFINE s == m.chunks
           ss == SubSeq(s, 1, k)
<1>1. s \in Seq(Seq(STRING)) /\ Len(s) = Chunks(m) /\ Chunks(m) \in Nat
  BY ChunksTyped DEF Chunks
<1>2. ss \in Seq(Seq(STRING)) /\ s[k + 1] \in Seq(STRING)
  <2>1. k \in 0..Len(s) /\ k + 1 \in 1..Len(s)
    BY <1>1
  <2> QED
    BY <1>1, <2>1, Parts
<1>3. SubSeq(s, 1, k + 1) = Append(ss, s[k + 1])
  BY <1>1, SubSeqProperties
<1>4. FlattenSeq(Append(ss, s[k + 1])) = FlattenSeq(ss) \o s[k + 1]
  BY <1>2, FlattenAppend
<1> QED
  BY <1>3, <1>4, Zenon DEF DataTo

LEMMA DataEnds ==
    ASSUME NEW m \in Messages
    PROVE  DataTo(m, 0) = <<>> /\ DataTo(m, Chunks(m)) = Payload(m)
<1>1. SubSeq(m.chunks, 1, 0) = <<>>
  BY ChunksTyped, SubSeqProperties
<1>2. SubSeq(m.chunks, 1, Chunks(m)) = m.chunks
  BY ChunksTyped, SubSeqProperties DEF Chunks
<1> QED
  BY <1>1, <1>2, FlattenNone, Zenon DEF DataTo, Payload

(* A whole chunk, taken. *)
LEMMA ChunkTurn ==
    ASSUME NEW data \in Seq(STRING), Len(data) \in 0..MaxNumber, NEW y \in Seq(STRING), NEW before
    PROVE  Dechunk(Rest(ChunkText(data, y), before, 0)) = Rest(y, before \o data, 0)
<1> DEFINE x == ToString(Len(data))
           s == ChunkText(data, y)
<1>1. x \in STRING /\ x \in Numerals /\ ValueOf(x) = Len(data) /\ x # "CR"
  BY NumeralSo, Zenon
<1>2. ChunkParts(s, x, data, y)
  BY <1>1, ChunkSplit, Zenon DEF ChunkText
<1> HIDE DEF s, x
<1>3. Dechunk(Rest(s, before, 0)) = Rest(y, before \o data, 0)
  BY <1>1, <1>2, ChunkTaken
<1> QED
  BY <1>3 DEF s

Decoding(m, k, at) == at = Rest(ChunkTail(m, k), DataTo(m, k), 0)
LEMMA DecodingNext ==
    ASSUME NEW m \in Messages, NEW k \in Nat, k < Chunks(m), NEW at, Decoding(m, k, at)
    PROVE  Decoding(m, k + 1, Dechunk(at))
<1> DEFINE d == m.chunks[k + 1]
           y == ChunkTail(m, k + 1)
           b == DataTo(m, k)
<1>1. k + 1 \in 1..Chunks(m)
  BY ChunksTyped
<1>2. d \in Seq(STRING) /\ Len(d) \in 0..MaxNumber
  BY <1>1, ChunksTyped, Zenon
<1>3. y \in Seq(STRING) /\ ChunkTail(m, k) = ChunkText(d, y)
  BY ChunkTailNext, Zenon DEF IsChunk
<1>4. DataTo(m, k + 1) = b \o d
  BY DataNext
<1> HIDE DEF d, y, b
<1>5. Dechunk(Rest(ChunkText(d, y), b, 0)) = Rest(y, b \o d, 0)
  BY <1>2, <1>3, ChunkTurn
<1> QED
  BY <1>3, <1>4, <1>5, Zenon DEF Decoding, y, b

(* The body in chunks is decoded whole. *)
Decodable(m) == /\ Decoded(Chunked(m)).data = Payload(m) /\ Decoded(Chunked(m)).code = 0
                /\ Decoded(Chunked(m)).left = <<>>
LEMMA ChunkedDecoded ==
    ASSUME NEW m \in Messages
    PROVE  Decodable(m)
<1> DEFINE s == Chunked(m)
           n == Chunks(m)
           L == Len(s)
<1>1. s \in Seq(STRING) /\ n \in Nat /\ L \in Nat
  BY ChunkedTyped, ChunksTyped
<1>2. s = ChunkTail(m, 0)
  <2>1. SubSeq(Pieces(m), 0 + 1, n) = Pieces(m)
    BY ChunksTyped, SubSeqProperties
  <2> DEFINE a == FlattenSeq(Pieces(m))
             b == <<"0">>
             c == BlankLine
  <2>2. a \in Seq(STRING)
    BY ChunksTyped, FlattenTyped, Zenon
  <2>3. b \in Seq(STRING)
    BY WordsTyped, Typed1, Zenon
  <2>4. c \in Seq(STRING)
    BY EndsTyped
  <2>5. s = (a \o b) \o c
    BY Zenon DEF Chunked, Pieces
  <2> HIDE DEF a, b, c, s
  <2>6. (a \o b) \o c = a \o (b \o c)
    BY ONLY <2>2, <2>3, <2>4
  <2> QED
    BY <2>1, <2>5, <2>6, Zenon DEF ChunkTail, a, b, c, n
<1>3. L > n
  BY <1>2, ChunksLong, Zenon
<1>4. PICK h : Decodes(h, Rest(s, <<>>, 0), L) /\ Decoded(s) = h[L]
  BY <1>1, DecodedAlong, Zenon
<1> HIDE DEF s, n, L
<1>5. h[0] = Rest(s, <<>>, 0) /\ \A k \in 1..L : h[k] = Dechunk(h[k - 1])
  BY <1>4, Zenon DEF Decodes
<1> DEFINE T == {k \in Nat : k <= n => Decoding(m, k, h[k])}
           last == Rest(<<>>, Payload(m), 0)
<1>6. 0 \in T
  BY <1>2, <1>5, DataEnds, Zenon DEF Decoding
<1>7. ASSUME NEW k \in Nat, k \in T PROVE k + 1 \in T
  <2> SUFFICES ASSUME k + 1 <= n PROVE Decoding(m, k + 1, h[k + 1])
    OBVIOUS
  <2>1. k < n /\ k <= n /\ k + 1 \in 1..L /\ k + 1 - 1 = k
    BY <1>1, <1>3
  <2>2. Decoding(m, k, h[k])
    BY <1>7, <2>1
  <2>3. h[k + 1] = Dechunk(h[k])
    <3> DEFINE i == k + 1
    <3>1. i \in 1..L /\ i - 1 = k
      BY <2>1
    <3> HIDE DEF i
    <3>2. h[i] = Dechunk(h[k])
      BY <1>5, <3>1, Zenon
    <3> QED
      BY <3>2, Zenon DEF i
  <2>4. Decoding(m, k + 1, Dechunk(h[k]))
    BY <2>1, <2>2, DecodingNext, Zenon DEF n
  <2> QED
    BY <2>3, <2>4, Zenon
<1> HIDE DEF T
<1>8. \A k \in Nat : k \in T
  BY <1>6, <1>7, Induction
<1>9. Decoding(m, n, h[n])
  <2>1. n <= n
    BY <1>1
  <2> QED
    BY <1>1, <1>8, <2>1 DEF T
<1>10. h[n + 1] = last
  <2> DEFINE e == <<>>
             b == DataTo(m, n)
  <2>1. n + 1 \in 1..L /\ n + 1 - 1 = n
    BY <1>1, <1>3
  <2>2. h[n + 1] = Dechunk(h[n])
    <3> DEFINE i == n + 1
    <3>1. i \in 1..L /\ i - 1 = n
      BY ONLY <1>1, <2>1 DEF i
    <3> HIDE DEF i
    <3>2. h[i] = Dechunk(h[n])
      BY <1>5, <3>1, Zenon
    <3> QED
      BY <3>2, Zenon DEF i
  <2>3. h[n] = Rest(ChunkText(e, e), b, 0)
    BY <1>9, ChunkTailLast, Zenon DEF Decoding, n
  <2>4. e \in Seq(STRING) /\ Len(e) \in 0..MaxNumber
    <3>1. e \in Seq(STRING) /\ Len(e) = 0
      OBVIOUS
    <3> QED
      BY <3>1, ZeroSo, Zenon
  <2>5. b = Payload(m) /\ Payload(m) \in Seq(STRING)
    BY DataEnds, PayloadTyped, Zenon DEF n
  <2> HIDE DEF e, b
  <2>6. Dechunk(Rest(ChunkText(e, e), b, 0)) = Rest(e, b \o e, 0)
    BY <2>4, ChunkTurn
  <2>7. Payload(m) \o <<>> = Payload(m)
    BY <2>5
  <2> QED
    BY <2>2, <2>3, <2>5, <2>6, <2>7, Zenon DEF e
<1> DEFINE U == {j \in Nat : n + 1 + j <= L => h[n + 1 + j] = last}
<1>11. 0 \in U
  BY <1>1, <1>10
<1>12. ASSUME NEW j \in Nat, j \in U PROVE j + 1 \in U
  <2> SUFFICES ASSUME n + 1 + (j + 1) <= L PROVE h[n + 1 + (j + 1)] = last
    OBVIOUS
  <2> DEFINE k == n + 1 + (j + 1)
  <2>1. k \in 1..L /\ k - 1 = n + 1 + j /\ n + 1 + j <= L
    BY <1>1
  <2>2. h[k - 1] = last
    BY <1>12, <2>1
  <2> HIDE DEF k, last
  <2>3. h[k] = Dechunk(last)
    BY <1>5, <2>1, <2>2, Zenon
  <2>4. Dechunk(last) = last
    BY ChunksEnded DEF last
  <2> QED
    BY <2>3, <2>4 DEF k
<1> HIDE DEF U
<1>13. \A j \in Nat : j \in U
  BY <1>11, <1>12, Induction
<1>14. h[L] = last
  <2> DEFINE j == L - (n + 1)
  <2>1. j \in Nat /\ n + 1 + j = L /\ L <= L
    BY <1>1, <1>3
  <2> HIDE DEF j, last
  <2> QED
    BY <1>13, <2>1 DEF U
<1>15. last.data = Payload(m) /\ last.code = 0 /\ last.left = <<>>
  BY DEF Rest
<1> QED
  BY <1>4, <1>14, <1>15, Zenon DEF Decodable, s, L

-----------------------------------------------------------------------------
(* The loop of parseText *)

(* The loop comes to the blank line behind the fields. *)
LEMMA ReadingAll ==
    ASSUME NEW m \in Messages, Framed(m), Lists(m), NEW line, DOMAIN line = BaseKeys,
           NEW h, Parses(h, Stage(Left(m, 0), line, <<>>, FALSE, 0), Len(Left(m, 0)))
    PROVE  Reading(m, Count(m), line, h[Count(m)])
<1> DEFINE start == Stage(Left(m, 0), line, <<>>, FALSE, 0)
           L == Len(Left(m, 0))
           n == Count(m)
           T == {k \in Nat : k <= n => Reading(m, k, line, h[k])}
<1>1. n \in Nat /\ L \in Nat /\ L >= n + 2
  BY CountSo, LeftLong
<1>2. h[0] = start /\ \A k \in 1..L : h[k] = Fields(h[k - 1])
  BY Zenon DEF Parses
<1> HIDE DEF n, L
<1>3. 0 \in T
  <2> DEFINE z == 0 - 1
  <2>1. 1..z = {}
    OBVIOUS
  <2> HIDE DEF z
  <2>2. ~Typed(m, z)
    BY <2>1 DEF Typed
  <2>3. ~Typed(m, 0 - 1)
    BY <2>2 DEF z
  <2>4. Bounded(m, 0, <<>>)
    BY <2>3, Zenon DEF Bounded
  <2>5. Holds(m, 0, line, line)
    BY HoldsFirst, Zenon
  <2> QED
    BY <1>2, <2>4, <2>5, Zenon DEF Reading
<1>4. ASSUME NEW k \in Nat, k \in T PROVE k + 1 \in T
  <2> SUFFICES ASSUME k + 1 <= n PROVE Reading(m, k + 1, line, h[k + 1])
    OBVIOUS
  <2> DEFINE i == k + 1
  <2>1. k < n /\ k <= n /\ i \in 1..L /\ i - 1 = k
    BY <1>1
  <2>2. Reading(m, k, line, h[k])
    BY <1>4, <2>1
  <2>3. Reading(m, i, line, Fields(h[k]))
    BY <2>1, <2>2, ReadingNext, Zenon DEF n
  <2> HIDE DEF i
  <2>4. h[i] = Fields(h[k])
    BY <1>2, <2>1, Zenon
  <2> QED
    BY <2>3, <2>4, Zenon DEF i
<1> HIDE DEF T
<1>5. \A k \in Nat : k \in T
  BY <1>3, <1>4, Induction
<1>6. n <= n
  BY <1>1
<1>7. Reading(m, n, line, h[n])
  BY <1>1, <1>5, <1>6 DEF T
<1> QED
  BY <1>7, Zenon DEF n

-----------------------------------------------------------------------------
(* A map with the entry of the body, and that of a part of a form. *)
Extra == {<<"body">>, <<"disposition">>}
Around(map, q) ==
    /\ DOMAIN map \subseteq DOMAIN q /\ DOMAIN q \subseteq DOMAIN map \cup Extra
    /\ \A key \in DOMAIN map : q[key] = map[key]
    /\ \A key \in DOMAIN q : key \in DOMAIN map \/ q[key] \in Seq(STRING)
LEMMA AroundPut ==
    ASSUME NEW map, NEW q, Around(map, q), NEW key, key \in Extra, key \notin DOMAIN map,
           NEW v \in Seq(STRING)
    PROVE  Around(map, Put(q, key, v))
<1>1. IsPut(Put(q, key, v), q, key, v)
  BY PutSo, Zenon
<1> DEFINE r == Put(q, key, v)
<1> HIDE DEF r
<1>2. /\ DOMAIN r = DOMAIN q \cup {key} /\ r[key] = v
      /\ \A k \in DOMAIN q : k # key => r[k] = q[k]
  BY <1>1, Zenon DEF IsPut, r
<1>3. DOMAIN map \subseteq DOMAIN r /\ DOMAIN r \subseteq DOMAIN map \cup Extra
  BY <1>2, Zenon DEF Around
<1>4. \A k \in DOMAIN map : r[k] = map[k]
  BY <1>2, Zenon DEF Around
<1>5. ASSUME NEW k \in DOMAIN r PROVE k \in DOMAIN map \/ r[k] \in Seq(STRING)
  <2>1. CASE k = key
    BY <1>2, <2>1, Zenon
  <2>2. CASE k # key
    BY <1>2, <2>2, Zenon DEF Around
  <2> QED
    BY <2>1, <2>2, Zenon
<1> QED
  BY <1>3, <1>4, <1>5, Zenon DEF Around, r

Kept(m, line, q) ==
    \E map :
        /\ Holds(m, Count(m), line, map) /\ Around(map, q)
        /\ m.framing # "form, type last" => Value(q, <<"body">>) = Payload(m)
LEMMA FreeOf ==
    ASSUME NEW m, NEW line, NEW map, Holds(m, Count(m), line, map), NEW key, Free(m, key)
    PROVE  key \notin DOMAIN map
BY Zenon DEF Holds, Free

LEMMA KeptBody ==
    ASSUME NEW m \in Messages, Framed(m), Lists(m), NEW line, NEW map,
           Holds(m, Count(m), line, map), NEW q, Around(map, q), NEW body \in Seq(STRING),
           m.framing # "form, type last" => body = Payload(m)
    PROVE  Kept(m, line, Put(q, <<"body">>, body))
<1>1. <<"body">> \notin DOMAIN map
  BY NamesFree, FreeOf, Zenon
<1>2. <<"body">> \in Extra
  BY Zenon DEF Extra
<1>3. Around(map, Put(q, <<"body">>, body))
  BY <1>1, <1>2, AroundPut, Zenon
<1>4. Value(Put(q, <<"body">>, body), <<"body">>) = body
  <2>1. IsPut(Put(q, <<"body">>, body), q, <<"body">>, body)
    BY PutSo, Zenon
  <2> QED
    BY <2>1, Zenon DEF IsPut, Value
<1> QED
  BY <1>3, <1>4, Zenon DEF Kept

LEMMA AroundSelf ==
    ASSUME NEW map
    PROVE  Around(map, map)
BY Zenon DEF Around

LEMMA CodedSo ==
    ASSUME NEW m \in Messages, Framed(m), Lists(m), NEW line, NEW map,
           Holds(m, Count(m), line, map), NEW q, Around(map, q)
    PROVE  Coded(q) <=> m.framing = "chunked"
<1> DEFINE key == <<"TRANSFER-ENCODING">>
<1>1. CASE m.framing = "chunked"
  <2>1. /\ FieldsOf(m)[Count(m)] = Chunking /\ Count(m) \in 1..Count(m)
        /\ Named(m, Count(m)) = key
    BY <1>1, NamesFree, Zenon
  <2>2. map[key] = Chunking.value /\ key \in DOMAIN map
    BY <2>1, Zenon DEF Holds, Names
  <2>3. Chunking.value = <<"chunked">>
    BY DEF Chunking, Plain
  <2>4. q[key] = <<"chunked">> /\ key \in DOMAIN q
    BY <2>2, <2>3, Zenon DEF Around
  <2> QED
    BY <1>1, <2>4, Zenon DEF Coded, Value
<1>2. CASE m.framing # "chunked"
  <2>1. key \notin DOMAIN map
    BY <1>2, NamesFree, FreeOf, Zenon
  <2>2. "TRANSFER-ENCODING" # "body" /\ "TRANSFER-ENCODING" # "disposition"
    OBVIOUS
  <2>3. key \notin Extra
    BY <2>2, SameText, Zenon DEF Extra
  <2>4. key \notin DOMAIN q
    BY <2>1, <2>3, Zenon DEF Around
  <2>5. <<>> # <<"chunked">>
    OBVIOUS
  <2> QED
    BY <1>2, <2>4, <2>5, Zenon DEF Coded, Value
<1> QED
  BY <1>1, <1>2, Zenon

-----------------------------------------------------------------------------
(* The loop behind the body. *)
Over(m, line, at) == \E q, b, i : at = Stage(<<>>, q, b, i, 0) /\ Kept(m, line, q)
LEMMA OverNext ==
    ASSUME NEW m, NEW line, NEW at, Over(m, line, at)
    PROVE  Over(m, line, Fields(at))
<1>1. PICK q, b, i : at = Stage(<<>>, q, b, i, 0) /\ Kept(m, line, q)
  BY Zenon DEF Over
<1>2. Fields(at) = at
  BY <1>1, TurnEnded, Zenon
<1> QED
  BY <1>2, Zenon

(* The last turn, at a body. *)
Closes(y, map, bound, inside, failure) ==
    Fields(Stage(CRLF \o y, map, bound, inside, failure))
        = Stage(<<>>, TakeBody(y, map, bound).header, bound, inside, TakeBody(y, map, bound).code)
LEMMA BodyCloses ==
    ASSUME NEW y \in Seq(STRING), y # <<>>, NEW map, NEW bound, NEW inside, NEW failure,
           inside \/ bound = <<>>, TakeBody(y, map, bound).left = <<>>
    PROVE  Closes(y, map, bound, inside, failure)
<1>1. Fields(Stage(CRLF \o y, map, bound, inside, failure))
         = Stage(<<>>, TakeBody(y, map, bound).header, bound, inside, TakeBody(y, map, bound).code)
  BY TurnBody
<1> QED
  BY <1>1, Zenon DEF Closes

(* What is not behind a boundary is the body. *)
LEMMA OverBody ==
    ASSUME NEW m \in Messages, Framed(m), Lists(m), NEW line, NEW map,
           Holds(m, Count(m), line, map), NEW q, Around(map, q),
           NEW y \in Seq(STRING), y # <<>>, NEW b, NEW i, i \/ b = <<>>,
           NEW body \in Seq(STRING), m.framing # "form, type last" => body = Payload(m),
           TakeBody(y, q, b) = Bodied(q, body, 0)
    PROVE  Over(m, line, Fields(Stage(CRLF \o y, q, b, i, 0)))
<1> DEFINE put == Put(q, <<"body">>, body)
<1>1. Kept(m, line, put)
  BY KeptBody, Zenon
<1> HIDE DEF put
<1>2. TakeBody(y, q, b).header = put /\ TakeBody(y, q, b).code = 0 /\ TakeBody(y, q, b).left = <<>>
  <2>1. TakeBody(y, q, b) = TakenBody(q, body, 0, <<>>)
    BY Zenon DEF Bodied
  <2>2. /\ TakenBody(q, body, 0, <<>>).header = put /\ TakenBody(q, body, 0, <<>>).code = 0
        /\ TakenBody(q, body, 0, <<>>).left = <<>>
    BY DEF TakenBody, put
  <2> QED
    BY <2>1, <2>2, Zenon
<1>3. Fields(Stage(CRLF \o y, q, b, i, 0)) = Stage(<<>>, put, b, i, 0)
  <2>1. Fields(Stage(CRLF \o y, q, b, i, 0))
            = Stage(<<>>, TakeBody(y, q, b).header, b, i, TakeBody(y, q, b).code)
    <3>1. Closes(y, q, b, i, 0)
      BY ONLY y \in Seq(STRING), y # <<>>, i \/ b = <<>>, <1>2, BodyCloses, Zenon
    <3> QED
      BY <3>1, Zenon DEF Closes
  <2> QED
    BY <1>2, <2>1, Zenon
<1> QED
  BY <1>1, <1>3, Zenon DEF Over

LEMMA ChunkedSome ==
    ASSUME NEW m \in Messages
    PROVE  Chunked(m) # <<>>
<1> DEFINE a == FlattenSeq(Pieces(m))
           b == <<"0">>
           c == BlankLine
           p == a \o b
<1>1. a \in Seq(STRING) /\ c \in Seq(STRING)
  BY ChunksTyped, EndsTyped, FlattenTyped, Zenon
<1>2. b \in Seq(STRING)
  BY WordsTyped, Typed1, Zenon
<1>3. Chunked(m) = p \o c
  BY Zenon DEF Chunked, Pieces
<1>4. Len(c) = 4
  BY DEF BlankLine, CRLF
<1> HIDE DEF a, b, c
<1>5. p \in Seq(STRING) /\ p \o c \in Seq(STRING)
  BY <1>1, <1>2, JoinTyped, Zenon
<1> HIDE DEF p
<1>6. Len(p \o c) = Len(p) + Len(c) /\ Len(p) \in Nat
  BY <1>1, <1>5, JoinedLen, LenProperties, Zenon
<1>7. Len(p \o c) > 0
  BY ONLY <1>4, <1>6
<1> QED
  BY <1>3, <1>5, <1>7, NotEmpty, Zenon

(* The turn at the blank line, of a request that is not a form whose boundary
   is known. *)
LEMMA OverTurn ==
    ASSUME NEW m \in Messages, Framed(m), Lists(m), Carries(m), m.framing # "form", NEW line,
           NEW map, Holds(m, Count(m), line, map)
    PROVE  Over(m, line, Fields(Stage(CRLF \o Content(m), map, <<>>, FALSE, 0)))
<1> DEFINE y == Content(m)
<1>1. y \in Seq(STRING) /\ Around(map, map) /\ Payload(m) \in Seq(STRING)
  BY ContentTyped, AroundSelf, PayloadTyped, Zenon
<1>2. /\ m.framing = "none" => y = <<>> /\ Payload(m) = <<>>
      /\ m.framing = "length" => y = Payload(m)
      /\ m.framing = "chunked" => y = Chunked(m) /\ y # <<>>
  BY ContentSo, ChunkedSome, Zenon DEF Carries
<1>3. m.framing \in {"none", "length", "chunked", "form, type last"}
  BY MessageTyped DEF Framings
<1> HIDE DEF y
<1>4. CASE y = <<>>
  <2>1. Fields(Stage(CRLF \o <<>>, map, <<>>, FALSE, 0)) = Stage(<<>>, map, <<>>, FALSE, 0)
    BY TurnBare, Zenon
  <2>2. <<"body">> \notin DOMAIN map
    BY NamesFree, FreeOf, Zenon
  <2>3. m.framing # "form, type last" => Payload(m) = <<>>
    BY <1>2, <1>3, <1>4, Zenon
  <2>4. Kept(m, line, map)
    BY <1>1, <2>2, <2>3, Zenon DEF Kept, Value
  <2> QED
    BY <1>4, <2>1, <2>4, Zenon DEF Over, y
<1>5. CASE y # <<>> /\ m.framing = "chunked"
  <2>1. Coded(map)
    BY <1>1, <1>5, CodedSo, Zenon
  <2>2. TakeBody(y, map, <<>>) = TakenBody(map, Decoded(y).data, Decoded(y).code, Decoded(y).left)
    BY <2>1, TakeChunks, Zenon
  <2>3. Decodable(m)
    BY ChunkedDecoded, Zenon
  <2>4. TakeBody(y, map, <<>>) = Bodied(map, Payload(m), 0)
    BY <1>2, <1>5, <2>2, <2>3, Zenon DEF Decodable, Bodied
  <2> QED
    BY <1>1, <1>5, <2>4, OverBody, Zenon DEF y
<1>6. CASE y # <<>> /\ m.framing # "chunked"
  <2>1. ~Coded(map)
    BY <1>1, <1>6, CodedSo, Zenon
  <2>2. TakeBody(y, map, <<>>) = Bodied(map, y, 0)
    BY <2>1, TakeAll, Zenon
  <2>3. m.framing # "form, type last" => y = Payload(m)
    BY <1>2, <1>3, <1>6, Zenon
  <2> QED
    BY <1>1, <1>6, <2>2, <2>3, OverBody, Zenon DEF y
<1> QED
  BY <1>4, <1>5, <1>6, Zenon

-----------------------------------------------------------------------------
(* The part of a form: behind the first line, its field and its body. *)
PartEnd == <<"-", "-">> \o CRLF
PartBody(m) == Payload(m) \o Ruled(PartEnd)
PartFields(m) == FieldText("disposition", <<" ">>, <<"form-data">>, CRLF \o PartBody(m))
PartText(m) == <<"-", "-">> \o (<<"boundary">> \o (CRLF \o PartFields(m)))
LEMMA PartsTyped ==
    ASSUME NEW m \in Messages
    PROVE  /\ PartEnd \in Seq(STRING) /\ Ruled(PartEnd) \in Seq(STRING)
           /\ PartBody(m) \in Seq(STRING) /\ PartFields(m) \in Seq(STRING)
           /\ CRLF \o PartFields(m) \in Seq(STRING)
           /\ <<"boundary">> \o (CRLF \o PartFields(m)) \in Seq(STRING)
<1>1. <<"-", "-">> \in Seq(STRING) /\ <<"boundary">> \in Seq(STRING) /\ CRLF \in Seq(STRING)
      /\ <<"disposition">> \in Seq(STRING) /\ <<":">> \in Seq(STRING) /\ <<" ">> \in Seq(STRING)
      /\ <<"form-data">> \in Seq(STRING)
  BY WordsTyped, Typed1, Typed2, EndsTyped, Zenon
<1>2. PartEnd \in Seq(STRING)
  BY <1>1, JoinTyped, Zenon DEF PartEnd
<1>3. Ruled(PartEnd) \in Seq(STRING)
  BY <1>1, <1>2, JoinTyped, Zenon DEF Ruled
<1>4. PartBody(m) \in Seq(STRING)
  BY <1>3, PayloadTyped, JoinTyped, Zenon DEF PartBody
<1>5. PartFields(m) \in Seq(STRING)
  BY <1>1, <1>4, JoinTyped, Zenon DEF PartFields, FieldText
<1> QED
  BY <1>1, <1>2, <1>3, <1>4, <1>5, JoinTyped, Zenon

LEMMA PartSo ==
    ASSUME NEW m \in Messages
    PROVE  Part(m) = PartText(m)
<1> DEFINE d == <<"-", "-">>
           b == <<"boundary">>
           C == CRLF
           D == <<"-", "-", "boundary">>
           G == <<"disposition", ":", " ", "form-data">>
           B == BlankLine
           P == Payload(m)
           E == <<"-", "-", "boundary", "-", "-">>
           g1 == <<"disposition">>
           g2 == <<":">>
           g3 == <<" ">>
           g4 == <<"form-data">>
<1>1. /\ d \in Seq(STRING) /\ b \in Seq(STRING) /\ g1 \in Seq(STRING) /\ g2 \in Seq(STRING)
      /\ g3 \in Seq(STRING) /\ g4 \in Seq(STRING)
  BY WordsTyped, Typed1, Typed2, Zenon
<1>c. C \in Seq(STRING)
  BY EndsTyped
<1>b. B \in Seq(STRING)
  BY EndsTyped
<1>p. P \in Seq(STRING)
  BY PayloadTyped
<1>2. D = d \o b
  BY TwoAndOne, Zenon
<1>3. E = d \o (b \o d)
  <2>1. Fives(E, d, "boundary", d)
    BY WordsTyped, FiveOnes, Zenon
  <2> QED
    BY <2>1, Zenon DEF Fives
<1>4. G = g1 \o (g2 \o (g3 \o g4))
  <2>1. Fours(G, "disposition", ":", " ", "form-data")
    BY WordsTyped, FourOnes, Zenon
  <2> QED
    BY <2>1, Zenon DEF Fours
<1>5. B = C \o C
  BY Zenon DEF BlankLine
<1>6. Part(m) = ((((((D \o C) \o G) \o B) \o P) \o C) \o E) \o C
  BY Zenon DEF Part
<1>7. PartText(m) = d \o (b \o (C \o (g1 \o (g2 \o (g3 \o (g4 \o (C \o (C \o (P \o (C \o (d \o (b \o (d \o C)))))))))))))
  BY Zenon DEF PartText, PartFields, PartBody, PartEnd, Ruled, FieldText
<1> HIDE DEF d, b, C, D, G, B, P, E, g1, g2, g3, g4
<1> DEFINE gg == g3 \o g4
           ggg == g2 \o gg
           bd == b \o d
<1>g. gg \in Seq(STRING) /\ bd \in Seq(STRING)
  BY <1>1, JoinTyped, Zenon
<1>h. ggg \in Seq(STRING)
  BY <1>1, <1>g, JoinTyped, Zenon
<1>8. D \in Seq(STRING) /\ E \in Seq(STRING) /\ G \in Seq(STRING)
  BY <1>1, <1>2, <1>3, <1>4, <1>g, <1>h, JoinTyped, Zenon
<1> DEFINE u1 == D \o C
           u2 == u1 \o G
           u3 == u2 \o B
           u4 == u3 \o P
           u5 == u4 \o C
           v1 == E \o C
           v2 == C \o v1
           v3 == P \o v2
           v4 == B \o v3
           v5 == G \o v4
           v6 == C \o v5
<1>u1. u1 \in Seq(STRING)
  BY <1>8, <1>c, JoinTyped, Zenon
<1>u2. u2 \in Seq(STRING)
  BY <1>8, <1>u1, JoinTyped, Zenon
<1>u3. u3 \in Seq(STRING)
  BY <1>b, <1>u2, JoinTyped, Zenon
<1>u4. u4 \in Seq(STRING)
  BY <1>p, <1>u3, JoinTyped, Zenon
<1>u5. u5 \in Seq(STRING)
  BY <1>c, <1>u4, JoinTyped, Zenon
<1>v1. v1 \in Seq(STRING)
  BY <1>8, <1>c, JoinTyped, Zenon
<1>v2. v2 \in Seq(STRING)
  BY <1>v1, <1>c, JoinTyped, Zenon
<1>v3. v3 \in Seq(STRING)
  BY <1>v2, <1>p, JoinTyped, Zenon
<1>v4. v4 \in Seq(STRING)
  BY <1>v3, <1>b, JoinTyped, Zenon
<1>v5. v5 \in Seq(STRING)
  BY <1>v4, <1>8, JoinTyped, Zenon
<1>v6. v6 \in Seq(STRING)
  BY <1>v5, <1>c, JoinTyped, Zenon
<1>w0. (u5 \o E) \o C = u5 \o v1
  <2> HIDE DEF u5
  <2> QED
    BY ONLY <1>u5, <1>8, <1>c DEF v1
<1>w1. u5 \o v1 = u4 \o v2
  <2> HIDE DEF u4, v1
  <2> QED
    BY ONLY <1>u4, <1>c, <1>v1 DEF u5, v2
<1>w2. u4 \o v2 = u3 \o v3
  <2> HIDE DEF u3, v2
  <2> QED
    BY ONLY <1>u3, <1>p, <1>v2 DEF u4, v3
<1>w3. u3 \o v3 = u2 \o v4
  <2> HIDE DEF u2, v3
  <2> QED
    BY ONLY <1>u2, <1>b, <1>v3 DEF u3, v4
<1>w4. u2 \o v4 = u1 \o v5
  <2> HIDE DEF u1, v4
  <2> QED
    BY ONLY <1>u1, <1>8, <1>v4, SMTT(30) DEF u2, v5
<1>w5. u1 \o v5 = D \o v6
  <2> HIDE DEF v5
  <2> QED
    BY ONLY <1>8, <1>c, <1>v5 DEF u1, v6
<1>9. Part(m) = D \o v6
  BY <1>6, <1>w0, <1>w1, <1>w2, <1>w3, <1>w4, <1>w5, Zenon
<1>10. (d \o b) \o v6 = d \o (b \o v6)
  <2> HIDE DEF v6
  <2> QED
    BY ONLY <1>1, <1>v6, SMTT(30)
<1> DEFINE cv == C \o v3
<1>cv. cv \in Seq(STRING)
  BY <1>c, <1>v3, JoinTyped, Zenon
<1>11. v4 = C \o cv
  <2> HIDE DEF v3
  <2>1. (C \o C) \o v3 = C \o (C \o v3)
    BY ONLY <1>c, <1>v3
  <2> QED
    BY <1>5, <2>1, Zenon
<1>12. v5 = g1 \o (g2 \o (g3 \o (g4 \o v4)))
  <2> HIDE DEF v4
  <2>1. (g1 \o ggg) \o v4 = g1 \o (ggg \o v4)
    <3> HIDE DEF ggg
    <3> QED
      BY ONLY <1>1, <1>h, <1>v4, SMTT(30)
  <2>2. (g2 \o gg) \o v4 = g2 \o (gg \o v4)
    <3> HIDE DEF gg
    <3> QED
      BY ONLY <1>1, <1>g, <1>v4, SMTT(30)
  <2>3. (g3 \o g4) \o v4 = g3 \o (g4 \o v4)
    BY ONLY <1>1, <1>v4
  <2> QED
    BY <1>4, <2>1, <2>2, <2>3, Zenon DEF v5, ggg, gg
<1>13. v1 = d \o (b \o (d \o C))
  <2>1. (d \o bd) \o C = d \o (bd \o C)
    <3> HIDE DEF bd
    <3> QED
      BY ONLY <1>1, <1>g, <1>c, SMTT(30)
  <2>2. (b \o d) \o C = b \o (d \o C)
    BY ONLY <1>1, <1>c, SMTT(30)
  <2> QED
    BY <1>3, <2>1, <2>2, Zenon DEF v1, bd
<1> HIDE DEF v1, v4, v5
<1>14. Part(m) = d \o (b \o (C \o v5))
  BY <1>2, <1>9, <1>10, Zenon
<1> QED
  BY <1>7, <1>11, <1>12, <1>13, <1>14, Zenon

(* The boundary is seen, and the first line is gone through. *)
LEMMA PartRead ==
    ASSUME NEW m \in Messages
    PROVE  /\ Part(m) # <<>> /\ IsPrefix(<<"boundary">>, From(Part(m), 3))
           /\ After(Part(m), "LF") = PartFields(m)
<1> DEFINE d == <<"-", "-">>
           b == <<"boundary">>
           F == PartFields(m)
           v == CRLF \o F
           w == b \o v
<1>1. /\ d \in Seq(STRING) /\ b \in Seq(STRING) /\ "boundary" \in STRING /\ "LF" \in STRING
      /\ <<"CR">> \in Seq(STRING) /\ <<"LF">> \in Seq(STRING)
  BY WordsTyped, Typed1, Typed2, Zenon
<1>2. F \in Seq(STRING) /\ v \in Seq(STRING) /\ w \in Seq(STRING)
  BY PartsTyped, Zenon
<1>3. Part(m) = d \o w
  BY PartSo, Zenon DEF PartText
<1>4. Len(d) = 2 /\ 2 + 1 = 3
  OBVIOUS
<1>5. Lacks(<<"CR">>, "LF") /\ Lacks(d, "LF") /\ Lacks(b, "LF")
  BY DEF Lacks
<1>6. v = <<"CR">> \o (<<"LF">> \o F)
  <2> DEFINE p == <<"CR">>
             q == <<"LF">>
  <2>1. CRLF = p \o q
    BY TwoOnes DEF CRLF
  <2> HIDE DEF p, q, F
  <2>2. (p \o q) \o F = p \o (q \o F)
    BY ONLY <1>1, <1>2 DEF p, q
  <2> QED
    BY <2>1, <2>2, Zenon DEF p, q
<1>7. Part(m) \in Seq(STRING) /\ Part(m) # <<>>
  <2>1. Part(m) \in Seq(STRING)
    BY PartTyped, Zenon
  <2>2. Len(d \o w) = Len(d) + Len(w) /\ Len(w) \in Nat
    BY <1>1, <1>2, JoinedLen, LenProperties, Zenon
  <2> HIDE DEF d, w
  <2>3. Len(Part(m)) > 0
    BY <1>3, <1>4, <2>2
  <2> QED
    BY <2>1, <2>3, NotEmpty, Zenon
<1> HIDE DEF d, F
<1>8. From(Part(m), 3) = w
  <2> HIDE DEF w
  <2>1. From(d \o w, Len(d) + 1) = w
    BY <1>1, <1>2, Follows, Zenon
  <2>2. Len(d) + 1 = 3
    BY ONLY <1>4
  <2> QED
    BY <1>3, <2>1, <2>2, Zenon
<1>9. IsPrefix(b, w)
  <2> HIDE DEF v
  <2> QED
    BY <1>1, <1>2, PrefixOne, Zenon
<1>10. Leads(STRING, v, "LF", F)
  <2>1. Leads(STRING, <<"CR">> \o (<<"LF">> \o F), "LF", F)
    BY <1>1, <1>2, <1>5, LeadsNow, Zenon
  <2> QED
    BY <1>6, <2>1, Zenon
<1> HIDE DEF v
<1>11. Leads(STRING, w, "LF", F)
  BY <1>1, <1>2, <1>5, <1>10, LeadsPast, Zenon
<1> HIDE DEF w
<1>12. Leads(STRING, Part(m), "LF", F)
  <2>1. Leads(STRING, d \o w, "LF", F)
    BY <1>1, <1>2, <1>5, <1>11, LeadsPast, Zenon
  <2> QED
    BY <1>3, <2>1, Zenon
<1>13. After(Part(m), "LF") = F
  BY <1>1, <1>2, <1>12, LeadsTo
<1> QED
  BY <1>7, <1>8, <1>9, <1>13, Zenon DEF F

(* The two turns of a form: its field, and its body. *)
LEMMA OverForm ==
    ASSUME NEW m \in Messages, Framed(m), Lists(m), Carries(m), m.framing = "form", NEW line,
           NEW map, Holds(m, Count(m), line, map)
    PROVE  Over(m, line, Fields(Fields(Stage(CRLF \o Content(m), map, <<"boundary">>, FALSE, 0))))
<1> DEFINE y == Part(m)
           bound == <<"boundary">>
           key == <<"disposition">>
           v == <<"form-data">>
           q == Put(map, key, v)
           body == PartBody(m)
           x == CRLF \o body
           F == PartFields(m)
           z == Ruled(PartEnd)
           P == Payload(m)
<1>1. Content(m) = y /\ y \in Seq(STRING)
  BY ContentSo, PartTyped, Zenon
<1>2. y # <<>> /\ IsPrefix(bound, From(y, 3)) /\ After(y, "LF") = F /\ bound # <<>>
  <2>1. bound # <<>>
    OBVIOUS
  <2> QED
    BY <2>1, PartRead, Zenon
<1>3. body \in Seq(STRING) /\ x \in Seq(STRING) /\ P \in Seq(STRING) /\ PartEnd \in Seq(STRING)
  BY PartsTyped, PayloadTyped, EndsTyped, JoinTyped, Zenon
<1>4. F = FieldText("disposition", <<" ">>, v, x)
  BY Zenon DEF PartFields
<1> HIDE DEF y, F, x
<1>5. Fields(Stage(CRLF \o y, map, bound, FALSE, 0)) = ReadField(Stage(F, map, bound, TRUE, 0))
  <2> HIDE DEF bound
  <2>1. Fields(Stage(CRLF \o y, map, bound, FALSE, 0))
            = ReadField(Stage(After(y, "LF"), map, bound, TRUE, 0))
    BY <1>1, <1>2, TurnPart
  <2> QED
    BY <1>2, <2>1, Zenon
<1>6. Apart("disposition", <<" ">>, v)
  <2>1. "disposition" # ":" /\ "form-data" # "LF" /\ "form-data" # " "
    OBVIOUS
  <2>2. AllOf(<<" ">>, " ") /\ Lacks(v, "LF") /\ v[1] = "form-data"
    BY <2>1, AllOf1, Lacks1, Zenon
  <2> QED
    BY <2>1, <2>2, Zenon DEF Apart
<1>7. /\ "disposition" \in STRING /\ <<" ">> \in Seq(STRING) /\ v \in Seq(STRING)
  BY WordsTyped, Typed1, Zenon
<1>8. Upper("disposition") = "disposition"
  BY DEF Upper
<1> HIDE DEF v
<1>9. BoundIn(map, bound) = bound
  BY <1>2, Zenon DEF BoundIn
<1>10. ReadField(Stage(F, map, bound, TRUE, 0)) = Stage(x, q, bound, TRUE, 0)
  <2>1. Takes(Stage(FieldText("disposition", <<" ">>, v, x), map, bound, TRUE, 0),
              Stage(x, Put(map, <<Upper("disposition")>>, v), BoundIn(map, bound), TRUE, 0))
    BY <1>3, <1>6, <1>7, FieldTurn, Zenon
  <2> QED
    BY <1>4, <1>8, <1>9, <2>1, Zenon DEF Takes
<1>11. Around(map, q)
  <2>1. key \notin DOMAIN map
    BY NamesFree, FreeOf, Zenon
  <2>2. key \in Extra
    BY Zenon DEF Extra
  <2> QED
    BY <1>7, <2>1, <2>2, AroundSelf, AroundPut, Zenon
<1> HIDE DEF q
<1>12. ~Coded(q)
  <2>1. "form" # "chunked"
    OBVIOUS
  <2> QED
    BY <1>11, <2>1, CodedSo, Zenon
<1>13. P # <<>> /\ Lacks(P, "boundary")
  <2>1. P # <<>> /\ \A i \in DOMAIN P : P[i] # "boundary"
    BY Zenon DEF Carries
  <2>2. DOMAIN P = 1..Len(P)
    BY <1>3, NotEmpty, Zenon
  <2> QED
    BY <2>1, <2>2, Zenon DEF Lacks
<1>14. TakeBody(body, q, bound) = Bodied(q, P, 0)
  <2>1. body = P \o Ruled(PartEnd)
    BY Zenon DEF PartBody
  <2> HIDE DEF P, body
  <2>2. TakeBody(P \o Ruled(PartEnd), q, <<"boundary">>) = Bodied(q, P, 0)
    BY <1>3, <1>12, <1>13, TakePart
  <2> QED
    BY <2>1, <2>2, Zenon
<1>15. body # <<>>
  <2>1. Len(P \o z) = Len(P) + Len(z) /\ Len(z) \in Nat /\ Len(P) \in Nat /\ Len(P) > 0
    BY <1>3, <1>13, PartsTyped, JoinedLen, NotEmpty, Zenon
  <2>2. body = P \o z
    BY Zenon DEF PartBody
  <2> HIDE DEF P, z, body
  <2>3. Len(body) > 0
    BY <2>1, <2>2
  <2> QED
    BY <1>3, <2>3, NotEmpty, Zenon
<1> HIDE DEF body
<1>16. Over(m, line, Fields(Stage(CRLF \o body, q, bound, TRUE, 0)))
  BY <1>3, <1>11, <1>14, <1>15, OverBody, Zenon
<1> QED
  BY <1>1, <1>5, <1>10, <1>16, Zenon DEF x, bound

-----------------------------------------------------------------------------
(* All turns *)

LEMMA OverTwo ==
    ASSUME NEW m \in Messages, Framed(m), Lists(m), Carries(m), NEW line, NEW at,
           Reading(m, Count(m), line, at)
    PROVE  Over(m, line, Fields(Fields(at)))
<1>1. PICK map, bound : /\ at = Stage(Left(m, Count(m)), map, bound, FALSE, 0)
                        /\ Holds(m, Count(m), line, map) /\ Bounded(m, Count(m), bound)
  BY Zenon DEF Reading
<1>2. Left(m, Count(m)) = CRLF \o Content(m)
  BY LeftLast, Zenon
<1>3. Typed(m, Count(m) - 1) <=> m.framing = "form"
  BY TypeFirst, Zenon
<1>4. CASE m.framing = "form"
  <2>1. bound = <<"boundary">>
    BY <1>1, <1>3, <1>4, Zenon DEF Bounded
  <2> QED
    BY <1>1, <1>2, <1>4, <2>1, OverForm, Zenon
<1>5. CASE m.framing # "form"
  <2>1. bound = <<>>
    BY <1>1, <1>3, <1>5, Zenon DEF Bounded
  <2>2. Over(m, line, Fields(at))
    BY <1>1, <1>2, <1>5, <2>1, OverTurn, Zenon
  <2> QED
    BY <2>2, OverNext, Zenon
<1> QED
  BY <1>4, <1>5, Zenon

(* Fields and body are taken apart as they were put together. *)
Taking(m, line, out) == out.code = 0 /\ Kept(m, line, out.header)
LEMMA FieldsTaken ==
    ASSUME NEW m \in Messages, Framed(m), Lists(m), Carries(m), NEW line, DOMAIN line = BaseKeys
    PROVE  Taking(m, line, ParseFields(Left(m, 0), line))
<1> DEFINE s == Left(m, 0)
           start == Stage(s, line, <<>>, FALSE, 0)
           L == Len(s)
           n == Count(m)
           b == n + 2
<1>1. s \in Seq(STRING)
  BY BytesLine, Zenon
<1>2. n \in Nat /\ L \in Nat /\ L >= b
  BY CountSo, LeftLong
<1>3. PICK h : Parses(h, start, L) /\ ParseFields(s, line) = Outcome(h[L].map, h[L].code)
  BY <1>1, ParsedAlong, Zenon
<1>4. Reading(m, n, line, h[n])
  BY <1>3, ReadingAll, Zenon
<1>5. \A k \in 1..L : h[k] = Fields(h[k - 1])
  BY <1>3, Zenon DEF Parses
<1> HIDE DEF n, L, s, start
<1>6. Over(m, line, h[b])
  <2> DEFINE a == n + 1
  <2>1. a \in 1..L /\ b \in 1..L /\ a - 1 = n /\ b - 1 = a
    BY ONLY <1>2 DEF a
  <2>2. Over(m, line, Fields(Fields(h[n])))
    BY <1>4, OverTwo, Zenon DEF n
  <2> HIDE DEF a, b
  <2>3. h[a] = Fields(h[n]) /\ h[b] = Fields(h[a])
    BY <1>5, <2>1, Zenon
  <2> QED
    BY <2>2, <2>3, Zenon
<1>7. b \in Nat
  BY ONLY <1>2
<1> HIDE DEF b
<1> DEFINE T == {j \in Nat : b + j <= L => Over(m, line, h[b + j])}
<1>8. 0 \in T
  <2>1. b + 0 = b
    BY ONLY <1>7
  <2> QED
    BY <1>6, <2>1, Zenon
<1>9. ASSUME NEW j \in Nat, j \in T PROVE j + 1 \in T
  <2> SUFFICES ASSUME b + (j + 1) <= L PROVE Over(m, line, h[b + (j + 1)])
    OBVIOUS
  <2> DEFINE k == b + (j + 1)
             i == b + j
  <2>1. k \in 1..L /\ k - 1 = i /\ i <= L
    BY ONLY <1>2, <1>7, j \in Nat, b + (j + 1) <= L DEF k, i
  <2>2. Over(m, line, h[i])
    BY <1>9, <2>1, Zenon
  <2> HIDE DEF k, i
  <2>3. h[k] = Fields(h[i])
    BY <1>5, <2>1, Zenon
  <2>4. Over(m, line, h[k])
    BY <2>2, <2>3, OverNext, Zenon
  <2> QED
    BY <2>4, Zenon DEF k
<1> HIDE DEF T
<1>10. \A j \in Nat : j \in T
  BY <1>8, <1>9, Induction
<1>11. Over(m, line, h[L])
  <2> DEFINE j == L - b
  <2>1. j \in Nat /\ b + j = L /\ L <= L
    BY ONLY <1>2, <1>7 DEF j
  <2> HIDE DEF j
  <2> QED
    BY <1>10, <2>1, Zenon DEF T
<1>12. PICK q, d, i : h[L] = Stage(<<>>, q, d, i, 0) /\ Kept(m, line, q)
  BY <1>11, Zenon DEF Over
<1>13. h[L].map = q /\ h[L].code = 0
  BY <1>12 DEF Stage
<1>14. Outcome(q, 0).header = q /\ Outcome(q, 0).code = 0
  BY DEF Outcome
<1> QED
  BY <1>3, <1>12, <1>13, <1>14, Zenon DEF Taking, s

-----------------------------------------------------------------------------
(* The line *)

(* The words of the line, and what the line may be taken apart for. *)
Plainly(m) ==
    /\ m.method \notin {" ", "LF"} /\ m.version \notin {" ", "CR", "LF"}
    /\ Lacks(Target(m), " ") /\ Lacks(Target(m), "LF") /\ Target(m) \in Seq(STRING)
LEMMA LineWords ==
    ASSUME NEW m \in Messages, Framed(m), Opens(m)
    PROVE  Plainly(m)
<1> DEFINE l == Line(m)
           t == Target(m)
           a == <<m.method, " ">>
           b == <<" ", m.version>>
           at == a \o t
           q == IF m.query = <<>> THEN <<>> ELSE <<"?">> \o m.query
<1>1. m.method \in STRING /\ m.version \in STRING /\ m.query \in Seq(STRING)
  BY MessageTyped, Zenon
<1>2. Path(m) \in Seq(STRING)
  BY PathTyped
<1>3. q \in Seq(STRING)
  <2>1. <<>> \in Seq(STRING) /\ <<"?">> \o m.query \in Seq(STRING)
    <3>1. <<>> \in Seq(STRING)
      OBVIOUS
    <3> QED
      BY <1>1, <3>1, WordsTyped, Typed1, JoinTyped, Zenon
  <2> QED
    BY <2>1, Zenon
<1>4. t = Path(m) \o q
  BY Zenon DEF Target
<1>5. a \in Seq(STRING) /\ b \in Seq(STRING)
  BY <1>1, WordsTyped, Typed2, Zenon
<1>6. l = at \o b
  BY Zenon DEF Line
<1>7. Lacks(q, " ")
  <2>1. CASE m.query = <<>>
    BY <2>1, LacksNone, Zenon
  <2>2. CASE m.query # <<>>
    <3>1. Lacks(<<"?">>, " ")
      <4>1. "?" # " "
        OBVIOUS
      <4> QED
        BY <4>1, Lacks1, Zenon
    <3>2. Lacks(m.query, " ")
      <4>1. DOMAIN m.query = 1..Len(m.query)
        BY <1>1, NotEmpty, Zenon
      <4> QED
        BY <4>1, Zenon DEF Opens, Lacks
    <3>3. Lacks(<<"?">> \o m.query, " ")
      BY <1>1, <3>1, <3>2, WordsTyped, Typed1, LacksJoin, Zenon
    <3> QED
      BY <2>2, <3>3, Zenon
  <2> QED
    BY <2>1, <2>2, Zenon
<1> HIDE DEF q
<1>8. t \in Seq(STRING) /\ Lacks(t, " ")
  BY <1>2, <1>3, <1>4, <1>7, PathSo, LacksJoin, JoinTyped, Zenon
<1> HIDE DEF t, l, a, b
<1>9. at \in Seq(STRING)
  BY <1>5, <1>8, JoinTyped, Zenon
<1>10. Lacks(l, "LF") /\ Lacks(l, "CR")
  <2>1. l \in Seq(STRING)
    BY LineTyped DEF l
  <2>2. DOMAIN l = 1..Len(l)
    BY <2>1, NotEmpty, Zenon
  <2>3. Mute(l)
    BY Zenon DEF Framed, l
  <2>4. \A i \in 1..Len(l) : l[i] \notin {"CR", "LF"}
    BY <2>2, <2>3, Zenon DEF Mute, Quiet
  <2> QED
    BY <2>4, Zenon DEF Lacks
<1> HIDE DEF at
<1>11. Lacks(at, "LF") /\ Lacks(b, "LF") /\ Lacks(b, "CR")
  BY <1>5, <1>6, <1>9, <1>10, LacksParts, Zenon
<1>12. Lacks(a, "LF") /\ Lacks(t, "LF")
  BY <1>5, <1>8, <1>11, LacksParts, Zenon DEF at
<1>13. m.method # "LF"
  <2>1. a[1] = m.method /\ 1 \in 1..Len(a)
    BY DEF a
  <2> QED
    BY <1>12, <2>1, Zenon DEF Lacks
<1>14. m.version # "LF" /\ m.version # "CR"
  <2>1. b[2] = m.version /\ 2 \in 1..Len(b)
    BY DEF b
  <2> QED
    BY <1>11, <2>1, Zenon DEF Lacks
<1> QED
  BY <1>8, <1>12, <1>13, <1>14, Zenon DEF Plainly, Opens, t

-----------------------------------------------------------------------------
(* The line of a request, as header holds it. *)
LineOf(m, line) == Says(line, <<m.method>>, Path(m), m.query, <<m.version>>)
LEMMA LineTaken ==
    ASSUME NEW m \in Messages, Framed(m), Opens(m), Lists(m)
    PROVE  LineOf(m, RequestLine(Bytes[m])) /\ After(Bytes[m], "LF") = Left(m, 0)
<1> DEFINE s == Bytes[m]
           x == Left(m, 0)
           t == Target(m)
<1>1. s = LineText(m.method, t, m.version, x) /\ x \in Seq(STRING)
  BY BytesLine, Zenon DEF Opened
<1>2. m.method \in STRING /\ m.version \in STRING /\ m.query \in Seq(STRING)
  BY MessageTyped, Zenon
<1>3. Path(m) \in Seq(STRING)
  BY PathTyped
<1>4. Plainly(m)
  BY LineWords, Zenon
<1>5. Asks(t, Path(m), m.query)
  BY <1>2, <1>3, PathSo, TargetSplit, Zenon DEF Target
<1> HIDE DEF s, x, t
<1>6. LineParts(s, m.method, t, m.version, x)
  <2>1. m.method \notin {" ", "LF"} /\ m.version \notin {"CR", "LF"} /\ Lacks(t, " ") /\ Lacks(t, "LF")
        /\ t \in Seq(STRING)
    BY <1>4, Zenon DEF Plainly, t
  <2> QED
    BY <1>1, <1>2, <2>1, LineSplit, Zenon
<1>7. LineOf(m, RequestLine(s))
  <2> DEFINE u == Until(After(s, " "), " ")
  <2>1. Says(RequestLine(s), Until(s, " "), Until(u, "?"), After(u, "?"),
             Until(After(After(s, " "), " "), "CR"))
    BY LineRead
  <2> HIDE DEF u
  <2>2. u = t
    BY <1>6, Zenon DEF LineParts, u
  <2> QED
    BY <1>5, <1>6, <2>1, <2>2, Zenon DEF LineParts, Asks, LineOf
<1> QED
  BY <1>6, <1>7, Zenon DEF LineParts, s, x

LEMMA WellFormed ==
    ASSUME NEW m \in Messages, Framed(m), Opens(m), NEW line, LineOf(m, line)
    PROVE  ~Malformed(line)
<1>1. /\ line[<<"method">>] = <<m.method>> /\ line[<<"url">>] = Path(m)
      /\ line[<<"http">>] = <<m.version>>
  BY Zenon DEF LineOf, Says
<1>2. Path(m) # <<>> /\ Path(m)[1] = "/"
  BY PathSo, Zenon
<1>3. <<m.method>> # <<>> /\ <<m.version>> # <<>>
  OBVIOUS
<1>4. Find(<<m.version>>, "LF") = 0 /\ Find(<<m.version>>, " ") = 0
  <2>1. m.version # "LF" /\ m.version # " "
    BY LineWords, Zenon DEF Plainly
  <2>2. Lacks(<<m.version>>, "LF") /\ Lacks(<<m.version>>, " ")
    BY <2>1, Lacks1, Zenon
  <2>3. <<m.version>> \in Seq(STRING)
    BY MessageTyped, Typed1, Zenon
  <2> QED
    BY <2>2, <2>3, SplitNone, Zenon
<1> QED
  BY <1>1, <1>2, <1>3, <1>4, Zenon DEF Malformed

-----------------------------------------------------------------------------
(* parseText *)

(* Keys and values are texts. *)
WritesOnly(map) == \A key \in DOMAIN map : key \in Seq(STRING) /\ map[key] \in Seq(STRING)
LEMMA KeysTyped ==
    /\ \A key \in BaseKeys : key \in Seq(STRING)
    /\ \A key \in Extra : key \in Seq(STRING)
    /\ \A x \in STRING : <<Upper(x)>> \in Seq(STRING)
<1>1. /\ "method" \in STRING /\ "url" \in STRING /\ "args" \in STRING /\ "http" \in STRING
      /\ "port" \in STRING /\ "body" \in STRING /\ "disposition" \in STRING
  BY TextAssumption DEF Words
<1>2. ASSUME NEW x \in STRING PROVE Upper(x) \in STRING
  <2>1. /\ "HOST" \in STRING /\ "PORT" \in STRING /\ "BODY" \in STRING /\ "METHOD" \in STRING
        /\ "URL" \in STRING /\ "ARGS" \in STRING /\ "HTTP" \in STRING
        /\ "CONTENT-LENGTH" \in STRING /\ "CONTENT-TYPE" \in STRING /\ "TRANSFER-ENCODING" \in STRING
    BY TextAssumption DEF Words
  <2> QED
    BY <2>1 DEF Upper
<1>3. \A x \in STRING : <<x>> \in Seq(STRING)
  BY Typed1, Zenon
<1> QED
  BY <1>1, <1>2, <1>3, Zenon DEF BaseKeys, LineKeys, Extra

(* The line, and the port of the server. *)
Heard(m, line) ==
    /\ DOMAIN line = BaseKeys /\ line[<<"method">>] = <<m.method>> /\ line[<<"url">>] = Path(m)
    /\ line[<<"args">>] = m.query /\ line[<<"http">>] = <<m.version>> /\ line[<<"port">>] = Port
LEMMA HeardSo ==
    ASSUME NEW m, NEW line, LineOf(m, line)
    PROVE  Heard(m, Put(line, <<"port">>, Port))
<1> DEFINE r == Put(line, <<"port">>, Port)
<1>1. IsPut(r, line, <<"port">>, Port)
  BY PutSo, Zenon
<1> HIDE DEF r
<1>2. /\ <<"port">> # <<"method">> /\ <<"port">> # <<"url">> /\ <<"port">> # <<"args">>
      /\ <<"port">> # <<"http">>
  OBVIOUS
<1>3. DOMAIN line = LineKeys
  BY Zenon DEF LineOf, Says
<1>4. DOMAIN r = BaseKeys
  BY <1>1, <1>3, Zenon DEF IsPut, BaseKeys
<1>5. /\ r[<<"method">>] = <<m.method>> /\ r[<<"url">>] = Path(m)
      /\ r[<<"args">>] = m.query /\ r[<<"http">>] = <<m.version>> /\ r[<<"port">>] = Port
  BY <1>1, <1>2, Zenon DEF IsPut, LineOf, Says, LineKeys
<1> QED
  BY <1>4, <1>5, Zenon DEF Heard, r

LEMMA LineWrites ==
    ASSUME NEW m \in Messages, NEW line
    PROVE  /\ LineOf(m, line) => WritesOnly(line)
           /\ Heard(m, line) => WritesOnly(line)
<1>1. /\ <<m.method>> \in Seq(STRING) /\ Path(m) \in Seq(STRING) /\ m.query \in Seq(STRING)
      /\ <<m.version>> \in Seq(STRING) /\ Port \in Seq(STRING)
  BY MessageTyped, PathTyped, FramingAssumption, Typed1, Zenon
<1>2. ASSUME LineOf(m, line) PROVE WritesOnly(line)
  <2>1. DOMAIN line = LineKeys /\ \A key \in LineKeys : line[key] \in Seq(STRING)
    BY <1>1, <1>2, Zenon DEF LineOf, Says, LineKeys
  <2> QED
    BY <2>1, KeysTyped, Zenon DEF WritesOnly, BaseKeys
<1>3. ASSUME Heard(m, line) PROVE WritesOnly(line)
  <2>1. DOMAIN line = BaseKeys /\ \A key \in BaseKeys : line[key] \in Seq(STRING)
    BY <1>1, <1>3, Zenon DEF Heard, LineKeys, BaseKeys
  <2> QED
    BY <2>1, KeysTyped, Zenon DEF WritesOnly
<1> QED
  BY <1>2, <1>3, Zenon

LEMMA KeptWrites ==
    ASSUME NEW m \in Messages, Framed(m), Lists(m), NEW line, DOMAIN line = BaseKeys, WritesOnly(line),
           NEW q, Kept(m, line, q)
    PROVE  WritesOnly(q)
<1>1. PICK map : Holds(m, Count(m), line, map) /\ Around(map, q)
  BY Zenon DEF Kept
<1>2. ASSUME NEW j \in 1..Count(m)
      PROVE  Named(m, j) \in Seq(STRING) /\ FieldsOf(m)[j].value \in Seq(STRING)
  <2>1. Fine(FieldsOf(m)[j])
    BY CountSo, EachFine, Zenon
  <2>2. FieldsOf(m)[j].name \in STRING /\ FieldsOf(m)[j].value \in Seq(STRING)
    BY <2>1, Zenon DEF Fine, Field
  <2> QED
    BY <2>2, KeysTyped, Zenon DEF Named
<1>3. ASSUME NEW key \in DOMAIN map PROVE key \in Seq(STRING) /\ map[key] \in Seq(STRING)
  <2>1. CASE key \in BaseKeys
    BY <1>1, <2>1, KeysTyped, Zenon DEF Holds, WritesOnly
  <2>2. CASE key \notin BaseKeys
    <3>1. PICK j \in 1..Count(m) : key = Named(m, j)
      BY <1>1, <2>2, Zenon DEF Holds, Names
    <3>2. map[key] = FieldsOf(m)[j].value
      BY <1>1, <3>1, Zenon DEF Holds
    <3> QED
      BY <1>2, <3>1, <3>2, Zenon
  <2> QED
    BY <2>1, <2>2, Zenon
<1>4. ASSUME NEW key \in DOMAIN q PROVE key \in Seq(STRING) /\ q[key] \in Seq(STRING)
  <2>1. CASE key \in DOMAIN map
    BY <1>1, <1>3, <2>1, Zenon DEF Around
  <2>2. CASE key \notin DOMAIN map
    BY <1>1, <2>2, KeysTyped, Zenon DEF Around
  <2> QED
    BY <2>1, <2>2, Zenon
<1> QED
  BY <1>4, Zenon DEF WritesOnly

-----------------------------------------------------------------------------
(* What parseText makes of a request. *)
Verdict(m) ==
    IF m.version # "HTTP/1.1" THEN 505 ELSE IF Walk(m.steps) = <<>> THEN 400 ELSE 0
Parsed(m, out) ==
    /\ out.code = Verdict(m) /\ WritesOnly(out.header)
    /\ out.code = 0 => \E line : Heard(m, line) /\ Kept(m, line, out.header)
LEMMA TextParsed ==
    ASSUME NEW m \in Messages, Readable(m)
    PROVE  Parsed(m, ParseText(Bytes[m], Port))
<1> DEFINE s == Bytes[m]
           line == RequestLine(s)
           full == Put(line, <<"port">>, Port)
           out == ParseText(s, Port)
<1>1. Framed(m) /\ Opens(m) /\ Lists(m) /\ Carries(m)
  BY Zenon DEF Readable
<1>2. LineOf(m, line) /\ After(s, "LF") = Left(m, 0)
  BY <1>1, LineTaken, Zenon
<1>3. out = IF Malformed(line) THEN Outcome(line, 400)
            ELSE IF line[<<"http">>] # <<"HTTP/1.1">> THEN Outcome(line, 505)
            ELSE IF TooHigh(line[<<"url">>]) THEN Outcome(line, 400)
            ELSE ParseFields(After(s, "LF"), full)
  BY Zenon DEF ParseText
<1> HIDE DEF line, out, s
<1>4. ~Malformed(line)
  BY <1>1, <1>2, WellFormed, Zenon
<1>5. line[<<"http">>] = <<m.version>> /\ line[<<"url">>] = Path(m)
  BY <1>2, Zenon DEF LineOf, Says
<1>6. line[<<"http">>] # <<"HTTP/1.1">> <=> m.version # "HTTP/1.1"
  BY <1>5, SameText, Zenon
<1>7. TooHigh(line[<<"url">>]) <=> Walk(m.steps) = <<>>
  BY <1>1, <1>5, PathJudged, Zenon
<1>8. /\ Outcome(line, 400).code = 400 /\ Outcome(line, 505).code = 505
      /\ Outcome(line, 400).header = line /\ Outcome(line, 505).header = line
  BY DEF Outcome
<1>9. WritesOnly(line)
  BY <1>2, LineWrites, Zenon
<1>10. CASE m.version # "HTTP/1.1"
  <2>1. out = Outcome(line, 505)
    BY <1>3, <1>4, <1>6, <1>10, Zenon
  <2>2. Verdict(m) = 505 /\ 505 # 0
    BY <1>10 DEF Verdict
  <2>3. out.code = Verdict(m) /\ out.code # 0 /\ out.header = line
    BY <1>8, <2>1, <2>2
  <2>4. Parsed(m, out)
    BY <1>9, <2>3, Zenon DEF Parsed
  <2> QED
    BY <2>4, Zenon DEF out, s
<1>11. CASE m.version = "HTTP/1.1" /\ Walk(m.steps) = <<>>
  <2>1. out = Outcome(line, 400)
    BY <1>3, <1>4, <1>6, <1>7, <1>11, Zenon
  <2>2. Verdict(m) = 400 /\ 400 # 0
    BY <1>11 DEF Verdict
  <2>3. out.code = Verdict(m) /\ out.code # 0 /\ out.header = line
    BY <1>8, <2>1, <2>2
  <2>4. Parsed(m, out)
    BY <1>9, <2>3, Zenon DEF Parsed
  <2> QED
    BY <2>4, Zenon DEF out, s
<1>12. CASE m.version = "HTTP/1.1" /\ Walk(m.steps) # <<>>
  <2>1. out = ParseFields(Left(m, 0), full)
    BY <1>2, <1>3, <1>4, <1>6, <1>7, <1>12, Zenon
  <2>2. Verdict(m) = 0
    BY <1>12 DEF Verdict
  <2>3. Heard(m, full)
    BY <1>2, HeardSo, Zenon
  <2> HIDE DEF full
  <2>4. DOMAIN full = BaseKeys /\ WritesOnly(full)
    BY <2>3, LineWrites, Zenon DEF Heard
  <2>5. Taking(m, full, ParseFields(Left(m, 0), full))
    BY <1>1, <2>4, FieldsTaken, Zenon
  <2>6. out.code = 0 /\ Kept(m, full, out.header)
    BY <2>1, <2>5, Zenon DEF Taking
  <2>7. WritesOnly(out.header)
    BY <1>1, <2>4, <2>6, KeptWrites, Zenon
  <2>8. Parsed(m, out)
    BY <2>2, <2>3, <2>6, <2>7, Zenon DEF Parsed
  <2> QED
    BY <2>8, Zenon DEF out, s
<1> QED
  BY <1>10, <1>11, <1>12, Zenon

-----------------------------------------------------------------------------
(* The theorems *)

(* What has been parsed is the request that was sent, and nothing has been
   thrown. *)
Answering ==
    /\ pc # "thrown"
    /\ pc = "recv" => header = <<>> /\ code = 0
    /\ pc = "answered" => Parsed(message, Outcome(header, code))
IInv == Underway /\ Answering
LEMMA IInvInit ==
    ASSUME Init
    PROVE  IInv
BY UnderwayInit DEF Init, IInv, Answering

LEMMA VerdictSo ==
    ASSUME NEW m
    PROVE  Verdict(m) \in {0, 400, 505}
BY DEF Verdict

LEMMA IInvStep ==
    ASSUME \A m \in Messages : Readable(m), IInv, [Next]_vars
    PROVE  IInv'
<1>1. \A m \in Messages : Framed(m)
  BY Zenon DEF Readable
<1>2. Underway'
  BY <1>1, UnderwayStep DEF IInv
<1>3. CASE UNCHANGED vars
  <2>1. UNCHANGED <<message, pc, header, code>>
    BY <1>3 DEF vars
  <2> QED
    BY <1>2, <2>1 DEF IInv, Answering
<1>4. ASSUME NEW n \in DOMAIN wire, Store(buffer \o SubSeq(wire, 1, n)) PROVE IInv'
  <2>1. pc = "recv" /\ UNCHANGED <<message, pc, header, code>>
    BY <1>4 DEF Store, Taken
  <2> QED
    BY <1>2, <2>1 DEF IInv, Answering
<1>5. ASSUME NEW n \in DOMAIN wire, Respond(buffer \o SubSeq(wire, 1, n)) PROVE IInv'
  <2> DEFINE text == buffer \o SubSeq(wire, 1, n)
             out == ParseText(text, Port)
  <2>1. /\ pc = "recv" /\ wire' = From(wire, Len(text) - Len(buffer) + 1) /\ message' = message
        /\ TRUE \in FullyReceived(text)
    BY <1>5 DEF Respond, Taken
  <2>2. text \in Seq(STRING) /\ wire' \in Seq(STRING) /\ text \o wire' = buffer \o wire
    BY <2>1, Cut DEF Underway, IInv
  <2>3. IF out.code = Throws
        THEN pc' = "thrown" /\ UNCHANGED <<header, code>>
        ELSE pc' = "answered" /\ header' = out.header /\ code' = out.code
    BY <1>5, Zenon DEF Respond
  <2> HIDE DEF text
  <2>4. message \in Messages /\ text \o wire' = Bytes[message]
    BY <2>1, <2>2 DEF Underway, IInv
  <2>5. wire' = <<>>
    BY <1>1, <2>1, <2>2, <2>4, EnoughIsAll
  <2>6. text = Bytes[message]
    <3>1. text \o <<>> = text
      BY ONLY <2>2
    <3> QED
      BY <2>4, <2>5, <3>1, Zenon
  <2>7. Parsed(message, out)
    BY <2>4, <2>6, TextParsed, Zenon
  <2> HIDE DEF out
  <2>8. out.code # Throws
    <3>1. out.code \in {0, 400, 505}
      <4>1. out.code = Verdict(message)
        BY <2>7, Zenon DEF Parsed
      <4> QED
        BY <4>1, VerdictSo
    <3> QED
      BY <3>1 DEF Throws
  <2>9. pc' = "answered" /\ header' = out.header /\ code' = out.code
    BY <2>3, <2>8, Zenon
  <2>10. Parsed(message, Outcome(out.header, out.code))
    <3>1. /\ Outcome(out.header, out.code).header = out.header
          /\ Outcome(out.header, out.code).code = out.code
      BY DEF Outcome
    <3> QED
      BY <2>7, <3>1, Zenon DEF Parsed
  <2>11. Parsed(message', Outcome(header', code'))
    BY <2>1, <2>9, <2>10, Zenon
  <2>12. pc' # "thrown" /\ pc' # "recv"
    BY <2>9
  <2>13. Answering'
    BY <2>11, <2>12 DEF Answering
  <2> QED
    BY <1>2, <2>13 DEF IInv
<1>6. ASSUME NEW m \in Messages, Ask(m) PROVE IInv'
  <2>1. pc' = "recv" /\ header' = <<>> /\ code' = 0
    BY <1>6 DEF Ask
  <2>2. Answering'
    BY <2>1 DEF Answering
  <2> QED
    BY <1>2, <2>2 DEF IInv
<1> QED
  BY <1>3, <1>4, <1>5, <1>6 DEF Next, Receive, Stored

LEMMA IInvAlways ==
    ASSUME \A m \in Messages : Readable(m)
    PROVE  Spec => []IInv
<1>1. Init => IInv
  BY IInvInit
<1>2. IInv /\ [Next]_vars => IInv'
  BY IInvStep
<1> QED
  BY <1>1, <1>2, PTL DEF Spec

LEMMA IInvParsed ==
    ASSUME IInv, pc = "answered"
    PROVE  /\ message \in Messages /\ code = Verdict(message) /\ WritesOnly(header)
           /\ code = 0 => \E line : Heard(message, line) /\ Kept(message, line, header)
<1>1. Outcome(header, code).header = header /\ Outcome(header, code).code = code
  BY DEF Outcome
<1>2. Parsed(message, Outcome(header, code))
  BY DEF IInv, Answering
<1> QED
  BY <1>1, <1>2 DEF Parsed, IInv, Underway

(* No byte of a request is lost or kept for the next one, and what parseText
   leaves is a map of texts and one of its codes. *)
THEOREM NothingIsLost ==
    ASSUME \A m \in Messages : Readable(m)
    PROVE  Spec => []NothingLost
<1>1. ASSUME IInv PROVE NothingLost
  <2>1. \A key \in DOMAIN header : key \in Seq(STRING) /\ header[key] \in Seq(STRING)
    <3>1. CASE pc = "recv"
      <4>1. header = <<>>
        BY <1>1, <3>1 DEF IInv, Answering
      <4> QED
        BY <4>1
    <3>2. CASE pc = "answered"
      BY <1>1, <3>2, IInvParsed, Zenon DEF WritesOnly
    <3> QED
      BY <1>1, <3>1, <3>2 DEF IInv, Underway, Answering
  <2>2. code \in {0, 400, 401, 402, 505}
    <3>1. CASE pc = "recv"
      BY <1>1, <3>1 DEF IInv, Answering
    <3>2. CASE pc = "answered"
      <4>1. code = Verdict(message)
        BY <1>1, <3>2, IInvParsed, Zenon
      <4> QED
        BY <4>1, VerdictSo
    <3> QED
      BY <1>1, <3>1, <3>2 DEF IInv, Underway, Answering
  <2> QED
    BY <1>1, <2>1, <2>2 DEF IInv, Underway, NothingLost, TypeOK
<1> QED
  BY <1>1, IInvAlways, PTL

(* A request is refused for a path that leaves the root on its way and for
   another version, and for nothing else. *)
THEOREM LinesJudged ==
    ASSUME \A m \in Messages : Readable(m)
    PROVE  Spec => []LineJudged
<1>1. ASSUME IInv PROVE LineJudged
  <2>1. ASSUME pc = "answered" PROVE code = Verdict(message)
    BY <1>1, <2>1, IInvParsed, Zenon
  <2> QED
    BY <2>1 DEF LineJudged, Verdict
<1> QED
  BY <1>1, IInvAlways, PTL

LEMMA OwnCounted ==
    ASSUME NEW m \in Messages, NEW k \in DOMAIN m.fields
    PROVE  k \in 1..Count(m)
<1> DEFINE p == Len(m.fields)
           n == Count(m)
<1>1. Listed(m, p, Sized(Content(m)), Multipart)
  BY FieldsListed, Zenon
<1>2. m.framing \in {"none", "length", "chunked", "form", "form, type last"}
  BY MessageTyped DEF Framings
<1> HIDE DEF p, n
<1>3. p \in Nat /\ k \in 1..p
  BY <1>1, Zenon DEF Listed
<1>4. n = p \/ n = p + 1 \/ n = p + 2
  BY <1>1, <1>2, Zenon DEF Listed, n
<1>5. k \in 1..n
  BY ONLY <1>3, <1>4
<1> QED
  BY <1>5 DEF n

(* The map header says what the client said, and has no other entries. *)
THEOREM HeadersAreRead ==
    ASSUME \A m \in Messages : Readable(m)
    PROVE  Spec => []HeadersRead
<1>1. ASSUME IInv, pc = "answered", code = 0 PROVE HeadersRead
  <2>1. message \in Messages /\ \E line : Heard(message, line) /\ Kept(message, line, header)
    BY <1>1, IInvParsed, Zenon
  <2>2. PICK line : Heard(message, line) /\ Kept(message, line, header)
    BY <2>1, Zenon
  <2>3. PICK map : Holds(message, Count(message), line, map) /\ Around(map, header)
    BY <2>2, Zenon DEF Kept
  <2>4. Framed(message) /\ Lists(message)
    BY <2>1, Zenon DEF Readable
  <2>5. \A key \in BaseKeys : header[key] = line[key]
    BY <2>3, Zenon DEF Holds, Around
  <2>6. /\ header[<<"method">>] = <<message.method>> /\ header[<<"url">>] = Path(message)
        /\ header[<<"args">>] = message.query /\ header[<<"port">>] = Port
    BY <2>2, <2>5, Zenon DEF Heard, BaseKeys, LineKeys
  <2>7. ASSUME NEW k \in DOMAIN message.fields
        PROVE  Value(header, <<Upper(message.fields[k].name)>>) = message.fields[k].value
    <3>1. Listed(message, Len(message.fields), Sized(Content(message)), Multipart)
      BY <2>1, FieldsListed, Zenon
    <3>2. k \in 1..Len(message.fields) /\ FieldsOf(message)[k] = message.fields[k]
      BY <3>1, Zenon DEF Listed
    <3>3. k \in 1..Count(message)
      BY <2>1, OwnCounted, Zenon
    <3>4. map[Named(message, k)] = FieldsOf(message)[k].value /\ Named(message, k) \in DOMAIN map
      BY <2>3, <3>3, Zenon DEF Holds, Names
    <3>5. header[Named(message, k)] = message.fields[k].value /\ Named(message, k) \in DOMAIN header
      BY <2>3, <3>2, <3>4, Zenon DEF Around
    <3>6. Named(message, k) = <<Upper(message.fields[k].name)>>
      BY <3>2, Zenon DEF Named
    <3> QED
      BY <3>5, <3>6, Zenon DEF Value
  <2>8. Cardinality(DOMAIN header \ {<<"body">>, <<"disposition">>}) = 5 + Len(FieldsOf(message))
    <3>1. <<"body">> \notin DOMAIN map /\ <<"disposition">> \notin DOMAIN map
      BY <2>1, <2>3, <2>4, NamesFree, FreeOf, Zenon
    <3>2. DOMAIN header \ Extra = DOMAIN map
      BY <2>3, <3>1, Zenon DEF Around, Extra
    <3>3. DOMAIN map = BaseKeys \cup Names(message, Count(message))
      BY <2>3, Zenon DEF Holds
    <3>4. Count(message) \in Nat /\ Count(message) <= Count(message)
      BY <2>1, CountSo
    <3>5. Cardinality(DOMAIN map) = 5 + Count(message)
      BY <2>1, <2>4, <3>3, <3>4, NamesCounted, Zenon
    <3> QED
      BY <3>2, <3>5, Zenon DEF Extra, Count
  <2> QED
    BY <2>6, <2>7, <2>8, Zenon DEF HeadersRead
<1>2. ASSUME IInv PROVE HeadersRead
  <2>1. CASE pc = "answered" /\ code = 0
    BY <1>1, <1>2, <2>1, Zenon
  <2>2. CASE ~(pc = "answered" /\ code = 0)
    BY <2>2, Zenon DEF HeadersRead
  <2> QED
    BY <2>1, <2>2, Zenon
<1> QED
  BY <1>2, IInvAlways, PTL

(* The body is the one that was sent, unless a form says its Content-Type
   last. *)
THEOREM BodyIsDelivered ==
    ASSUME \A m \in Messages : Readable(m) /\ m.framing # "form, type last"
    PROVE  Spec => []BodyDelivered
<1>1. \A m \in Messages : Readable(m)
  OBVIOUS
<1>2. ASSUME IInv PROVE BodyDelivered
  <2>1. ASSUME pc = "answered", code = 0 PROVE Value(header, <<"body">>) = Payload(message)
    <3>1. message \in Messages /\ \E line : Heard(message, line) /\ Kept(message, line, header)
      BY <1>2, <2>1, IInvParsed, Zenon
    <3>2. message.framing # "form, type last"
      BY <3>1, Zenon
    <3> QED
      BY <3>1, <3>2, Zenon DEF Kept
  <2> QED
    BY <2>1, Zenon DEF BodyDelivered
<1> QED
  BY <1>1, <1>2, IInvAlways, PTL
==============================================================================
