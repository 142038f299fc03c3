------------------------ MODULE RequestFramingProofs -------------------------
(*****************************************************************************)
(* What the operators of parseText return for a text that is put together as *)
(* HTTP says: a field, a part, a chunk, the line; and isFullyReceived, for every *)
(* request that keeps its words apart (Framed) and however TCP cuts it.      *)
(*****************************************************************************)
EXTENDS RequestFraming, TextsProofs, FiniteSetTheorems

-----------------------------------------------------------------------------
LEMMA WordsTyped ==
    /\ "CR" \in STRING /\ "LF" \in STRING /\ " " \in STRING /\ ":" \in STRING
    /\ "-" \in STRING /\ "/" \in STRING /\ "?" \in STRING /\ "0" \in STRING
    /\ "boundary" \in STRING /\ "boundary=" \in STRING /\ "chunked" \in STRING
    /\ "multipart" \in STRING /\ "form-data" \in STRING /\ "disposition" \in STRING
    /\ "Content-Length" \in STRING /\ "Content-Type" \in STRING
    /\ "Transfer-Encoding" \in STRING
BY TextAssumption DEF Words

LEMMA MaxNumberTyped == MaxNumber \in Nat
BY TextAssumption, Zenon

LEMMA EndsTyped == CRLF \in Seq(STRING) /\ BlankLine \in Seq(STRING)
BY WordsTyped, Typed2, JoinTyped, Zenon DEF CRLF, BlankLine

LEMMA NumeralSo ==
    ASSUME NEW n \in 0..MaxNumber
    PROVE  /\ ToString(n) \in STRING /\ ToString(n) \in Numerals /\ ValueOf(ToString(n)) = n
           /\ ToString(n) # "CR" /\ ToString(n) # "LF" /\ ToString(n) # " "
           /\ ToString(n) # ":" /\ ToString(n) # "-"
           /\ Upper(ToString(n)) = ToString(n)
           /\ Upper(ToString(n)) # "CONTENT-LENGTH"
           /\ Upper(ToString(n)) # "TRANSFER-ENCODING"
<1>1. ToString(n) \in Numerals
  BY DEF Numerals
<1> QED
  BY <1>1, TextAssumption, Zenon

LEMMA UpperSo ==
    /\ Upper("CR") = "CR" /\ Upper("LF") = "LF" /\ Upper(":") = ":" /\ Upper(" ") = " "
    /\ Upper("multipart") = "multipart" /\ Upper("boundary=") = "boundary="
    /\ Upper("boundary") = "boundary" /\ Upper("chunked") = "chunked"
    /\ Upper("Content-Type") = "CONTENT-TYPE" /\ Upper("Content-Length") = "CONTENT-LENGTH"
    /\ Upper("Transfer-Encoding") = "TRANSFER-ENCODING"
BY DEF Upper

-----------------------------------------------------------------------------
(* Spaces *)

LEMMA SkipsTo ==
    ASSUME NEW s \in Seq(STRING), NEW i \in Nat \ {0}, NEW n \in Nat, i <= n, n <= Len(s),
           s[n] # " ", AllSame(s, " ", i, n)
    PROVE  SkipSpaces(s, i) = n
<1>1. SkipSpaces(s, i) = Ahead(s, " ", i)
  BY Zenon DEF SkipSpaces, Ahead
<1> QED
  BY <1>1, RunForward, Zenon

LEMMA SkipsBackNone ==
    ASSUME NEW s \in Seq(STRING), NEW i \in Nat, s[i + 1] # " "
    PROVE  SkipBack(s, i) = i
<1>1. SkipBack(s, i) = Back(s, " ", i)
  BY Zenon DEF SkipBack, Back
<1> QED
  BY <1>1, RunBack, Zenon

-----------------------------------------------------------------------------
(* A field *)

(* A name, a colon, spaces and what follows. *)
LEMMA FieldSplit ==
    ASSUME NEW name \in STRING, name # ":", NEW before \in Seq(STRING), AllOf(before, " "),
           NEW c \in Seq(STRING), Len(c) > 0, c[1] # " "
    PROVE  LET s == <<name>> \o (<<":">> \o (before \o c))
           IN  /\ s \in Seq(STRING) /\ Find(s, ":") = 2 /\ SubSeq(s, 1, 1) = <<name>>
               /\ From(s, SkipSpaces(s, 3)) = c
<1> DEFINE a == <<name>>
           d == <<":">>
           p == a \o d
           u == before \o c
           s == a \o (d \o u)
<1>1. ":" \in STRING /\ Lacks(a, ":")
  BY WordsTyped, Lacks1, Zenon
<1>2. u \in Seq(STRING)
  BY JoinTyped, Zenon
<1>3. a \in Seq(STRING) /\ d \in Seq(STRING)
  BY <1>1, Typed1, Zenon
<1>4. Len(a) = 1 /\ Len(d) = 1
  OBVIOUS
<1>5. SubSeq(s, 1, Len(a)) = a /\ s \in Seq(STRING) /\ p \in Seq(STRING)
  <2>1. d \o u \in Seq(STRING)
    BY <1>2, <1>3, JoinTyped, Zenon
  <2> QED
    BY <1>3, <2>1, Unjoined, JoinTyped, Zenon
<1>6. Find(s, ":") = Len(a) + 1
  BY <1>1, <1>2, <1>3, SplitAt, Zenon DEF Splits
<1>7. Len(p) = Len(a) + Len(d)
  BY <1>3, JoinedLen, Zenon
<1> HIDE DEF a, d
<1>8. s = p \o u
  BY ONLY <1>2, <1>3, SMTT(30)
<1> HIDE DEF p, s
<1> DEFINE i == Len(p) + 1
           n == Len(p) + Len(before) + 1
<1>9. /\ AllSame(s, " ", i, n) /\ n <= Len(s) /\ s[n] # " "
      /\ i \in Nat \ {0} /\ n \in Nat /\ i <= n /\ From(s, n) = c
  <2>1. Past(p \o u, " ", i, n, c)
    BY <1>5, RunIn, Zenon
  <2> QED
    BY <1>8, <2>1, Zenon DEF Past
<1> HIDE DEF i, n
<1>10. SkipSpaces(s, i) = n
  BY <1>5, <1>9, SkipsTo, Zenon
<1>11. i = 3 /\ Len(a) + 1 = 2
  BY ONLY <1>4, <1>7 DEF i
<1> QED
  BY <1>4, <1>5, <1>6, <1>9, <1>10, <1>11, Zenon DEF s, a, d, u

(* A value and the end of its line. *)
LEMMA ValueSplit ==
    ASSUME NEW value \in Seq(STRING), Lacks(value, "LF"), NEW x \in Seq(STRING)
    PROVE  LET c == value \o (CRLF \o x)
           IN  /\ c \in Seq(STRING) /\ Find(c, "LF") = Len(value) + 2
               /\ SkipBack(c, Len(value)) = Len(value)
               /\ SubSeq(c, 1, Len(value)) = value /\ From(c, Len(value) + 3) = x
<1> DEFINE a == <<"CR">>
           b == <<"LF">>
           q == value \o a
           y == b \o x
           z == CRLF \o x
           c == value \o z
           n == Len(value)
<1>1. "CR" \in STRING /\ "LF" \in STRING /\ Lacks(a, "LF") /\ a[1] = "CR"
  <2>1. "CR" # "LF" /\ a[1] = "CR"
    OBVIOUS
  <2> QED
    BY <2>1, WordsTyped, Lacks1, Zenon
<1>2. a \in Seq(STRING) /\ b \in Seq(STRING) /\ CRLF = a \o b
  BY <1>1, Typed1, TwoOnes, Zenon DEF CRLF
<1>3. Len(a) = 1 /\ Len(b) = 1
  OBVIOUS
<1>4. Lacks(q, "LF")
  BY <1>1, <1>2, LacksJoin, Zenon
<1> HIDE DEF a, b
<1>5. z = a \o y /\ z \in Seq(STRING) /\ y \in Seq(STRING)
  <2>1. (a \o b) \o x = a \o (b \o x)
    BY ONLY <1>2, x \in Seq(STRING), SMTT(30)
  <2> QED
    BY <1>2, <2>1, JoinTyped, Zenon
<1>6. c = q \o y /\ c \in Seq(STRING) /\ q \in Seq(STRING)
  <2>1. (value \o a) \o y = value \o (a \o y)
    BY ONLY <1>2, <1>5, value \in Seq(STRING), SMTT(30)
  <2> QED
    BY <1>2, <1>5, <2>1, JoinTyped, Zenon
<1>7. Len(q) = n + Len(a) /\ n \in Nat
  BY <1>2, JoinedLen, LenProperties, Zenon
<1>8. SubSeq(c, 1, n) = value
  BY <1>5, Unjoined, Zenon
<1>9. Find(q \o y, "LF") = Len(q) + 1 /\ After(q \o y, "LF") = x
  <2> HIDE DEF q
  <2>1. Splits(q \o y, "LF", q, x)
    BY <1>1, <1>4, <1>6, SplitAt, Zenon DEF b
  <2> QED
    BY <2>1, Zenon DEF Splits
<1>10. c[n + 1] = "CR"
  <2>1. \A j \in 1..Len(z) : c[Len(value) + j] = z[j]
    BY ONLY <1>5, value \in Seq(STRING), JoinedAfter
  <2>2. \A j \in 1..Len(a) : z[j] = a[j] /\ j \in 1..Len(z)
    <3>1. \A j \in 1..Len(a) : (a \o y)[j] = a[j] /\ j \in 1..Len(a \o y)
      BY <1>2, <1>5, StartsAfter, Zenon
    <3> QED
      BY <1>5, <3>1, Zenon
  <2>3. 1 \in 1..Len(a)
    BY ONLY <1>3
  <2> QED
    BY <1>1, <2>1, <2>2, <2>3, Zenon
<1> HIDE DEF c, n, q, y, z
<1>11. Len(q) + 1 = n + 2 /\ (n + 2) + 1 = n + 3 /\ n + 2 # 0
  BY ONLY <1>3, <1>7
<1>12. Find(c, "LF") = n + 2
  BY <1>6, <1>9, <1>11, Zenon
<1>13. From(c, n + 3) = x
  BY <1>6, <1>9, <1>11, <1>12, Zenon DEF After
<1>14. SkipBack(c, n) = n
  <2>1. c[n + 1] # " "
    BY <1>10
  <2> QED
    BY <1>6, <1>7, <2>1, SkipsBackNone, Zenon
<1> QED
  BY <1>6, <1>8, <1>12, <1>13, <1>14, Zenon DEF c, n, z

(* Where the loop of parseText stands. *)
Stage(rest, map, bound, inside, failure) ==
    [rest |-> rest, map |-> map, bound |-> bound, inside |-> inside, code |-> failure]
FieldText(name, before, value, x) == <<name>> \o (<<":">> \o (before \o (value \o (CRLF \o x))))
Apart(name, before, value) ==
    /\ name # ":" /\ AllOf(before, " ") /\ Lacks(value, "LF")
    /\ Len(value) > 0 => value[1] # " "
LEMMA KeyOne ==
    ASSUME NEW x
    PROVE  Key(<<x>>) = <<Upper(x)>>
<1>1. [i \in DOMAIN <<x>> |-> Upper(<<x>>[i])] = <<Upper(x)>>
  OBVIOUS
<1> QED
  BY <1>1, Zenon DEF Key

(* A turn, if there is a colon and an end of the line. *)
Valued(s) == From(s, SkipSpaces(s, Find(s, ":") + 1))
LEMMA FieldSo ==
    ASSUME NEW s, NEW map, NEW bound, NEW inside, NEW failure,
           Find(s, ":") # 0, Find(Valued(s), "LF") # 0
    PROVE  ReadField(Stage(s, map, bound, inside, failure))
               = Stage(From(Valued(s), Find(Valued(s), "LF") + 1),
                       Put(map, Key(SubSeq(s, 1, Find(s, ":") - 1)),
                           SubSeq(Valued(s), 1, SkipBack(Valued(s), Find(Valued(s), "LF") - 2))),
                       BoundIn(map, bound), inside, failure)
<1> DEFINE at == Stage(s, map, bound, inside, failure)
           c == Valued(s)
<1>1. at.rest = s /\ at.map = map /\ at.bound = bound
  BY DEF Stage
<1>2. ReadField(at) = [at EXCEPT !.rest = From(c, Find(c, "LF") + 1),
                                 !.map = Put(map, Key(SubSeq(s, 1, Find(s, ":") - 1)),
                                             SubSeq(c, 1, SkipBack(c, Find(c, "LF") - 2))),
                                 !.bound = BoundIn(map, bound)]
  <2> HIDE DEF at
  <2> QED
    BY <1>1, Zenon DEF ReadField, Valued
<1> HIDE DEF c
<1> QED
  BY <1>2 DEF Stage, c

Takes(at, next) == ReadField(at) = next
LEMMA FieldTurn ==
    ASSUME NEW name \in STRING, NEW before \in Seq(STRING), NEW value \in Seq(STRING),
           Apart(name, before, value), NEW x \in Seq(STRING),
           NEW map, NEW bound, NEW inside, NEW failure
    PROVE  Takes(Stage(FieldText(name, before, value, x), map, bound, inside, failure),
                 Stage(x, Put(map, <<Upper(name)>>, value), BoundIn(map, bound), inside, failure))
<1> DEFINE s == FieldText(name, before, value, x)
           z == CRLF \o x
           c == value \o z
           n == Len(value)
<1>1. /\ c \in Seq(STRING) /\ Find(c, "LF") = n + 2 /\ SkipBack(c, n) = n
      /\ SubSeq(c, 1, n) = value /\ From(c, n + 3) = x
  BY ValueSplit, Zenon DEF Apart
<1>2. n \in Nat
  BY LenProperties, Zenon
<1>3. Len(c) > 0 /\ c[1] # " "
  <2>1. z \in Seq(STRING) /\ Len(z) > 0 /\ z[1] = "CR"
    <3>1. Len(CRLF) = 2 /\ CRLF[1] = "CR" /\ CRLF \in Seq(STRING)
      BY EndsTyped DEF CRLF
    <3>2. Starts(CRLF, "CR")
      BY <3>1 DEF Starts
    <3> QED
      BY <3>1, <3>2, StartsJoined, JoinTyped, Zenon DEF Starts
  <2> HIDE DEF z
  <2>2. CASE n = 0
    <3>1. value = <<>> /\ value \o z = z
      BY <2>1, <2>2
    <3>2. z[1] # " "
      BY <2>1
    <3> QED
      BY <2>1, <3>1, <3>2, Zenon
  <2>3. CASE n > 0
    <3>1. Starts(value, value[1])
      BY <2>3 DEF Starts
    <3>2. Starts(c, value[1])
      BY <2>1, <3>1, StartsJoined, Zenon
    <3> QED
      BY <2>3, <3>2, Zenon DEF Apart, Starts
  <2>4. n = 0 \/ n > 0
    BY ONLY <1>2
  <2> QED
    BY <2>2, <2>3, <2>4, Zenon
<1> HIDE DEF c
<1>4. /\ s \in Seq(STRING) /\ Find(s, ":") = 2 /\ SubSeq(s, 1, 1) = <<name>>
      /\ From(s, SkipSpaces(s, 3)) = c
  BY <1>1, <1>3, FieldSplit, Zenon DEF c, FieldText, Apart
<1> HIDE DEF s, n
<1>5. 2 + 1 = 3 /\ 2 - 1 = 1 /\ (n + 2) - 2 = n /\ (n + 2) + 1 = n + 3 /\ n + 2 # 0 /\ 2 # 0
  BY ONLY <1>2
<1>6. Key(<<name>>) = <<Upper(name)>>
  BY KeyOne
<1>7. Valued(s) = c /\ SubSeq(s, 1, Find(s, ":") - 1) = <<name>> /\ Find(s, ":") # 0
  BY <1>4, <1>5, Zenon DEF Valued
<1>8. /\ SubSeq(c, 1, SkipBack(c, Find(c, "LF") - 2)) = value /\ Find(c, "LF") # 0
      /\ From(c, Find(c, "LF") + 1) = x
  BY <1>1, <1>5, Zenon
<1>9. Find(Valued(s), "LF") # 0
  BY <1>7, <1>8, Zenon
<1>10. ReadField(Stage(s, map, bound, inside, failure))
               = Stage(From(Valued(s), Find(Valued(s), "LF") + 1),
                       Put(map, Key(SubSeq(s, 1, Find(s, ":") - 1)),
                           SubSeq(Valued(s), 1, SkipBack(Valued(s), Find(Valued(s), "LF") - 2))),
                       BoundIn(map, bound), inside, failure)
  BY <1>7, <1>9, FieldSo
<1> QED
  BY <1>6, <1>7, <1>8, <1>10, Zenon DEF s, Takes

-----------------------------------------------------------------------------
(* The turns of parseText *)

LEMMA FieldNone ==
    ASSUME NEW s, NEW map, NEW bound, NEW inside, NEW failure, Find(s, ":") = 0
    PROVE  ReadField(Stage(s, map, bound, inside, failure)) = Stage(<<>>, map, bound, inside, failure)
<1> DEFINE at == Stage(s, map, bound, inside, failure)
<1>1. at.rest = s
  BY DEF Stage
<1>2. ReadField(at) = [at EXCEPT !.rest = <<>>]
  <2> HIDE DEF at
  <2> QED
    BY <1>1, Zenon DEF ReadField
<1> QED
  BY <1>2 DEF Stage

LEMMA NotBlank ==
    ASSUME NEW s \in Seq(STRING), NEW x, Starts(s, x), x # "CR"
    PROVE  ~AtBlank(s)
<1> SUFFICES ASSUME AtBlank(s) PROVE FALSE
  OBVIOUS
<1>1. SubSeq(CRLF, 1, Len(CRLF)) = SubSeq(s, 1, Len(CRLF)) /\ Len(CRLF) <= Len(s)
  BY Zenon DEF AtBlank, IsPrefix
<1>2. Len(CRLF) = 2 /\ SubSeq(CRLF, 1, 2)[1] = "CR"
  BY DEF CRLF
<1>3. SubSeq(s, 1, 2)[1] = s[1]
  BY <1>1, <1>2
<1> QED
  BY <1>1, <1>2, <1>3 DEF Starts

LEMMA BlankSo ==
    ASSUME NEW y \in Seq(STRING)
    PROVE  /\ CRLF \o y \in Seq(STRING) /\ From(CRLF \o y, 3) = y
           /\ y # <<>> => AtBlank(CRLF \o y)
           /\ y = <<>> => ~AtBlank(CRLF \o y)
<1> DEFINE s == CRLF \o y
<1>1. CRLF \in Seq(STRING)
  BY EndsTyped
<1>2. Len(CRLF) = 2
  BY DEF CRLF
<1>3. s \in Seq(STRING) /\ Len(s) = Len(CRLF) + Len(y) /\ Len(y) \in Nat
  BY <1>1, JoinTyped, JoinedLen, LenProperties, Zenon
<1>4. SubSeq(s, 1, Len(CRLF)) = CRLF /\ From(s, Len(CRLF) + 1) = y
  BY <1>1, Unjoined, Zenon
<1>5. SubSeq(CRLF, 1, Len(CRLF)) = CRLF
  BY <1>1, SubSeqFull, Zenon
<1>6. y # <<>> <=> Len(y) > 0
  OBVIOUS
<1> HIDE DEF s
<1>7. 2 + 1 = 3 /\ Len(CRLF) <= Len(s) /\ (Len(y) > 0 <=> Len(s) > 2)
  BY ONLY <1>2, <1>3
<1>8. IsPrefix(CRLF, s)
  BY <1>4, <1>5, <1>7, Zenon DEF IsPrefix
<1> QED
  BY <1>2, <1>3, <1>4, <1>6, <1>7, <1>8, Zenon DEF s, AtBlank

(* A line that does not begin with an end is a field. *)
LEMMA TurnField ==
    ASSUME NEW s, NEW map, NEW bound, NEW inside, NEW failure, ~AtBlank(s)
    PROVE  Fields(Stage(s, map, bound, inside, failure))
               = ReadField(Stage(s, map, bound, inside, failure))
<1> DEFINE at == Stage(s, map, bound, inside, failure)
<1>1. at.rest = s
  BY DEF Stage
<1> HIDE DEF at
<1>2. Fields(at) = ReadField(at)
  BY <1>1, Zenon DEF Fields
<1> QED
  BY <1>2, Zenon DEF at

LEMMA TurnEnded ==
    ASSUME NEW map, NEW bound, NEW inside, NEW failure
    PROVE  Fields(Stage(<<>>, map, bound, inside, failure)) = Stage(<<>>, map, bound, inside, failure)
<1>1. ~AtBlank(<<>>)
  BY DEF AtBlank
<1>2. Find(<<>>, ":") = 0
  <2>1. <<>> \in Seq(STRING) /\ Lacks(<<>>, ":")
    BY LacksNone
  <2> QED
    BY <2>1, SplitNone, Zenon
<1> QED
  BY <1>1, <1>2, TurnField, FieldNone

(* Nothing after the last end of a line. *)
LEMMA TurnBare ==
    ASSUME NEW map, NEW bound, NEW inside, NEW failure
    PROVE  Fields(Stage(CRLF \o <<>>, map, bound, inside, failure)) = Stage(<<>>, map, bound, inside, failure)
<1>0. <<>> \in Seq(STRING)
  OBVIOUS
<1>1. CRLF \o <<>> \in Seq(STRING) /\ ~AtBlank(CRLF \o <<>>)
  BY <1>0, BlankSo, Zenon
<1>2. Find(CRLF \o <<>>, ":") = 0
  <2>1. Lacks(CRLF \o <<>>, ":")
    BY DEF CRLF, Lacks
  <2> QED
    BY <1>1, <2>1, SplitNone, Zenon
<1> QED
  BY <1>1, <1>2, TurnField, FieldNone

Bares(at, map, failure, next) ==
    [at EXCEPT !.rest = <<>>, !.map = map, !.code = failure] = next
LEMMA StageCloses ==
    ASSUME NEW s, NEW map, NEW q, NEW bound, NEW inside, NEW failure, NEW c
    PROVE  Bares(Stage(s, map, bound, inside, failure), q, c, Stage(<<>>, q, bound, inside, c))
<1> DEFINE at == Stage(s, map, bound, inside, failure)
           bare == [at EXCEPT !.rest = <<>>]
           put == [bare EXCEPT !.map = q]
<1>1. bare = Stage(<<>>, map, bound, inside, failure)
  BY DEF Stage
<1>2. put = Stage(<<>>, q, bound, inside, failure)
  <2> HIDE DEF bare
  <2> QED
    BY <1>1 DEF Stage
<1>3. [put EXCEPT !.code = c] = Stage(<<>>, q, bound, inside, c)
  <2> HIDE DEF put
  <2> QED
    BY <1>2 DEF Stage
<1>4. [at EXCEPT !.rest = <<>>, !.map = q, !.code = c] = [put EXCEPT !.code = c]
  <2> HIDE DEF at
  <2> QED
    OBVIOUS
<1> QED
  BY <1>3, <1>4, Zenon DEF Bares

(* The body. *)
LEMMA TurnBody ==
    ASSUME NEW y \in Seq(STRING), y # <<>>, NEW map, NEW bound, NEW inside, NEW failure,
           inside \/ bound = <<>>, TakeBody(y, map, bound).left = <<>>
    PROVE  Fields(Stage(CRLF \o y, map, bound, inside, failure))
               = Stage(<<>>, TakeBody(y, map, bound).header, bound, inside, TakeBody(y, map, bound).code)
<1> DEFINE s == CRLF \o y
           at == Stage(s, map, bound, inside, failure)
           taken == TakeBody(y, map, bound)
<1>1. at.rest = s /\ at.map = map /\ at.bound = bound /\ at.inside = inside
  BY DEF Stage
<1>2. AtBlank(s) /\ From(s, 3) = y
  BY BlankSo, Zenon
<1> HIDE DEF s
<1> DEFINE next == Stage(<<>>, taken.header, bound, inside, taken.code)
<1>3. Fields(at) = ReadField([at EXCEPT !.rest = <<>>, !.map = taken.header, !.code = taken.code])
  <2>1. taken.left = <<>>
    OBVIOUS
  <2> DEFINE body == TakeBody(From(at.rest, 3), at.map, at.bound)
  <2>2. body = taken
    <3> HIDE DEF at
    <3> QED
      BY <1>1, <1>2, Zenon
  <2>3. Fields(at) = ReadField([at EXCEPT !.rest = body.left, !.map = body.header, !.code = body.code])
    <3>1. AtBlank(at.rest) /\ ~(~at.inside /\ at.bound # <<>>)
      BY <1>1, <1>2, Zenon
    <3> HIDE DEF at
    <3> QED
      BY <3>1, Zenon DEF Fields
  <2> HIDE DEF at, body, taken
  <2> QED
    BY <2>1, <2>2, <2>3, Zenon
<1> HIDE DEF taken
<1>4. Fields(at) = next
  <2>1. [at EXCEPT !.rest = <<>>, !.map = taken.header, !.code = taken.code] = next
    <3>1. Bares(at, taken.header, taken.code, next)
      BY StageCloses, Zenon
    <3> HIDE DEF at, next
    <3> QED
      BY <3>1, Zenon DEF Bares
  <2>2. Find(<<>>, ":") = 0
    <3>1. <<>> \in Seq(STRING) /\ Lacks(<<>>, ":")
      BY DEF Lacks
    <3> QED
      BY <3>1, SplitNone, Zenon
  <2>3. ReadField(next) = next
    BY <2>2, FieldNone
  <2> HIDE DEF next
  <2> QED
    BY <1>3, <2>1, <2>3, Zenon
<1> QED
  BY <1>4 DEF s, taken

Goes(at, rest, inside, next) == [at EXCEPT !.rest = rest, !.inside = inside] = next
LEMMA StageInside ==
    ASSUME NEW s, NEW z, NEW map, NEW bound, NEW i, NEW j, NEW failure
    PROVE  Goes(Stage(s, map, bound, i, failure), z, j, Stage(z, map, bound, j, failure))
<1> DEFINE at == Stage(s, map, bound, i, failure)
           ready == [at EXCEPT !.rest = z]
<1>1. ready = Stage(z, map, bound, i, failure)
  BY DEF Stage
<1>2. [ready EXCEPT !.inside = j] = Stage(z, map, bound, j, failure)
  <2> HIDE DEF ready
  <2> QED
    BY <1>1 DEF Stage
<1>3. [at EXCEPT !.rest = z, !.inside = j] = [ready EXCEPT !.inside = j]
  <2> HIDE DEF at
  <2> QED
    OBVIOUS
<1> QED
  BY <1>2, <1>3, Zenon DEF Goes

(* The line before a part. *)
LEMMA TurnPart ==
    ASSUME NEW y \in Seq(STRING), y # <<>>, NEW map, NEW bound, NEW failure,
           bound # <<>>, IsPrefix(bound, From(y, 3))
    PROVE  Fields(Stage(CRLF \o y, map, bound, FALSE, failure))
               = ReadField(Stage(After(y, "LF"), map, bound, TRUE, failure))
<1> DEFINE s == CRLF \o y
           at == Stage(s, map, bound, FALSE, failure)
<1>1. at.rest = s /\ at.map = map /\ at.bound = bound /\ at.inside = FALSE
  BY DEF Stage
<1>2. AtBlank(s) /\ From(s, 3) = y
  BY BlankSo, Zenon
<1> HIDE DEF s
<1>3. Fields(at) = ReadField([at EXCEPT !.rest = After(y, "LF"), !.inside = TRUE])
  <2> HIDE DEF at
  <2> QED
    BY <1>1, <1>2, Zenon DEF Fields
<1>4. [at EXCEPT !.rest = After(y, "LF"), !.inside = TRUE] = Stage(After(y, "LF"), map, bound, TRUE, failure)
  <2>1. Goes(at, After(y, "LF"), TRUE, Stage(After(y, "LF"), map, bound, TRUE, failure))
    BY StageInside, Zenon
  <2> QED
    BY <2>1, Zenon DEF Goes
<1> QED
  BY <1>3, <1>4 DEF s

-----------------------------------------------------------------------------
(* Bodies *)
ChunkText(data, y) == <<ToString(Len(data))>> \o (CRLF \o (data \o (CRLF \o y)))
Rest(s, data, failure) == [rest |-> s, data |-> data, code |-> failure, left |-> <<>>]
LEMMA EndAfter ==
    ASSUME NEW a \in Seq(STRING), NEW y \in Seq(STRING)
    PROVE  Between(a \o (CRLF \o y), Len(a), a, "CR", "LF", y) /\ a \o (CRLF \o y) \in Seq(STRING)
BY WordsTyped, EndsTyped, JoinTyped, TwoBetween, Zenon DEF CRLF

(* A chunk, as the decoder takes it apart. *)
ChunkParts(s, x, data, y) ==
    LET c == From(s, 4)
        n == Len(data)
    IN  /\ s # <<>> /\ Find(s, "CR") = 2 /\ s[1] = x /\ s[3] = "LF" /\ Len(s) # 1 /\ Len(s) # 2
        /\ c[n + 1] = "CR" /\ c[n + 2] = "LF" /\ ~(n > Len(c)) /\ ~(n + 2 > Len(c))
        /\ SubSeq(c, 1, n) = data /\ From(c, n + 3) = y
LEMMA ChunkSplit ==
    ASSUME NEW x \in STRING, x # "CR", NEW data \in Seq(STRING), NEW y \in Seq(STRING)
    PROVE  /\ <<x>> \o (CRLF \o (data \o (CRLF \o y))) \in Seq(STRING)
           /\ ChunkParts(<<x>> \o (CRLF \o (data \o (CRLF \o y))), x, data, y)
<1> DEFINE c == data \o (CRLF \o y)
           a == <<x>>
           s == a \o (CRLF \o c)
           n == Len(data)
<1>1. Between(c, n, data, "CR", "LF", y) /\ c \in Seq(STRING)
  BY EndAfter, Zenon
<1>2. a \in Seq(STRING)
  BY Typed1, Zenon
<1>3. Len(a) = 1 /\ a[1] = x
  OBVIOUS
<1> HIDE DEF c, a
<1>4. Between(s, Len(a), a, "CR", "LF", c) /\ s \in Seq(STRING)
  BY <1>1, <1>2, EndAfter, Zenon
<1>5. s[1] = x
  <2>1. \A i \in 1..Len(a) : s[i] = a[i]
    <3>1. CRLF \o c \in Seq(STRING)
      BY <1>1, EndsTyped, JoinTyped, Zenon
    <3> QED
      BY <1>2, <3>1, JoinedBefore, Zenon
  <2>2. 1 \in 1..Len(a)
    BY ONLY <1>3
  <2> QED
    BY <1>3, <2>1, <2>2, Zenon
<1> HIDE DEF s, n
<1>6. Len(c) \in Nat /\ Len(y) \in Nat /\ n \in Nat /\ Len(s) \in Nat
  BY <1>1, <1>4, LenProperties, Zenon DEF n
<1>7. /\ Len(s) = Len(a) + 2 + Len(c) /\ s[Len(a) + 1] = "CR" /\ s[Len(a) + 2] = "LF"
      /\ From(s, Len(a) + 3) = c
  BY <1>4, Zenon DEF Between
<1>8. /\ Len(c) = n + 2 + Len(y) /\ c[n + 1] = "CR" /\ c[n + 2] = "LF"
      /\ SubSeq(c, 1, n) = data /\ From(c, n + 3) = y
  BY <1>1, Zenon DEF Between
<1>9. Len(a) + 1 = 2 /\ Len(a) + 2 = 3 /\ Len(a) + 3 = 4
  BY ONLY <1>3
<1>10. Len(s) = Len(a) + 2 + Len(c) /\ Len(c) = n + 2 + Len(y)
  BY <1>7, <1>8, Zenon
<1>11. ~(n > Len(c)) /\ ~(n + 2 > Len(c)) /\ Len(s) # 1 /\ Len(s) # 2 /\ 2 \in 1..Len(s) /\ 2 # 0 /\ Len(s) # 0
  BY ONLY <1>3, <1>6, <1>10
<1>12. Find(s, "CR") = 2
  <2>1. Lacking(s, 1, "CR")
    BY <1>5 DEF Lacking
  <2>2. 1 + 1 = 2 /\ 1 \in Nat
    BY ONLY TRUE
  <2>3. s[1 + 1] = "CR" /\ 1 + 1 \in 1..Len(s)
    BY <1>7, <1>9, <1>11, <2>2, Zenon
  <2>4. Find(s, "CR") = 1 + 1
    BY <1>4, <2>1, <2>2, <2>3, FoundAt
  <2> QED
    BY <2>2, <2>4, Zenon
<1>13. s # <<>>
  BY <1>11
<1> QED
  BY <1>4, <1>5, <1>7, <1>8, <1>9, <1>11, <1>12, <1>13, Zenon DEF ChunkParts, s, n, a, c

(* A turn of the decoder, on a text that begins with a whole chunk. *)
LEMMA ChunkTaken ==
    ASSUME NEW s, NEW x, NEW data, NEW y, ChunkParts(s, x, data, y), x \in Numerals,
           ValueOf(x) = Len(data), NEW before
    PROVE  Dechunk(Rest(s, before, 0)) = Rest(y, before \o data, 0)
<1> DEFINE at == Rest(s, before, 0)
<1>1. at.rest = s /\ at.data = before
  BY DEF Rest
<1> HIDE DEF at
<1> DEFINE c == From(s, 4)
           n == Len(data)
<1>2. 2 # 1 /\ 2 # 0 /\ 2 + 2 = 4
  BY ONLY TRUE
<1>3. s # <<>> /\ Find(s, "CR") = 2 /\ s[1] \in Numerals /\ ValueOf(s[1]) = n
  BY Zenon DEF ChunkParts
<1>4. s[3] = "LF" /\ Len(s) # 1 /\ Len(s) # 2
  BY Zenon DEF ChunkParts
<1>5. /\ c[n + 1] = "CR" /\ c[n + 2] = "LF" /\ ~(n > Len(c)) /\ ~(n + 2 > Len(c))
      /\ SubSeq(c, 1, n) = data /\ From(c, n + 3) = y
  BY Zenon DEF ChunkParts
<1> HIDE DEF c, n
<1>6. From(s, Find(s, "CR") + 2) = c
  BY <1>2, <1>3, Zenon DEF c
<1>7. Dechunk(at) = [rest |-> From(c, n + 3), data |-> before \o SubSeq(c, 1, n), code |-> 0,
                     left |-> <<>>]
  BY <1>1, <1>2, <1>3, <1>4, <1>5, <1>6, ZenonT(60) DEF Dechunk
<1>8. Dechunk(at) = Rest(y, before \o data, 0)
  BY <1>5, <1>7, Zenon DEF Rest
<1> QED
  BY <1>8, Zenon DEF at

LEMMA ChunksEnded ==
    ASSUME NEW data, NEW failure
    PROVE  Dechunk(Rest(<<>>, data, failure)) = Rest(<<>>, data, failure)
<1>1. Rest(<<>>, data, failure).rest = <<>>
  BY DEF Rest
<1> QED
  BY <1>1, Zenon DEF Dechunk

-----------------------------------------------------------------------------
(* The loops *)

(* Turn after turn of the decoder, from start. *)
Decodes(h, start, n) == h[0] = start /\ \A k \in 1..n : h[k] = Dechunk(h[k - 1])
LEMMA DecodesSome ==
    ASSUME NEW start, NEW n \in Nat
    PROVE  \E h : h = [k \in 0..n |-> IF k = 0 THEN start ELSE Dechunk(h[k - 1])]
<1> DEFINE Good(h, m) == h = [k \in 0..m |-> IF k = 0 THEN start ELSE Dechunk(h[k - 1])]
           T == {m \in Nat : \E h : Good(h, m)}
<1>1. 0 \in T
  <2> DEFINE h == [k \in 0..0 |-> start]
  <2>1. Good(h, 0)
    OBVIOUS
  <2> QED
    BY <2>1
<1>2. ASSUME NEW m \in Nat, m \in T PROVE m + 1 \in T
  <2>1. PICK f : Good(f, m)
    BY <1>2
  <2> DEFINE x == Dechunk(f[m])
             h == [k \in 0..(m + 1) |-> IF k = m + 1 THEN x ELSE f[k]]
  <2>2. ASSUME NEW k \in 0..(m + 1) PROVE h[k] = IF k = 0 THEN start ELSE Dechunk(h[k - 1])
    <3>1. CASE k = m + 1
      <4>1. h[k] = x /\ h[k - 1] = f[m] /\ k # 0
        BY <3>1
      <4> QED
        BY <4>1, Zenon
    <3>2. CASE k # m + 1
      <4>1. k \in 0..m /\ h[k] = f[k] /\ (k # 0 => h[k - 1] = f[k - 1])
        BY <3>2
      <4>2. f[k] = IF k = 0 THEN start ELSE Dechunk(f[k - 1])
        BY <2>1, <4>1
      <4> QED
        BY <4>1, <4>2, Zenon
    <3> QED
      BY <3>1, <3>2
  <2>3. h = [k \in 0..(m + 1) |-> h[k]]
    OBVIOUS
  <2> HIDE DEF h
  <2>4. Good(h, m + 1)
    BY <2>2, <2>3, Zenon
  <2> QED
    BY <2>4
<1> HIDE DEF T
<1>3. \A m \in Nat : m \in T
  BY <1>1, <1>2, Induction
<1> QED
  BY <1>3 DEF T

LEMMA DecodedAlong ==
    ASSUME NEW s \in Seq(STRING)
    PROVE  \E h : Decodes(h, Rest(s, <<>>, 0), Len(s)) /\ Decoded(s) = h[Len(s)]
<1> DEFINE n == Len(s)
           start == Rest(s, <<>>, 0)
           Good(f) == f = [k \in 0..n |-> IF k = 0 THEN start ELSE Dechunk(f[k - 1])]
           g == CHOOSE f : Good(f)
<1>1. n \in Nat
  BY LenProperties, Zenon
<1>2. Decoded(s) = g[n]
  BY Zenon DEF Decoded, Loop, Rest
<1> HIDE DEF start, n
<1>3. \E f : Good(f)
  BY <1>1, DecodesSome, Zenon
<1>4. Good(g)
  BY <1>3, Zenon
<1> HIDE DEF g
<1>5. g[0] = start /\ \A k \in 1..n : g[k] = Dechunk(g[k - 1])
  BY <1>1, <1>4
<1> QED
  BY <1>2, <1>5, Zenon DEF Decodes, n, start

(* Turn after turn of parseText, from start. *)
Parses(h, start, n) == h[0] = start /\ \A k \in 1..n : h[k] = Fields(h[k - 1])
LEMMA ParsesSome ==
    ASSUME NEW start, NEW n \in Nat
    PROVE  \E h : h = [k \in 0..n |-> IF k = 0 THEN start ELSE Fields(h[k - 1])]
<1> DEFINE Good(h, m) == h = [k \in 0..m |-> IF k = 0 THEN start ELSE Fields(h[k - 1])]
           T == {m \in Nat : \E h : Good(h, m)}
<1>1. 0 \in T
  <2> DEFINE h == [k \in 0..0 |-> start]
  <2>1. Good(h, 0)
    OBVIOUS
  <2> QED
    BY <2>1
<1>2. ASSUME NEW m \in Nat, m \in T PROVE m + 1 \in T
  <2>1. PICK f : Good(f, m)
    BY <1>2
  <2> DEFINE x == Fields(f[m])
             h == [k \in 0..(m + 1) |-> IF k = m + 1 THEN x ELSE f[k]]
  <2>2. ASSUME NEW k \in 0..(m + 1) PROVE h[k] = IF k = 0 THEN start ELSE Fields(h[k - 1])
    <3>1. CASE k = m + 1
      <4>1. h[k] = x /\ h[k - 1] = f[m] /\ k # 0
        BY <3>1
      <4> QED
        BY <4>1, Zenon
    <3>2. CASE k # m + 1
      <4>1. k \in 0..m /\ h[k] = f[k] /\ (k # 0 => h[k - 1] = f[k - 1])
        BY <3>2
      <4>2. f[k] = IF k = 0 THEN start ELSE Fields(f[k - 1])
        BY <2>1, <4>1
      <4> QED
        BY <4>1, <4>2, Zenon
    <3> QED
      BY <3>1, <3>2
  <2>3. h = [k \in 0..(m + 1) |-> h[k]]
    OBVIOUS
  <2> HIDE DEF h
  <2>4. Good(h, m + 1)
    BY <2>2, <2>3, Zenon
  <2> QED
    BY <2>4
<1> HIDE DEF T
<1>3. \A m \in Nat : m \in T
  BY <1>1, <1>2, Induction
<1> QED
  BY <1>3 DEF T

LEMMA ParsedAlong ==
    ASSUME NEW s \in Seq(STRING), NEW map
    PROVE  \E h : Parses(h, Stage(s, map, <<>>, FALSE, 0), Len(s)) /\ ParseFields(s, map) = Outcome(h[Len(s)].map, h[Len(s)].code)
<1> DEFINE n == Len(s)
           start == Stage(s, map, <<>>, FALSE, 0)
           Good(f) == f = [k \in 0..n |-> IF k = 0 THEN start ELSE Fields(f[k - 1])]
           g == CHOOSE f : Good(f)
<1>1. n \in Nat
  BY LenProperties, Zenon
<1>2. ParseFields(s, map) = Outcome(g[n].map, g[n].code)
  BY Zenon DEF ParseFields, Loop, Stage
<1> HIDE DEF start, n
<1>3. \E f : Good(f)
  BY <1>1, ParsesSome, Zenon
<1>4. Good(g)
  BY <1>3, Zenon
<1> HIDE DEF g
<1>5. g[0] = start /\ \A k \in 1..n : g[k] = Fields(g[k - 1])
  BY <1>1, <1>4
<1> QED
  BY <1>2, <1>5, Zenon DEF Parses, n, start

-----------------------------------------------------------------------------
(* What is taken for the body *)
Coded(map) == Value(map, <<"TRANSFER-ENCODING">>) = <<"chunked">>
Bodied(map, body, failure) == TakenBody(map, body, failure, <<>>)
LEMMA TakeChunks ==
    ASSUME NEW s, NEW map, NEW bound, Coded(map)
    PROVE  TakeBody(s, map, bound) = TakenBody(map, Decoded(s).data, Decoded(s).code, Decoded(s).left)
BY Zenon DEF TakeBody, Coded, Bodied

LEMMA TakeAll ==
    ASSUME NEW s, NEW map, ~Coded(map)
    PROVE  TakeBody(s, map, <<>>) = Bodied(map, s, 0)
BY Zenon DEF TakeBody, Coded, Bodied

(* A CRLF and the dashes before the boundary. *)
Ruled(z) == CRLF \o (<<"-", "-">> \o (<<"boundary">> \o z))
(* The part of a form: what stands before them. *)
LEMMA TakePart ==
    ASSUME NEW p \in Seq(STRING), p # <<>>, Lacks(p, "boundary"), NEW z \in Seq(STRING),
           NEW map, ~Coded(map)
    PROVE  TakeBody(p \o Ruled(z), map, <<"boundary">>) = Bodied(map, p, 0)
<1> DEFINE a == p \o CRLF
           d == <<"-", "-">>
           q == a \o d
           y == <<"boundary">> \o z
           s == p \o Ruled(z)
           n == Len(p)
<1>1. /\ "boundary" \in STRING /\ "-" \in STRING /\ CRLF \in Seq(STRING) /\ d \in Seq(STRING)
  BY WordsTyped, EndsTyped, Typed2, Zenon
<1>2. y \in Seq(STRING) /\ a \in Seq(STRING) /\ q \in Seq(STRING)
  BY <1>1, Typed1, JoinTyped, Zenon
<1>3. Len(CRLF) = 2 /\ Len(d) = 2
  BY DEF CRLF
<1>4. n \in Nat /\ Len(a) = n + Len(CRLF) /\ Len(q) = Len(a) + Len(d)
  BY <1>1, <1>2, JoinedLen, LenProperties, Zenon
<1>5. n > 0
  BY DEF n
<1>6. Lacks(q, "boundary")
  <2>1. Lacks(CRLF, "boundary") /\ Lacks(d, "boundary")
    BY DEF CRLF, Lacks
  <2> HIDE DEF d
  <2>2. Lacks(a, "boundary")
    BY <1>1, <2>1, LacksJoin, Zenon
  <2> HIDE DEF a
  <2> QED
    BY <1>1, <1>2, <2>1, <2>2, LacksJoin, Zenon
<1> HIDE DEF d
<1>7. s = q \o y /\ s \in Seq(STRING) /\ Ruled(z) \in Seq(STRING)
  <2> DEFINE w == d \o y
  <2>1. w \in Seq(STRING)
    BY <1>1, <1>2, JoinTyped, Zenon
  <2>2. (a \o d) \o y = a \o (d \o y)
    <3> HIDE DEF a, y
    <3> QED
      BY ONLY <1>1, <1>2, SMTT(30)
  <2> HIDE DEF w
  <2>3. (p \o CRLF) \o w = p \o (CRLF \o w)
    BY ONLY <1>1, <2>1, p \in Seq(STRING)
  <2>4. s = q \o y
    BY <2>2, <2>3, Zenon DEF w, Ruled, d
  <2>5. CRLF \o w \in Seq(STRING)
    BY <1>1, <2>1, JoinTyped, Zenon
  <2>6. Ruled(z) \in Seq(STRING)
    BY <2>5, Zenon DEF w, Ruled, d
  <2> QED
    BY <2>4, <2>6, JoinTyped, Zenon
<1>8. Find(q \o y, "boundary") = Len(q) + 1
  <2> HIDE DEF q
  <2>1. Splits(q \o y, "boundary", q, z)
    BY <1>1, <1>2, <1>6, SplitAt, Zenon
  <2> QED
    BY <2>1, Zenon DEF Splits
<1>9. SubSeq(s, 1, n) = p
  BY <1>7, Unjoined, Zenon
<1> HIDE DEF s, q, n
<1>10. Position(s, <<"boundary">>) = Len(q) + 1
  BY <1>1, <1>7, <1>8, PositionOf, Zenon
<1>11. /\ (Len(q) + 1) - 1 >= 5 /\ ((Len(q) + 1) - 1) - 4 = n /\ Len(q) + 1 # 0
  BY ONLY <1>3, <1>4, <1>5
<1>12. PartEndsAt(s, <<"boundary">>) = n
  BY <1>10, <1>11, Zenon DEF PartEndsAt
<1>13. <<"boundary">> # <<>>
  OBVIOUS
<1> QED
  BY <1>9, <1>10, <1>11, <1>12, <1>13, Zenon DEF TakeBody, Coded, Bodied, s

-----------------------------------------------------------------------------
(* The request line *)
LineText(method, target, version, x) ==
    <<method>> \o (<<" ">> \o (target \o (<<" ">> \o (<<version>> \o (CRLF \o x)))))
\* s is a line and x behind it.
LineParts(s, method, target, version, x) ==
    /\ Until(s, " ") = <<method>> /\ Until(After(s, " "), " ") = target
    /\ Until(After(After(s, " "), " "), "CR") = <<version>>
    /\ After(s, "LF") = x
LEMMA LineSplit ==
    ASSUME NEW method \in STRING, NEW target \in Seq(STRING), NEW version \in STRING,
           NEW x \in Seq(STRING), method \notin {" ", "LF"}, version \notin {"CR", "LF"},
           Lacks(target, " "), Lacks(target, "LF")
    PROVE  LineParts(LineText(method, target, version, x), method, target, version, x)
<1> DEFINE z == <<"LF">> \o x
           y == <<version>> \o (<<"CR">> \o z)
           t == target \o (<<" ">> \o y)
           s == <<method>> \o (<<" ">> \o t)
<1>1. /\ " " \in STRING /\ "CR" \in STRING /\ "LF" \in STRING /\ <<version>> \in Seq(STRING)
      /\ <<method>> \in Seq(STRING) /\ <<" ">> \in Seq(STRING) /\ <<"CR">> \in Seq(STRING)
      /\ <<"LF">> \in Seq(STRING)
  BY WordsTyped, Typed1, Zenon
<1>2. /\ Lacks(<<method>>, " ") /\ Lacks(<<version>>, "CR")
      /\ Lacks(<<method>>, "LF") /\ Lacks(<<" ">>, "LF") /\ Lacks(<<version>>, "LF") /\ Lacks(<<"CR">>, "LF")
  <2>1. "CR" # "LF" /\ " " # "LF"
    OBVIOUS
  <2> QED
    BY <2>1, Lacks1, Zenon
<1>3. CRLF \o x = <<"CR">> \o z
  <2> DEFINE a == <<"CR">>
             b == <<"LF">>
  <2>1. CRLF = a \o b
    BY TwoOnes, Zenon DEF CRLF
  <2>2. a \in Seq(STRING) /\ b \in Seq(STRING)
    BY <1>1
  <2> HIDE DEF a, b
  <2>3. (a \o b) \o x = a \o (b \o x)
    BY ONLY <2>2, x \in Seq(STRING)
  <2> QED
    BY <2>1, <2>3, Zenon DEF a, b
<1>4. z \in Seq(STRING) /\ y \in Seq(STRING) /\ t \in Seq(STRING)
  BY <1>1, JoinTyped, Zenon
<1>5. Leads(STRING, s, "LF", x)
  <2> DEFINE e == <<>>
  <2>1. e \in Seq(STRING) /\ e \o z = z /\ Lacks(e, "LF")
    <3>1. e \in Seq(STRING) /\ e \o z = z
      <4> HIDE DEF z
      <4> QED
        BY ONLY <1>4, EmptyBefore
    <3> QED
      BY <3>1, LacksNone, Zenon
  <2>2. Leads(STRING, e \o z, "LF", x)
    BY <1>1, <2>1, LeadsNow, Zenon
  <2>3. Leads(STRING, z, "LF", x)
    BY <2>1, <2>2, Zenon
  <2>4. Leads(STRING, y, "LF", x)
    BY <1>1, <1>2, <2>3, LeadsPast, Zenon
  <2>5. Leads(STRING, t, "LF", x)
    BY <1>1, <1>2, <2>4, LeadsPast, Zenon
  <2> QED
    BY <1>1, <1>2, <2>5, LeadsPast, Zenon
<1>6. Splits(s, " ", <<method>>, t)
  BY <1>1, <1>2, <1>4, SplitAt, Zenon
<1>7. Splits(t, " ", target, y)
  BY <1>1, <1>4, SplitAt, Zenon
<1>8. Splits(y, "CR", <<version>>, z)
  BY <1>1, <1>2, <1>4, SplitAt, Zenon
<1>9. LineText(method, target, version, x) = s
  BY <1>3, Zenon DEF LineText
<1>10. After(s, "LF") = x
  BY <1>1, <1>5, LeadsTo, Zenon
<1> QED
  BY <1>6, <1>7, <1>8, <1>9, <1>10, Zenon DEF Splits, LineParts

(* The path and the query of a target. *)
Asks(target, path, query) == Until(target, "?") = path /\ After(target, "?") = query
LEMMA TargetSplit ==
    ASSUME NEW path \in Seq(STRING), Lacks(path, "?"), NEW query \in Seq(STRING)
    PROVE  Asks(path \o (IF query = <<>> THEN <<>> ELSE <<"?">> \o query), path, query)
<1>1. CASE query = <<>>
  <2>1. path \o <<>> = path
    OBVIOUS
  <2>2. Until(path, "?") = path /\ After(path, "?") = <<>>
    BY SplitNone, Zenon
  <2> QED
    BY <1>1, <2>1, <2>2, Zenon DEF Asks
<1>2. CASE query # <<>>
  <2>1. Splits(path \o (<<"?">> \o query), "?", path, query)
    BY WordsTyped, SplitAt, Zenon
  <2> QED
    BY <1>2, <2>1, Zenon DEF Splits, Asks
<1> QED
  BY <1>1, <1>2, Zenon

LineKeys == {<<"method">>, <<"url">>, <<"args">>, <<"http">>}
Says(line, method, url, args, version) ==
    /\ DOMAIN line = LineKeys
    /\ line[<<"method">>] = method /\ line[<<"url">>] = url
    /\ line[<<"args">>] = args /\ line[<<"http">>] = version
LEMMA KeysApart ==
    /\ <<"method">> # <<"url">> /\ <<"method">> # <<"args">> /\ <<"method">> # <<"http">>
    /\ <<"url">> # <<"args">> /\ <<"url">> # <<"http">> /\ <<"args">> # <<"http">>
OBVIOUS

LEMMA LineRead ==
    ASSUME NEW s
    PROVE  LET target == Until(After(s, " "), " ")
           IN  Says(RequestLine(s), Until(s, " "), Until(target, "?"), After(target, "?"),
                    Until(After(After(s, " "), " "), "CR"))
<1> DEFINE target == Until(After(s, " "), " ")
           m == Until(s, " ")
           u == Until(target, "?")
           a == After(target, "?")
           v == Until(After(After(s, " "), " "), "CR")
<1>1. RequestLine(s) = [key \in LineKeys |->
                            CASE key = <<"method">> -> m
                              [] key = <<"url">> -> u
                              [] key = <<"args">> -> a
                              [] key = <<"http">> -> v]
  BY Zenon DEF RequestLine, LineKeys
<1> HIDE DEF m, u, a, v
<1>2. Says([key \in LineKeys |-> CASE key = <<"method">> -> m
                                   [] key = <<"url">> -> u
                                   [] key = <<"args">> -> a
                                   [] key = <<"http">> -> v], m, u, a, v)
  BY KeysApart DEF Says, LineKeys
<1> QED
  BY <1>1, <1>2, Zenon DEF m, u, a, v

-----------------------------------------------------------------------------
(* isFullyReceived: the scans *)

(* What Matched chooses is there: the pattern matches up to some symbol. *)
LEMMA MatchedSo ==
    ASSUME NEW s \in Seq(STRING), NEW i \in Nat \ {0}, NEW pattern \in Seq(STRING)
    PROVE  /\ Matched(s, i, pattern) \in 0..Len(pattern)
           /\ \A j \in 1..Matched(s, i, pattern) :
                  i + j - 1 <= Len(s) /\ s[i + j - 1] = pattern[j]
<1> DEFINE Same(j) == i + j - 1 <= Len(s) /\ s[i + j - 1] = pattern[j]
           bad == {j \in 1..Len(pattern) : ~Same(j)}
           Ends(k) == /\ \A j \in 1..k : i + j - 1 <= Len(s) /\ s[i + j - 1] = pattern[j]
                      /\ k < Len(pattern) => i + k > Len(s) \/ s[i + k] # pattern[k + 1]
<1>1. \E k \in 0..Len(pattern) : Ends(k)
  <2>1. CASE bad = {}
    <3>1. \A j \in 1..Len(pattern) : Same(j)
      BY <2>1
    <3>2. Len(pattern) \in 0..Len(pattern) /\ ~(Len(pattern) < Len(pattern))
      OBVIOUS
    <3>3. Ends(Len(pattern))
      BY <3>1, <3>2, Zenon
    <3> HIDE DEF Ends
    <3> QED
      BY <3>2, <3>3
  <2>2. CASE bad # {}
    <3>1. PICK n \in bad : \A k \in bad : n <= k
      <4>1. bad \subseteq Nat
        OBVIOUS
      <4> HIDE DEF bad
      <4> QED
        BY <2>2, <4>1, Least
    <3>2. n - 1 \in 0..Len(pattern) /\ i + (n - 1) = i + n - 1 /\ n - 1 + 1 = n
      BY <3>1
    <3>3. \A j \in 1..(n - 1) : Same(j)
      BY <3>1
    <3>4. ~Same(n)
      BY <3>1
    <3>5. Ends(n - 1)
      BY <3>2, <3>3, <3>4
    <3> QED
      BY <3>2, <3>5
  <2> QED
    BY <2>1, <2>2
<1>2. Matched(s, i, pattern) = CHOOSE k \in 0..Len(pattern) : Ends(k)
  BY DEF Matched
<1> DEFINE q == CHOOSE k \in 0..Len(pattern) : Ends(k)
<1>3. q \in 0..Len(pattern) /\ Ends(q)
  <2> HIDE DEF Ends
  <2> QED
    BY <1>1
<1> QED
  BY <1>2, <1>3

(* Where t stands in s. *)
At(s, p, t) == p + Len(t) - 1 <= Len(s) /\ \A j \in 1..Len(t) : s[p + j - 1] = t[j]
(* What a scan finds is the pattern. *)
LEMMA ScanFinds ==
    ASSUME NEW s \in Seq(STRING), NEW pattern \in Seq(STRING), Scan(s, pattern) # 0
    PROVE  Scan(s, pattern) \in 1..Len(s) /\ At(s, Scan(s, pattern), pattern)
<1> DEFINE Found(i) == i <= Len(s) /\ Matched(s, i, pattern) = Len(pattern)
           Turn(i) == IF i > Len(s) \/ Found(i) THEN i ELSE i + Matched(s, i, pattern) + 1
           n == Len(s)
           Good(f) == f = [k \in 0..n |-> IF k = 0 THEN 1 ELSE Turn(f[k - 1])]
           g == CHOOSE f : Good(f)
           S == Nat \ {0}
<1>1. Scan(s, pattern) = IF Found(g[n]) THEN g[n] ELSE 0
  BY DEF Scan, Loop
<1>2. \A i \in S : Turn(i) \in S
  <2> SUFFICES ASSUME NEW i \in S PROVE Turn(i) \in S
    OBVIOUS
  <2>1. Matched(s, i, pattern) \in Nat
    <3>1. Matched(s, i, pattern) \in 0..Len(pattern)
      BY MatchedSo
    <3> QED
      BY <3>1
  <2> QED
    BY <2>1
<1>n. n \in Nat
  OBVIOUS
<1> HIDE DEF Turn
<1>3. \E f : Good(f)
  <2> DEFINE F == [at \in S |-> Turn(at)]
  <2>0. F \in [S -> S]
    BY <1>2
  <2>1. PICK f \in [0..n -> S] : Run(f, F, 1, n)
    <3>1. 1 \in S
      OBVIOUS
    <3> HIDE DEF F, S
    <3> QED
      BY <2>0, <1>n, <3>1, Iterated
  <2>2. ASSUME NEW k \in 0..n, k # 0 PROVE f[k] = Turn(f[k - 1])
    <3>1. k \in 1..n /\ k - 1 \in 0..n
      BY <2>2
    <3> QED
     BY <3>1, <2>1 DEF Run
  <2>3. f[0] = 1
    BY <2>1 DEF Run
  <2>4. Good(f)
    BY <2>1, <2>2, <2>3, Zenon
  <2> QED
    BY <2>4
<1>4. Good(g)
  BY <1>3
<1> HIDE DEF g
<1>5. g[0] = 1 /\ \A k \in 1..n : g[k] = Turn(g[k - 1])
  BY <1>4
<1>6. \A k \in 0..n : g[k] \in S
  <2> DEFINE T == {k \in Nat : k <= n => g[k] \in S}
  <2>1. 0 \in T
    BY <1>5
  <2>2. ASSUME NEW k \in Nat, k \in T PROVE k + 1 \in T
    <3> SUFFICES ASSUME k + 1 <= n PROVE g[k + 1] \in S
      OBVIOUS
    <3>1. g[k] \in S /\ k + 1 \in 1..n /\ k + 1 - 1 = k
      BY <2>2
    <3> QED
      BY <3>1, <1>2, <1>5
  <2> HIDE DEF T
  <2>3. \A k \in Nat : k \in T
    BY <2>1, <2>2, Induction
  <2> QED
    BY <2>3 DEF T
<1>7. g[n] \in S
  BY <1>6, <1>n
<1>8. Found(g[n]) /\ Scan(s, pattern) = g[n]
  BY <1>1
<1>9. Matched(s, g[n], pattern) = Len(pattern) /\ g[n] <= Len(s)
  BY <1>8
<1>10. \A j \in 1..Len(pattern) : g[n] + j - 1 <= Len(s) /\ s[g[n] + j - 1] = pattern[j]
  <2>1. \A j \in 1..Matched(s, g[n], pattern) :
            g[n] + j - 1 <= Len(s) /\ s[g[n] + j - 1] = pattern[j]
    BY <1>7, MatchedSo
  <2> QED
    BY <2>1, <1>9, Zenon
<1>11. Len(pattern) \in Nat /\ (Len(pattern) > 0 => Len(pattern) \in 1..Len(pattern))
  OBVIOUS
<1> QED
  BY <1>7, <1>8, <1>9, <1>10, <1>11 DEF At

-----------------------------------------------------------------------------
(* What clients send *)
Field == [name : STRING, before : Seq(STRING), value : Seq(STRING), after : Seq(STRING)]
LEMMA MessageTyped ==
    ASSUME NEW m \in Messages
    PROVE  /\ m.framing \in Framings /\ m.chunks \in Seq(Seq(STRING))
           /\ m.method \in STRING /\ m.steps \in Seq(STRING)
           /\ m.query \in Seq(STRING) /\ m.version \in STRING
           /\ m.fields \in Seq(Field)
BY FramingAssumption DEF Field

LEMMA PayloadTyped ==
    ASSUME NEW m \in Messages
    PROVE  Payload(m) \in Seq(STRING)
BY MessageTyped, FlattenTyped DEF Payload

LEMMA PartTyped ==
    ASSUME NEW m \in Messages
    PROVE  Part(m) \in Seq(STRING)
<1>1. <<"-", "-", "boundary">> \in Seq(STRING)
  BY WordsTyped, Typed3, Zenon
<1>2. <<"disposition", ":", " ", "form-data">> \in Seq(STRING)
  BY WordsTyped, Typed4, Zenon
<1>3. <<"-", "-", "boundary", "-", "-">> \in Seq(STRING)
  BY WordsTyped, Typed5, Zenon
<1> QED
  BY <1>1, <1>2, <1>3, PayloadTyped, EndsTyped, JoinTyped, Zenon DEF Part

LEMMA ChunkTyped ==
    ASSUME NEW data \in Seq(STRING), Len(data) <= MaxNumber
    PROVE  Chunk(data) \in Seq(STRING)
<1>1. Len(data) \in 0..MaxNumber
  <2>1. MaxNumber \in Nat /\ Len(data) \in Nat
    BY MaxNumberTyped
  <2> QED
    BY <2>1
<1>2. ToString(Len(data)) \in STRING
  BY <1>1, TextAssumption
<1> QED
  BY <1>2, EndsTyped, Typed1, JoinTyped, Zenon DEF Chunk

LEMMA ChunkedTyped ==
    ASSUME NEW m \in Messages
    PROVE  Chunked(m) \in Seq(STRING)
<1> DEFINE cc == [k \in DOMAIN m.chunks |-> Chunk(m.chunks[k])]
<1>1. cc \in Seq(Seq(STRING))
  <2>1. m.chunks \in Seq(Seq(STRING))
    BY MessageTyped
  <2>2. ASSUME NEW k \in DOMAIN m.chunks PROVE Chunk(m.chunks[k]) \in Seq(STRING)
    <3>1. m.chunks[k] \in Seq(STRING)
      BY <2>1
    <3>2. Len(m.chunks[k]) <= MaxNumber
      BY SizesAssumption
    <3> QED
      BY <3>1, <3>2, ChunkTyped
  <2>3. DOMAIN m.chunks = 1..Len(m.chunks) /\ Len(m.chunks) \in Nat
    BY <2>1
  <2> QED
    BY <2>2, <2>3
<1>2. FlattenSeq(cc) \in Seq(STRING)
  BY <1>1, FlattenTyped
<1> HIDE DEF cc
<1>3. FlattenSeq(cc) \o <<"0">> \o BlankLine \in Seq(STRING)
  BY <1>2, EndsTyped, WordsTyped, Typed1, JoinTyped, Zenon
<1> QED
  BY <1>3 DEF Chunked, cc

LEMMA ContentSo ==
    ASSUME NEW m \in Messages
    PROVE  /\ m.framing = "none" => Content(m) = <<>>
           /\ m.framing = "length" => Content(m) = Payload(m)
           /\ m.framing = "form" => Content(m) = Part(m)
           /\ m.framing = "form, type last" => Content(m) = Part(m)
           /\ m.framing = "chunked" => Content(m) = Chunked(m)
BY DEF Content

LEMMA ContentTyped ==
    ASSUME NEW m \in Messages
    PROVE  Content(m) \in Seq(STRING)
<1>1. m.framing \in {"none", "length", "chunked", "form", "form, type last"}
  BY MessageTyped DEF Framings
<1>2. <<>> \in Seq(STRING)
  OBVIOUS
<1> QED
  BY <1>1, <1>2, ContentSo, PayloadTyped, PartTyped, ChunkedTyped

LEMMA PathTyped ==
    ASSUME NEW m \in Messages
    PROVE  Path(m) \in Seq(STRING)
<1> DEFINE pp == [k \in DOMAIN m.steps |-> <<"/", m.steps[k]>>]
<1>1. pp \in Seq(Seq(STRING))
  <2>1. m.steps \in Seq(STRING)
    BY MessageTyped
  <2>2. ASSUME NEW k \in DOMAIN m.steps PROVE <<"/", m.steps[k]>> \in Seq(STRING)
    <3>1. m.steps[k] \in STRING
      BY <2>1
    <3> QED
      BY <3>1, WordsTyped, Typed2, Zenon
  <2>3. DOMAIN m.steps = 1..Len(m.steps) /\ Len(m.steps) \in Nat
    BY <2>1
  <2> QED
    BY <2>2, <2>3
<1>2. FlattenSeq(pp) \in Seq(STRING)
  BY <1>1, FlattenTyped
<1> QED
  BY <1>2 DEF Path

LEMMA TargetTyped ==
    ASSUME NEW m \in Messages
    PROVE  Target(m) \in Seq(STRING)
<1>1. m.query \in Seq(STRING) /\ <<>> \in Seq(STRING) /\ Path(m) \in Seq(STRING)
  BY MessageTyped, PathTyped
<1> QED
  BY <1>1, WordsTyped, Typed1, JoinTyped, Zenon DEF Target

LEMMA LineTyped ==
    ASSUME NEW m \in Messages
    PROVE  Line(m) \in Seq(STRING)
BY TargetTyped, MessageTyped, WordsTyped, Typed2, JoinTyped, Zenon DEF Line

-----------------------------------------------------------------------------
(* The fields of a request *)

LEMMA PlainTyped ==
    ASSUME NEW name \in STRING, NEW value \in Seq(STRING)
    PROVE  Plain(name, value) \in Field
<1>1. <<>> \in Seq(STRING)
  OBVIOUS
<1>2. <<" ">> \in Seq(STRING)
  BY WordsTyped, Typed1, Zenon
<1> QED
  BY <1>1, <1>2 DEF Plain, Field

LEMMA SizedTyped ==
    ASSUME NEW m \in Messages
    PROVE  Sized(Content(m)) \in Field
<1>1. Len(Content(m)) \in Nat /\ Len(Content(m)) <= MaxNumber /\ MaxNumber \in Nat
  <2>1. Len(Content(m)) \in Nat
    BY ContentTyped
  <2>2. Len(Content(m)) <= MaxNumber
    BY SizesAssumption, Zenon
  <2> QED
    BY <2>1, <2>2, MaxNumberTyped
<1>2. Len(Content(m)) \in 0..MaxNumber
  BY <1>1
<1>3. ToString(Len(Content(m))) \in STRING
  BY <1>2, TextAssumption
<1>4. <<ToString(Len(Content(m)))>> \in Seq(STRING)
  BY <1>3, Typed1
<1> QED
  BY <1>4, PlainTyped, WordsTyped, Zenon DEF Sized

LEMMA MultipartTyped == Multipart \in Field
<1>1. <<"multipart", "boundary=", "boundary">> \in Seq(STRING)
  BY WordsTyped, Typed3, Zenon
<1> QED
  BY <1>1, PlainTyped, WordsTyped, Zenon DEF Multipart

LEMMA FieldsOfSo ==
    ASSUME NEW m \in Messages
    PROVE  /\ m.framing = "none" => FieldsOf(m) = m.fields \o <<>>
           /\ m.framing = "length" => FieldsOf(m) = m.fields \o <<Sized(Content(m))>>
           /\ m.framing = "form" => FieldsOf(m) = m.fields \o <<Multipart, Sized(Content(m))>>
           /\ m.framing = "form, type last" =>
                  FieldsOf(m) = m.fields \o <<Sized(Content(m)), Multipart>>
           /\ m.framing = "chunked" =>
                  FieldsOf(m) = m.fields \o <<Plain("Transfer-Encoding", <<"chunked">>)>>
BY ContentSo DEF FieldsOf

LEMMA FieldsOfTyped ==
    ASSUME NEW m \in Messages
    PROVE  FieldsOf(m) \in Seq(Field)
<1>1. m.framing \in {"none", "length", "chunked", "form", "form, type last"}
  BY MessageTyped DEF Framings
<1>2. m.fields \in Seq(Field) /\ Multipart \in Field /\ Sized(Content(m)) \in Field
  BY MessageTyped, MultipartTyped, SizedTyped
<1>3. Plain("Transfer-Encoding", <<"chunked">>) \in Field
  BY PlainTyped, WordsTyped, Typed1, Zenon
<1>4. \A f \in Field : \A g \in Field :
          /\ m.fields \o <<>> \in Seq(Field)
          /\ m.fields \o <<f>> \in Seq(Field) /\ m.fields \o <<f, g>> \in Seq(Field)
  <2> HIDE DEF Field
  <2> QED
    BY <1>2
<1> QED
  BY <1>1, <1>2, <1>3, <1>4, FieldsOfSo, Zenon

LEMMA SaidTyped ==
    ASSUME NEW f \in Field
    PROVE  Said(f) \in Seq(STRING)
<1>1. /\ f.name \in STRING /\ f.before \in Seq(STRING)
      /\ f.value \in Seq(STRING) /\ f.after \in Seq(STRING)
  BY DEF Field
<1> QED
  BY <1>1, EndsTyped, WordsTyped, Typed2, JoinTyped, Zenon DEF Said

LEMMA SaidEach ==
    ASSUME NEW ff \in Seq(Field)
    PROVE  [k \in DOMAIN ff |-> Said(ff[k])] \in Seq(Seq(STRING))
<1>1. \A k \in DOMAIN ff : Said(ff[k]) \in Seq(STRING)
  BY SaidTyped
<1> QED
  BY <1>1

LEMMA SaidAllTyped ==
    ASSUME NEW ff \in Seq(Field)
    PROVE  SaidAll(ff) \in Seq(STRING)
BY SaidEach, FlattenTyped DEF SaidAll

LEMMA SaidAllIn ==
    ASSUME NEW ff \in Seq(Field), NEW P \in SUBSET Seq(STRING), <<>> \in P,
           \A x \in P : \A y \in P : x \o y \in P,
           \A k \in DOMAIN ff : Said(ff[k]) \in P
    PROVE  SaidAll(ff) \in P
<1> DEFINE ss == [k \in DOMAIN ff |-> Said(ff[k])]
<1>0. ss \in Seq(Seq(STRING))
  BY SaidEach
<1>1. ss \in Seq(Seq(STRING)) /\ \A i \in 1..Len(ss) : ss[i] \in P
  <2>1. DOMAIN ss = DOMAIN ff /\ \A i \in DOMAIN ff : ss[i] \in P
    OBVIOUS
  <2> HIDE DEF ss
  <2>2. DOMAIN ss = 1..Len(ss)
    BY <1>0
  <2> QED
    BY <1>0, <2>1, <2>2, Zenon
<1> HIDE DEF ss
<1>2. FlattenSeq(ss) \in P
  BY <1>1, FlattenIn
<1> QED
  BY <1>2 DEF SaidAll, ss

LEMMA SaidConcat ==
    ASSUME NEW ff \in Seq(Field), NEW gg \in Seq(Field)
    PROVE  SaidAll(ff \o gg) = SaidAll(ff) \o SaidAll(gg)
<1> DEFINE Each(hh) == [k \in DOMAIN hh |-> Said(hh[k])]
<1>1. Each(ff) \in Seq(Seq(STRING)) /\ Each(gg) \in Seq(Seq(STRING))
  BY SaidEach
<1>2. Each(ff \o gg) = Each(ff) \o Each(gg)
  <2> HIDE DEF Field
  <2> QED
    OBVIOUS
<1> HIDE DEF Each
<1>3. FlattenSeq(Each(ff) \o Each(gg)) = FlattenSeq(Each(ff)) \o FlattenSeq(Each(gg))
  BY <1>1, FlattenConcat
<1>4. FlattenSeq(Each(ff \o gg)) = FlattenSeq(Each(ff)) \o FlattenSeq(Each(gg))
  BY <1>2, <1>3, Zenon
<1> QED
  BY <1>4 DEF SaidAll, Each

LEMMA SaidOne ==
    ASSUME NEW f \in Field
    PROVE  SaidAll(<<f>>) = Said(f)
<1>1. [k \in DOMAIN <<f>> |-> Said(<<f>>[k])] = <<Said(f)>>
  OBVIOUS
<1>2. FlattenSeq(<<Said(f)>>) = Said(f)
  BY SaidTyped, FlattenOne
<1> QED
  BY <1>1, <1>2, Zenon DEF SaidAll

LEMMA HeadingTyped ==
    ASSUME NEW m \in Messages
    PROVE  Heading(m) \in Seq(STRING)
BY LineTyped, FieldsOfTyped, SaidAllTyped DEF Heading

LEMMA BytesTyped ==
    ASSUME NEW m \in Messages
    PROVE  Bytes[m] \in Seq(STRING) /\ Bytes[m] = Heading(m) \o BlankLine \o Content(m)
BY HeadingTyped, ContentTyped, EndsTyped, JoinTyped, Zenon DEF Bytes

-----------------------------------------------------------------------------
(* Where the heading ends: the two ends of a line that isFullyReceived looks *)

(* for are found in nothing that comes before.                               *)
(* A line that begins goes on, with a name and a colon. *)
Lined(x) == \A p \in 1..Len(x) : x[p] = "CR" => p + 3 <= Len(x) /\ x[p + 2] # "CR"
LEMMA LinedJoin ==
    ASSUME NEW x \in Seq(STRING), NEW y \in Seq(STRING), Lined(x), Lined(y)
    PROVE  Lined(x \o y)
<1> SUFFICES ASSUME NEW p \in 1..Len(x \o y), (x \o y)[p] = "CR"
             PROVE  p + 3 <= Len(x \o y) /\ (x \o y)[p + 2] # "CR"
  BY DEF Lined
<1>1. CASE p <= Len(x)
  <2>1. p \in 1..Len(x) /\ x[p] = "CR"
    BY <1>1
  <2>2. p + 3 <= Len(x) /\ x[p + 2] # "CR"
    BY <2>1 DEF Lined
  <2> QED
    BY <2>1, <2>2
<1>2. CASE p > Len(x)
  <2>1. p - Len(x) \in 1..Len(y) /\ y[p - Len(x)] = "CR"
    BY <1>2
  <2>2. p - Len(x) + 3 <= Len(y) /\ y[p - Len(x) + 2] # "CR"
    BY <2>1 DEF Lined
  <2> QED
    BY <2>1, <2>2
<1> QED
  BY <1>1, <1>2

LEMMA LinedNone ==
    ASSUME NEW x \in Seq(STRING), \A i \in 1..Len(x) : x[i] # "CR"
    PROVE  Lined(x)
BY DEF Lined

LEMMA LinedName ==
    ASSUME NEW name \in STRING, name # "CR"
    PROVE  Lined(CRLF \o <<name, ":">>)
<1> DEFINE x == CRLF \o <<name, ":">>
<1>1. Len(x) = 4 /\ x[1] = "CR" /\ x[2] = "LF" /\ x[3] = name /\ x[4] = ":"
  BY DEF CRLF
<1> HIDE DEF x
<1>2. Lined(x)
  BY <1>1 DEF Lined
<1> QED
  BY <1>2 DEF x

(* A text within a line. *)
Unbroken(s) == \A i \in 1..Len(s) : s[i] # "CR" /\ s[i] # "LF"
Whole(f) ==
    /\ f.name # "CR" /\ f.name # "LF"
    /\ Unbroken(f.before) /\ Unbroken(f.value) /\ Unbroken(f.after)
LEMMA SaidLined ==
    ASSUME NEW f \in Field, Whole(f)
    PROVE  Lined(Said(f))
<1>1. /\ f.name \in STRING /\ f.before \in Seq(STRING)
      /\ f.value \in Seq(STRING) /\ f.after \in Seq(STRING)
  BY DEF Field
<1>2. Lined(CRLF \o <<f.name, ":">>) /\ CRLF \o <<f.name, ":">> \in Seq(STRING)
  BY <1>1, LinedName, EndsTyped, WordsTyped, Typed2, JoinTyped, Zenon DEF Whole
<1>3. Lined(f.before) /\ Lined(f.value) /\ Lined(f.after)
  BY <1>1, LinedNone DEF Whole, Unbroken
<1> QED
  BY <1>1, <1>2, <1>3, LinedJoin, JoinTyped, Zenon DEF Said

Chunking == Plain("Transfer-Encoding", <<"chunked">>)
LEMMA ContentSized ==
    ASSUME NEW m \in Messages
    PROVE  Len(Content(m)) \in 0..MaxNumber
<1>1. Len(Content(m)) \in Nat
  BY ContentTyped
<1>2. Len(Content(m)) <= MaxNumber
  BY SizesAssumption, Zenon
<1> QED
  BY <1>1, <1>2, MaxNumberTyped

LEMMA WholeOnes ==
    ASSUME NEW m \in Messages
    PROVE  Whole(Multipart) /\ Whole(Chunking) /\ Whole(Sized(Content(m)))
<1>1. ToString(Len(Content(m))) # "CR" /\ ToString(Len(Content(m))) # "LF"
  BY ContentSized, NumeralSo
<1>2. ASSUME NEW x, x # "CR", x # "LF" PROVE Unbroken(<<x>>)
  BY <1>2 DEF Unbroken
<1>3. Unbroken(<<>>) /\ Unbroken(<<"multipart", "boundary=", "boundary">>)
  BY DEF Unbroken
<1>4. Unbroken(<<" ">>) /\ Unbroken(<<"chunked">>) /\ Unbroken(<<ToString(Len(Content(m)))>>)
  BY <1>1, <1>2
<1> QED
  BY <1>3, <1>4 DEF Whole, Multipart, Chunking, Sized, Plain

LEMMA EachField ==
    ASSUME NEW m \in Messages, NEW k \in DOMAIN FieldsOf(m)
    PROVE  \/ FieldsOf(m)[k] \in {Multipart, Sized(Content(m)), Chunking}
           \/ \E j \in DOMAIN m.fields : FieldsOf(m)[k] = m.fields[j]
<1>1. m.framing \in {"none", "length", "chunked", "form", "form, type last"}
  BY MessageTyped DEF Framings
<1>2. m.fields \in Seq(Field)
  BY MessageTyped
<1>3. \E ff \in {<<>>, <<Sized(Content(m))>>, <<Chunking>>, <<Multipart, Sized(Content(m))>>,
                 <<Sized(Content(m)), Multipart>>} : FieldsOf(m) = m.fields \o ff
  BY <1>1, FieldsOfSo, Zenon DEF Chunking
<1>4. PICK ff \in {<<>>, <<Sized(Content(m))>>, <<Chunking>>, <<Multipart, Sized(Content(m))>>,
                   <<Sized(Content(m)), Multipart>>} : FieldsOf(m) = m.fields \o ff
  BY <1>3
<1> DEFINE A == {Multipart, Sized(Content(m)), Chunking}
<1>5. ff \in Seq(A)
  <2>1. \A a \in A : \A b \in A : <<>> \in Seq(A) /\ <<a>> \in Seq(A) /\ <<a, b>> \in Seq(A)
    <3> HIDE DEF A
    <3> QED
      OBVIOUS
  <2>2. Multipart \in A /\ Sized(Content(m)) \in A /\ Chunking \in A
    OBVIOUS
  <2> HIDE DEF A
  <2> QED
    BY <1>4, <2>1, <2>2, Zenon
<1> HIDE DEF A, Field
<1>6. CASE k <= Len(m.fields)
  BY <1>2, <1>4, <1>5, <1>6
<1>7. CASE ~(k <= Len(m.fields))
  <2>1. FieldsOf(m)[k] \in A
    BY <1>2, <1>4, <1>5, <1>7
  <2> QED
    BY <2>1 DEF A
<1> QED
  BY <1>6, <1>7

LEMMA FramedField ==
    ASSUME NEW m \in Messages, Framed(m), NEW j \in DOMAIN m.fields
    PROVE  /\ m.fields[j] \in Field /\ Whole(m.fields[j])
           /\ Quiet(m.fields[j].name) /\ Mute(m.fields[j].before)
           /\ Mute(m.fields[j].value) /\ Mute(m.fields[j].after)
<1> DEFINE f == m.fields[j]
<1>1. f \in Field
  BY MessageTyped
<1>2. Mute(<<f.name>>) /\ Mute(f.before) /\ Mute(f.value) /\ Mute(f.after)
  BY DEF Framed
<1> HIDE DEF f
<1>3. Quiet(f.name)
  BY <1>2 DEF Mute
<1>4. ASSUME NEW s \in Seq(STRING), Mute(s) PROVE Unbroken(s)
  BY <1>4 DEF Mute, Quiet, Unbroken
<1>5. f.before \in Seq(STRING) /\ f.value \in Seq(STRING) /\ f.after \in Seq(STRING)
  BY <1>1 DEF Field
<1>6. Whole(f)
  BY <1>2, <1>3, <1>4, <1>5 DEF Whole, Quiet
<1> QED
  BY <1>1, <1>2, <1>3, <1>6 DEF f

LEMMA HeadingLined ==
    ASSUME NEW m \in Messages, Framed(m)
    PROVE  Lined(Heading(m))
<1> DEFINE P == {x \in Seq(STRING) : Lined(x)}
<1>1. ASSUME NEW k \in DOMAIN FieldsOf(m) PROVE Said(FieldsOf(m)[k]) \in P
  <2>1. Whole(FieldsOf(m)[k])
    <3>1. ASSUME NEW j \in DOMAIN m.fields PROVE Whole(m.fields[j])
      BY FramedField
    <3> QED
      BY <3>1, EachField, WholeOnes
  <2>2. FieldsOf(m)[k] \in Field
    BY FieldsOfTyped
  <2> QED
    BY <2>1, <2>2, SaidLined, SaidTyped
<1>2. <<>> \in P
  BY DEF Lined
<1>3. \A x \in P : \A y \in P : x \o y \in P
  BY LinedJoin, JoinTyped
<1>4. P \in SUBSET Seq(STRING)
  OBVIOUS
<1>5. SaidAll(FieldsOf(m)) \in P
  <2> HIDE DEF P
  <2> QED
    BY <1>1, <1>2, <1>3, <1>4, FieldsOfTyped, SaidAllIn
<1>6. Line(m) \in P
  <2>1. \A i \in 1..Len(Line(m)) : Line(m)[i] # "CR"
    BY LineTyped DEF Framed, Mute, Quiet
  <2> QED
    BY <2>1, LineTyped, LinedNone
<1>7. Line(m) \o SaidAll(FieldsOf(m)) \in P
  BY <1>3, <1>5, <1>6
<1> QED
  BY <1>7 DEF Heading

LEMMA EndsSo ==
    /\ Len(CRLF) = 2 /\ CRLF[1] = "CR" /\ CRLF[2] = "LF"
    /\ Len(BlankLine) = 4 /\ BlankLine[1] = "CR" /\ BlankLine[2] = "LF"
    /\ BlankLine[3] = "CR" /\ BlankLine[4] = "LF"
    /\ LastChunk \in Seq(STRING) /\ Len(LastChunk) = 7 /\ LastChunk[1] = "CR"
    /\ LastChunk[2] = "LF" /\ LastChunk[3] = "0" /\ LastChunk[4] = "CR"
    /\ LastChunk[5] = "LF" /\ LastChunk[6] = "CR" /\ LastChunk[7] = "LF"
<1>1. Len(CRLF) = 2 /\ CRLF[1] = "CR" /\ CRLF[2] = "LF"
  BY DEF CRLF
<1>2. /\ Len(BlankLine) = 4 /\ BlankLine[1] = "CR" /\ BlankLine[2] = "LF"
      /\ BlankLine[3] = "CR" /\ BlankLine[4] = "LF"
  BY DEF BlankLine, CRLF
<1>3. /\ Len(LastChunk) = 7 /\ LastChunk[1] = "CR"
      /\ LastChunk[2] = "LF" /\ LastChunk[3] = "0" /\ LastChunk[4] = "CR"
      /\ LastChunk[5] = "LF" /\ LastChunk[6] = "CR" /\ LastChunk[7] = "LF"
  BY DEF LastChunk, BlankLine, CRLF
<1>4. LastChunk \in Seq(STRING)
  BY EndsTyped, WordsTyped, Typed1, JoinTyped, Zenon DEF LastChunk
<1> QED
  BY <1>1, <1>2, <1>3, <1>4

LEMMA BlankAfter ==
    ASSUME NEW h \in Seq(STRING), NEW c \in Seq(STRING), Lined(h), NEW p \in Nat \ {0},
           At(h \o BlankLine \o c, p, BlankLine)
    PROVE  p > Len(h)
<1> SUFFICES ASSUME p <= Len(h) PROVE FALSE
  OBVIOUS
<1> DEFINE t == h \o BlankLine \o c
<1>1. t[p] = "CR" /\ t[p + 2] = "CR"
  <2>1. \A j \in 1..4 : t[p + j - 1] = BlankLine[j]
    BY EndsSo DEF At
  <2> HIDE DEF t
  <2>2. t[p + 1 - 1] = BlankLine[1] /\ t[p + 3 - 1] = BlankLine[3]
    BY <2>1
  <2>3. p + 1 - 1 = p /\ p + 3 - 1 = p + 2
    OBVIOUS
  <2> QED
    BY <2>2, <2>3, EndsSo
<1>2. \A i \in 1..Len(h) : t[i] = h[i]
  BY EndsTyped
<1> HIDE DEF t
<1>3. p \in 1..Len(h) /\ h[p] = "CR"
  BY <1>1, <1>2
<1>4. p + 2 \in 1..Len(h) /\ h[p + 2] # "CR"
  BY <1>3 DEF Lined
<1> QED
  BY <1>1, <1>2, <1>4

LEMMA LastAfter ==
    ASSUME NEW h \in Seq(STRING), NEW c \in Seq(STRING), Lined(h), NEW p \in Nat \ {0},
           At(h \o BlankLine \o c, p, LastChunk)
    PROVE  p - Len(h) - 2 \in Nat \ {0} /\ At(CRLF \o c, p - Len(h) - 2, LastChunk)
<1> DEFINE t == h \o BlankLine \o c
           u == CRLF \o c
<1>1. \A j \in 1..7 : t[p + j - 1] = LastChunk[j]
  BY EndsSo DEF At
<1>2. \A i \in 1..Len(h) : t[i] = h[i]
  BY EndsTyped
<1>b. Len(BlankLine) = 4 /\ BlankLine \in Seq(STRING) /\ Len(CRLF) = 2 /\ CRLF \in Seq(STRING)
  BY EndsTyped, EndsSo
<1>a. /\ \A i \in 1..4 : t[Len(h) + i] = BlankLine[i]
      /\ Len(t) = Len(h) + 4 + Len(c) /\ t \in Seq(STRING)
  <2> DEFINE v == h \o BlankLine
  <2>1. /\ v \in Seq(STRING) /\ Len(v) = Len(h) + 4
        /\ \A i \in 1..4 : v[Len(h) + i] = BlankLine[i]
    <3>1. /\ h \o BlankLine \in Seq(STRING) /\ Len(h \o BlankLine) = Len(h) + Len(BlankLine)
          /\ \A i \in 1..Len(BlankLine) : (h \o BlankLine)[Len(h) + i] = BlankLine[i]
      <4>1. BlankLine \in Seq(STRING)
        BY <1>b
      <4> QED
        BY ONLY <4>1, h \in Seq(STRING), JoinTyped, JoinedLen, JoinedBefore, JoinedAfter
    <3> QED
      BY <1>b, <3>1, Zenon
  <2> HIDE DEF v
  <2>2. /\ v \o c \in Seq(STRING) /\ Len(v \o c) = Len(v) + Len(c)
        /\ \A i \in 1..Len(v) : (v \o c)[i] = v[i]
    BY <2>1, JoinTyped, JoinedLen, JoinedBefore, JoinedAfter
  <2>3. \A i \in 1..4 : (v \o c)[Len(h) + i] = v[Len(h) + i]
    BY <2>1, <2>2
  <2> QED
    BY <2>1, <2>2, <2>3 DEF v
<1>3. /\ t[Len(h) + 1] = "CR" /\ t[Len(h) + 2] = "LF" /\ t[Len(h) + 3] = "CR"
      /\ Len(t) = Len(h) + 4 + Len(c) /\ t \in Seq(STRING)
  <2> HIDE DEF t
  <2> QED
    BY <1>a, EndsSo
<1>5. Len(u) = Len(c) + 2 /\ u \in Seq(STRING)
  <2>1. u \in Seq(STRING) /\ Len(u) = Len(CRLF) + Len(c)
    BY <1>b, JoinTyped, JoinedLen, JoinedBefore, JoinedAfter, Zenon
  <2> HIDE DEF u
  <2>2. Len(c) \in Nat
    OBVIOUS
  <2> QED
    BY <1>b, <2>1, <2>2
<1>4. \A i \in 1..Len(u) : t[Len(h) + 2 + i] = u[i]
  <2> DEFINE v == h \o BlankLine
  <2>1. v \in Seq(STRING) /\ Len(v) = Len(h) + 4 /\ Len(h) \in Nat /\ Len(c) \in Nat
    <3>1. v \in Seq(STRING) /\ Len(v) = Len(h) + Len(BlankLine)
      BY <1>b, JoinTyped, JoinedLen, JoinedBefore, JoinedAfter, Zenon
    <3> HIDE DEF v
    <3> QED
      BY <1>b, <3>1, LenProperties, Zenon
  <2>2. t = v \o c
    OBVIOUS
  <2> HIDE DEF v, t
  <2>3. \A i \in 1..Len(c) : t[Len(v) + i] = c[i]
    BY <2>1, <2>2, JoinTyped, JoinedLen, JoinedBefore, JoinedAfter
  <2>4. \A i \in 1..Len(c) : u[2 + i] = c[i]
    <3>0. CRLF \in Seq(STRING) /\ c \in Seq(STRING)
      BY <1>b
    <3>1. \A i \in 1..Len(c) : u[Len(CRLF) + i] = c[i]
      BY ONLY <3>0, JoinedAfter
    <3> HIDE DEF u
    <3> QED
      BY <1>b, <3>1, Zenon
  <2>5. u[1] = "CR" /\ u[2] = "LF"
    <3>1. \A i \in 1..Len(CRLF) : u[i] = CRLF[i]
      BY <1>b, JoinTyped, JoinedLen, JoinedBefore, JoinedAfter, Zenon
    <3> HIDE DEF u
    <3>2. 1 \in 1..Len(CRLF) /\ 2 \in 1..Len(CRLF)
      BY <1>b
    <3> QED
      BY <3>1, <3>2, EndsSo, Zenon
  <2>6. t[Len(h) + 3] = "CR" /\ t[Len(h) + 4] = "LF"
    BY <1>a, EndsSo
  <2> HIDE DEF u
  <2> SUFFICES ASSUME NEW i \in 1..Len(u) PROVE t[Len(h) + 2 + i] = u[i]
    OBVIOUS
  <2>7. CASE i = 1
    BY <2>1, <2>5, <2>6, <2>7
  <2>8. CASE i = 2
    BY <2>1, <2>5, <2>6, <2>8
  <2>9. CASE i > 2
    <3>1. i - 2 \in 1..Len(c) /\ 2 + (i - 2) = i /\ Len(v) + (i - 2) = Len(h) + 2 + i
      BY <1>5, <2>1, <2>9
    <3>2. t[Len(v) + (i - 2)] = c[i - 2] /\ u[2 + (i - 2)] = c[i - 2]
      BY <2>3, <2>4, <3>1
    <3> QED
      BY <3>1, <3>2
  <2>10. i = 1 \/ i = 2 \/ i > 2
    BY <1>5, <2>1
  <2> QED
    BY <2>7, <2>8, <2>9, <2>10
<1>6. p + 6 <= Len(t)
  BY EndsSo DEF At
<1> HIDE DEF t, u
<1>7. /\ t[p] = "CR" /\ t[p + 1] = "LF" /\ t[p + 2] = "0" /\ t[p + 3] = "CR"
      /\ t[p + 5] = "CR"
  <2>1. /\ t[p + 1 - 1] = "CR" /\ t[p + 2 - 1] = "LF" /\ t[p + 3 - 1] = "0"
        /\ t[p + 4 - 1] = "CR" /\ t[p + 6 - 1] = "CR"
    BY <1>1, EndsSo
  <2> QED
    BY <2>1
<1>8. p > Len(h)
  <2> SUFFICES ASSUME p <= Len(h) PROVE FALSE
    OBVIOUS
  <2>1. p + 3 <= Len(h)
    BY <1>2, <1>7 DEF Lined
  <2>2. h[p + 3] = "CR"
    BY <1>2, <1>7, <2>1
  <2>3. p + 5 <= Len(h) /\ h[p + 5] # "CR"
    BY <2>1, <2>2 DEF Lined
  <2> QED
    BY <1>2, <1>7, <2>3
<1>9. p # Len(h) + 1 /\ p # Len(h) + 2
  BY <1>3, <1>7
<1>10. p - Len(h) - 2 \in Nat \ {0} /\ Len(h) \in Nat
  BY <1>8, <1>9
<1>11. ASSUME NEW j \in 1..7 PROVE u[p - Len(h) - 2 + j - 1] = LastChunk[j]
  <2>1. p - Len(h) - 2 + j - 1 \in 1..Len(u)
    BY <1>3, <1>5, <1>6, <1>10
  <2>2. Len(h) + 2 + (p - Len(h) - 2 + j - 1) = p + j - 1
    OBVIOUS
  <2> QED
    BY <1>1, <1>4, <2>1, <2>2
<1>12. p - Len(h) - 2 + 7 - 1 <= Len(u)
  BY <1>3, <1>5, <1>6, <1>10
<1>13. At(u, p - Len(h) - 2, LastChunk)
  BY <1>11, <1>12, EndsSo DEF At
<1> QED
  BY <1>10, <1>13 DEF u

LEMMA AtPrefix ==
    ASSUME NEW s \in Seq(STRING), NEW w \in Seq(STRING), NEW p \in Nat \ {0},
           NEW t \in Seq(STRING), At(s, p, t)
    PROVE  At(s \o w, p, t)
<1>1. p + Len(t) - 1 <= Len(s) /\ \A j \in 1..Len(t) : s[p + j - 1] = t[j]
  BY DEF At
<1>2. \A i \in 1..Len(s) : (s \o w)[i] = s[i]
  OBVIOUS
<1>3. ASSUME NEW j \in 1..Len(t) PROVE p + j - 1 \in 1..Len(s)
  BY <1>1
<1>4. Len(s) <= Len(s \o w)
  OBVIOUS
<1>5. p + Len(t) - 1 <= Len(s \o w)
  BY <1>1, <1>4
<1>6. \A j \in 1..Len(t) : (s \o w)[p + j - 1] = t[j]
  BY <1>1, <1>2, <1>3
<1> QED
  BY <1>5, <1>6 DEF At

-----------------------------------------------------------------------------
(* Where a heading says how the request is framed *)
Framers == {"CONTENT-LENGTH", "TRANSFER-ENCODING"}
Silent(x, name) == \A i \in 1..Len(x) : Upper(x[i]) # name
LEMMA SilentJoin ==
    ASSUME NEW x \in Seq(STRING), NEW y \in Seq(STRING), NEW name,
           Silent(x, name), Silent(y, name)
    PROVE  Silent(x \o y, name)
<1> SUFFICES ASSUME NEW i \in 1..Len(x \o y) PROVE Upper((x \o y)[i]) # name
  BY DEF Silent
<1>1. CASE i <= Len(x)
  <2>1. i \in 1..Len(x) /\ (x \o y)[i] = x[i]
    BY <1>1
  <2> QED
    BY <2>1 DEF Silent
<1>2. CASE i > Len(x)
  <2>1. i - Len(x) \in 1..Len(y) /\ (x \o y)[i] = y[i - Len(x)]
    BY <1>2
  <2> QED
    BY <2>1 DEF Silent
<1> QED
  BY <1>1, <1>2

LEMMA Silent1 ==
    ASSUME NEW x, NEW name, Upper(x) # name
    PROVE  Silent(<<x>>, name)
BY DEF Silent

LEMMA Silent2 ==
    ASSUME NEW x, NEW y, NEW name, Upper(x) # name, Upper(y) # name
    PROVE  Silent(<<x, y>>, name)
BY DEF Silent

LEMMA SaidSilent ==
    ASSUME NEW f \in Field, NEW name \in Framers, Upper(f.name) # name,
           Silent(f.before, name), Silent(f.value, name), Silent(f.after, name)
    PROVE  Silent(Said(f), name)
<1>1. /\ f.name \in STRING /\ f.before \in Seq(STRING)
      /\ f.value \in Seq(STRING) /\ f.after \in Seq(STRING)
  BY DEF Field
<1>2. Upper("CR") # name /\ Upper("LF") # name /\ Upper(":") # name
  BY UpperSo DEF Framers
<1>3. Silent(CRLF, name) /\ Silent(<<f.name, ":">>, name)
  BY <1>2, Silent2, Zenon DEF CRLF
<1> QED
  BY <1>1, <1>3, SilentJoin, EndsTyped, WordsTyped, Typed2, JoinTyped, Zenon DEF Said

(* What a request says of itself. *)
Own(m) == Line(m) \o SaidAll(m.fields)
LEMMA OwnSilent ==
    ASSUME NEW m \in Messages, Framed(m), NEW name \in Framers
    PROVE  Own(m) \in Seq(STRING) /\ Silent(Own(m), name)
<1> DEFINE P == {x \in Seq(STRING) : Silent(x, name)}
<1>0. ASSUME NEW s \in Seq(STRING), Mute(s) PROVE Silent(s, name)
  BY <1>0 DEF Mute, Quiet, Silent, Framers
<1>1. ASSUME NEW k \in DOMAIN m.fields PROVE Said(m.fields[k]) \in P
  <2> DEFINE f == m.fields[k]
  <2>1. /\ f \in Field /\ Quiet(f.name) /\ Mute(f.before) /\ Mute(f.value) /\ Mute(f.after)
    BY FramedField
  <2> HIDE DEF f
  <2>2. f.before \in Seq(STRING) /\ f.value \in Seq(STRING) /\ f.after \in Seq(STRING)
    BY <2>1 DEF Field
  <2>3. Upper(f.name) # name
    BY <2>1 DEF Quiet, Framers
  <2>4. Silent(Said(f), name)
    BY <1>0, <2>1, <2>2, <2>3, SaidSilent
  <2> QED
    BY <2>1, <2>4, SaidTyped DEF f
<1>2. <<>> \in P
  BY DEF Silent
<1>3. \A x \in P : \A y \in P : x \o y \in P
  BY SilentJoin, JoinTyped
<1>4. P \in SUBSET Seq(STRING)
  OBVIOUS
<1>5. SaidAll(m.fields) \in P
  <2>1. m.fields \in Seq(Field)
    BY MessageTyped
  <2> HIDE DEF P
  <2> QED
    BY <1>1, <1>2, <1>3, <1>4, <2>1, SaidAllIn
<1>6. Line(m) \in P
  BY <1>0, LineTyped DEF Framed
<1>7. Line(m) \o SaidAll(m.fields) \in P
  BY <1>3, <1>5, <1>6
<1> QED
  BY <1>7 DEF Own

LEMMA MultipartSilent ==
    ASSUME NEW name \in Framers
    PROVE  Silent(Said(Multipart), name)
<1> DEFINE f == Multipart
<1>1. /\ f.name = "Content-Type" /\ f.before = <<" ">>
      /\ f.value = <<"multipart", "boundary=", "boundary">> /\ f.after = <<>>
  BY DEF Multipart, Plain
<1>2. f \in Field
  BY MultipartTyped
<1>3. ASSUME NEW a, NEW b, NEW c, Upper(a) # name, Upper(b) # name, Upper(c) # name
      PROVE  Silent(<<a, b, c>>, name)
  BY <1>3 DEF Silent
<1>4. /\ Upper(" ") # name /\ Upper("multipart") # name /\ Upper("boundary=") # name
      /\ Upper("boundary") # name /\ Upper("Content-Type") # name
  BY UpperSo DEF Framers
<1>5. Silent(<<>>, name)
  BY DEF Silent
<1> HIDE DEF f
<1>6. /\ Upper(f.name) # name /\ Silent(f.before, name)
      /\ Silent(f.value, name) /\ Silent(f.after, name)
  BY <1>1, <1>3, <1>4, <1>5, Silent1, Zenon
<1> QED
  BY <1>2, <1>6, SaidSilent, Zenon DEF f

LEMMA SaidTwo ==
    ASSUME NEW f \in Field, NEW g \in Field
    PROVE  SaidAll(<<f, g>>) = Said(f) \o Said(g)
<1>1. <<f, g>> = <<f>> \o <<g>>
  BY TwoOnes
<1>2. <<f>> \in Seq(Field) /\ <<g>> \in Seq(Field)
  BY Typed1
<1> QED
  BY <1>1, <1>2, SaidConcat, SaidOne, Zenon

LEMMA HeadingSo ==
    ASSUME NEW m \in Messages
    PROVE  /\ m.framing = "none" => Heading(m) = Own(m)
           /\ m.framing = "length" => Heading(m) = Own(m) \o Said(Sized(Content(m)))
           /\ m.framing = "form" =>
                  Heading(m) = Own(m) \o (Said(Multipart) \o Said(Sized(Content(m))))
           /\ m.framing = "form, type last" =>
                  Heading(m) = Own(m) \o (Said(Sized(Content(m))) \o Said(Multipart))
           /\ m.framing = "chunked" => Heading(m) = Own(m) \o Said(Chunking)
<1>1. m.fields \in Seq(Field) /\ Line(m) \in Seq(STRING)
  BY MessageTyped, LineTyped
<1>2. ASSUME NEW ff \in Seq(Field)
      PROVE  Line(m) \o SaidAll(m.fields \o ff) = Own(m) \o SaidAll(ff)
  <2>1. SaidAll(m.fields) \in Seq(STRING) /\ SaidAll(ff) \in Seq(STRING)
    BY <1>1, SaidAllTyped
  <2>2. SaidAll(m.fields \o ff) = SaidAll(m.fields) \o SaidAll(ff)
    BY <1>1, SaidConcat
  <2>3. Line(m) \o (SaidAll(m.fields) \o SaidAll(ff)) = (Line(m) \o SaidAll(m.fields)) \o SaidAll(ff)
    BY ONLY <1>1, <2>1
  <2> QED
    BY <2>2, <2>3, Zenon DEF Own
<1>3. /\ Sized(Content(m)) \in Field /\ Multipart \in Field /\ Chunking \in Field
  BY SizedTyped, MultipartTyped, PlainTyped, WordsTyped, Typed1, Zenon DEF Chunking
<1>4. m.framing = "none" => Heading(m) = Own(m)
  BY <1>1, FieldsOfSo, ConcatEmptySeq, Zenon DEF Heading, Own
<1>5. \A f \in Field : Line(m) \o SaidAll(m.fields \o <<f>>) = Own(m) \o Said(f)
  BY <1>2, SaidOne, Typed1, Zenon
<1>6. \A f, g \in Field : Line(m) \o SaidAll(m.fields \o <<f, g>>) = Own(m) \o (Said(f) \o Said(g))
  BY <1>2, SaidTwo, Typed2, Zenon
<1> QED
  BY <1>3, <1>4, <1>5, <1>6, FieldsOfSo, Zenon DEF Heading, Chunking

LEMMA MentionedFirst ==
    ASSUME NEW s \in Seq(STRING), NEW name
    PROVE  /\ Mentioned(s, name) \in 0..Len(s)
           /\ Mentioned(s, name) = 0 => Silent(s, name)
           /\ Mentioned(s, name) # 0 =>
                  /\ Upper(s[Mentioned(s, name)]) = name
                  /\ \A j \in 1..(Mentioned(s, name) - 1) : Upper(s[j]) # name
<1> DEFINE I == {i \in 1..Len(s) : Upper(s[i]) = name}
<1>1. CASE I = {}
  BY <1>1 DEF Mentioned, SelectInSeq, Silent
<1>2. CASE I # {}
  <2>1. PICK n \in I : \A m \in I : n <= m
    <3>1. I \subseteq Nat
      OBVIOUS
    <3> HIDE DEF I
    <3> QED
      BY <1>2, <3>1, Least
  <2>2. Mentioned(s, name) \in I /\ \A m \in I : Mentioned(s, name) <= m
    <3>1. Mentioned(s, name) = CHOOSE k \in I : \A m \in I : k <= m
      BY <1>2 DEF Mentioned, SelectInSeq, Min
    <3> HIDE DEF I
    <3> QED
      BY <2>1, <3>1
  <2> QED
    BY <2>2
<1> QED
  BY <1>1, <1>2

FirstAt(s, name, n) ==
    n \in 1..Len(s) /\ Upper(s[n]) = name /\ \A j \in 1..(n - 1) : Upper(s[j]) # name
LEMMA MentionedAt ==
    ASSUME NEW s \in Seq(STRING), NEW name, NEW n, FirstAt(s, name, n)
    PROVE  Mentioned(s, name) = n
BY MentionedFirst DEF Silent, FirstAt

LEMMA SizedSo ==
    ASSUME NEW c \in Seq(STRING), ToString(Len(c)) \in STRING
    PROVE  LET x == Said(Sized(c))
           IN  /\ x \in Seq(STRING) /\ Len(x) = 6 /\ x[1] = "CR" /\ x[2] = "LF"
               /\ x[3] = "Content-Length" /\ x[4] = ":" /\ x[5] = " "
               /\ x[6] = ToString(Len(c))
<1> DEFINE n == ToString(Len(c))
<1>1. Said(Sized(c)) = CRLF \o <<"Content-Length", ":">> \o <<" ">> \o <<n>> \o <<>>
  BY DEF Said, Sized, Plain
<1> HIDE DEF n
<1>2. CRLF \o <<"Content-Length", ":">> \o <<" ">> \o <<n>>
          = <<"CR", "LF", "Content-Length", ":", " ", n>>
  <2>1. CRLF \o <<"Content-Length", ":">> = <<"CR", "LF", "Content-Length", ":">>
    BY TwoTwos DEF CRLF
  <2> HIDE DEF n
  <2>2. <<"CR", "LF", "Content-Length", ":">> \o <<" ">> = <<"CR", "LF", "Content-Length", ":", " ">>
    BY FourAndOne
  <2>3. <<"CR", "LF", "Content-Length", ":", " ">> \o <<n>> = <<"CR", "LF", "Content-Length", ":", " ", n>>
    BY FiveAndOne
  <2> QED
    BY <2>1, <2>2, <2>3, Zenon
<1>4. CRLF \o <<"Content-Length", ":">> \o <<" ">> \o <<n>> \in Seq(STRING)
  <2>1. <<n>> \in Seq(STRING) /\ <<" ">> \in Seq(STRING)
    BY WordsTyped, Typed1, Zenon DEF n
  <2> QED
    BY <2>1, EndsTyped, WordsTyped, Typed2, JoinTyped, Zenon
<1>3. Said(Sized(c)) = <<"CR", "LF", "Content-Length", ":", " ", n>>
  BY <1>1, <1>2, <1>4, ConcatEmptySeq, Zenon
<1>5. /\ Len(<<"CR", "LF", "Content-Length", ":", " ", n>>) = 6
      /\ <<"CR", "LF", "Content-Length", ":", " ", n>>[1] = "CR"
      /\ <<"CR", "LF", "Content-Length", ":", " ", n>>[2] = "LF"
      /\ <<"CR", "LF", "Content-Length", ":", " ", n>>[3] = "Content-Length"
      /\ <<"CR", "LF", "Content-Length", ":", " ", n>>[4] = ":"
      /\ <<"CR", "LF", "Content-Length", ":", " ", n>>[5] = " "
      /\ <<"CR", "LF", "Content-Length", ":", " ", n>>[6] = n
  OBVIOUS
<1> QED
  BY <1>2, <1>3, <1>4, <1>5, Zenon DEF n

(* The length that is read is the one that was said, once it has come. *)
LEMMA LengthRead ==
    ASSUME NEW k \in Nat, NEW x \in Numerals, NEW s \in Seq(STRING), Len(s) >= k + 6,
           \A i \in 1..k : Upper(s[i]) # "CONTENT-LENGTH",
           s[k + 1] = "CR", s[k + 2] = "LF", s[k + 3] = "Content-Length", s[k + 5] = " ",
           s[k + 6] = x
    PROVE  Mentioned(s, "CONTENT-LENGTH") # 0 /\ LengthsSaid(s) = {ValueOf(x)}
<1>0. k \in Nat /\ Len(s) >= k + 6 /\ Len(s) \in Nat
  BY LenProperties, Zenon
<1>1. Mentioned(s, "CONTENT-LENGTH") = k + 3
  <2> DEFINE n == k + 3
  <2>1. n \in 1..Len(s)
    BY ONLY <1>0
  <2>2. Upper(s[n]) = "CONTENT-LENGTH"
    BY UpperSo
  <2>3. n \in Nat /\ n - 1 = k + 2
    BY ONLY <1>0
  <2>4. Upper(s[k + 1]) # "CONTENT-LENGTH" /\ Upper(s[k + 2]) # "CONTENT-LENGTH"
    BY UpperSo
  <2> HIDE DEF n
  <2>5. \A j \in 1..(n - 1) : Upper(s[j]) # "CONTENT-LENGTH"
    <3> TAKE j \in 1..(n - 1)
    <3>1. j \in 1..k \/ j = k + 1 \/ j = k + 2
      BY ONLY <1>0, <2>3, j \in 1..(n - 1)
    <3> QED
      BY <2>4, <3>1, Zenon
  <2>6. FirstAt(s, "CONTENT-LENGTH", n)
    BY <2>1, <2>2, <2>5, Zenon DEF FirstAt
  <2> QED
    BY <2>6, MentionedAt, Zenon DEF n
<1> DEFINE i == Mentioned(s, "CONTENT-LENGTH") + 2
           number == IF i <= Len(s) /\ s[i] \in {" ", "CR"} THEN i + 1 ELSE i
<1>3. number = k + 6
  <2>1. i = k + 5 /\ i <= Len(s) /\ i + 1 = k + 6
    BY ONLY <1>0, <1>1
  <2> HIDE DEF i
  <2> QED
    BY <2>1, Zenon
<1>4. number <= Len(s) /\ s[number] = x
  BY <1>3
<1> HIDE DEF number
<1>5. LengthsSaid(s) = {ValueOf(x)}
  BY <1>4, Zenon DEF LengthsSaid, number, i
<1>6. Mentioned(s, "CONTENT-LENGTH") # 0
  BY ONLY <1>0, <1>1
<1> QED
  BY <1>5, <1>6, Zenon

(* The last field before which no length is said. *)
LEMMA SizedHeading ==
    ASSUME NEW m \in Messages, Framed(m), m.framing \in {"length", "form", "form, type last"}
    PROVE  \E a \in Seq(STRING) : \E b \in Seq(STRING) :
               /\ Heading(m) = a \o (Said(Sized(Content(m))) \o b)
               /\ Silent(a, "CONTENT-LENGTH")
<1> DEFINE z == Said(Sized(Content(m)))
           y == Said(Multipart)
<1>1. z \in Seq(STRING) /\ y \in Seq(STRING)
  BY SaidTyped, SizedTyped, MultipartTyped
<1>2. Own(m) \in Seq(STRING) /\ Silent(Own(m), "CONTENT-LENGTH")
  BY OwnSilent DEF Framers
<1>3. Silent(y, "CONTENT-LENGTH")
  BY MultipartSilent DEF Framers
<1>4. m.framing = "length" => Heading(m) = Own(m) \o z
  BY HeadingSo
<1>5. m.framing = "form" => Heading(m) = Own(m) \o (y \o z)
  BY HeadingSo
<1>6. m.framing = "form, type last" => Heading(m) = Own(m) \o (z \o y)
  BY HeadingSo
<1> SUFFICES \E a \in Seq(STRING) : \E b \in Seq(STRING) :
               Heading(m) = a \o (z \o b) /\ Silent(a, "CONTENT-LENGTH")
  OBVIOUS
<1> HIDE DEF z, y
<1>7. CASE m.framing = "length"
  <2>1. z \o <<>> = z /\ <<>> \in Seq(STRING)
    BY <1>1, ConcatEmptySeq, EmptySeq, Zenon
  <2> QED
    BY <1>2, <1>4, <1>7, <2>1, Zenon
<1>8. CASE m.framing = "form"
  <2>1. Own(m) \o y \in Seq(STRING) /\ Silent(Own(m) \o y, "CONTENT-LENGTH")
    BY <1>1, <1>2, <1>3, SilentJoin, JoinTyped
  <2>2. z \o <<>> = z /\ <<>> \in Seq(STRING)
    BY <1>1, ConcatEmptySeq, EmptySeq, Zenon
  <2>3. Own(m) \o (y \o z) = (Own(m) \o y) \o z
    BY ONLY <1>1, <1>2
  <2> QED
    BY <1>5, <1>8, <2>1, <2>2, <2>3, Zenon
<1>9. CASE m.framing = "form, type last"
  BY <1>1, <1>2, <1>6, <1>9, Zenon
<1> QED
  BY <1>7, <1>8, <1>9

LEMMA ChunkedHeading ==
    ASSUME NEW m \in Messages, m.framing = "chunked"
    PROVE  /\ \E i \in 1..Len(Heading(m)) : Upper(Heading(m)[i]) = "TRANSFER-ENCODING"
           /\ \E i \in 1..Len(Heading(m)) : Heading(m)[i] = "chunked"
<1> DEFINE z == Said(Chunking)
<1>1. Heading(m) = Own(m) \o z
  BY HeadingSo
<1>2. Own(m) \in Seq(STRING)
  BY LineTyped, MessageTyped, SaidAllTyped, JoinTyped, Zenon DEF Own
<1>3. z = <<"CR", "LF", "Transfer-Encoding", ":", " ", "chunked">>
  <2>1. z = CRLF \o <<"Transfer-Encoding", ":">> \o <<" ">> \o <<"chunked">> \o <<>>
    BY DEF Said, Chunking, Plain
  <2>2. CRLF \o <<"Transfer-Encoding", ":">> = <<"CR", "LF", "Transfer-Encoding", ":">>
    BY TwoTwos DEF CRLF
  <2>3. <<"CR", "LF", "Transfer-Encoding", ":">> \o <<" ">>
            = <<"CR", "LF", "Transfer-Encoding", ":", " ">>
    BY FourAndOne
  <2>4. <<"CR", "LF", "Transfer-Encoding", ":", " ">> \o <<"chunked">>
            = <<"CR", "LF", "Transfer-Encoding", ":", " ", "chunked">>
    BY FiveAndOne
  <2>5. CRLF \o <<"Transfer-Encoding", ":">> \o <<" ">> \o <<"chunked">> \in Seq(STRING)
    BY EndsTyped, WordsTyped, Typed1, Typed2, JoinTyped, Zenon
  <2> HIDE DEF z
  <2> QED
    BY <2>1, <2>2, <2>3, <2>4, <2>5, ConcatEmptySeq, Zenon
<1> HIDE DEF z
<1>4. z \in Seq(STRING) /\ Len(z) = 6 /\ z[3] = "Transfer-Encoding" /\ z[6] = "chunked"
  <2>1. z \in Seq(STRING)
    <3>1. Chunking \in Field
      BY PlainTyped, WordsTyped, Typed1, Zenon DEF Chunking
    <3> QED
      BY <3>1, SaidTyped DEF z
  <2>2. /\ Len(<<"CR", "LF", "Transfer-Encoding", ":", " ", "chunked">>) = 6
        /\ <<"CR", "LF", "Transfer-Encoding", ":", " ", "chunked">>[3] = "Transfer-Encoding"
        /\ <<"CR", "LF", "Transfer-Encoding", ":", " ", "chunked">>[6] = "chunked"
    OBVIOUS
  <2> QED
    BY <1>3, <2>1, <2>2, Zenon
<1> DEFINE h == Own(m) \o z
<1>5. /\ Len(h) = Len(Own(m)) + 6 /\ Len(Own(m)) \in Nat
      /\ h[Len(Own(m)) + 3] = "Transfer-Encoding" /\ h[Len(Own(m)) + 6] = "chunked"
  <2> DEFINE o == Own(m)
  <2>1. o \in Seq(STRING) /\ Len(o) \in Nat
    BY <1>2
  <2> HIDE DEF o
  <2>2. Len(o \o z) = Len(o) + Len(z) /\ \A i \in 1..Len(z) : (o \o z)[Len(o) + i] = z[i]
    <3>1. z \in Seq(STRING)
      BY <1>4
    <3> QED
      BY ONLY <2>1, <3>1, JoinTyped, JoinedLen, JoinedBefore, JoinedAfter
  <2>3. 3 \in 1..6 /\ 6 \in 1..6
    OBVIOUS
  <2> QED
    BY <1>4, <2>1, <2>2, <2>3, Zenon DEF o
<1> HIDE DEF h
<1>6. Len(Own(m)) + 3 \in 1..Len(h) /\ Len(Own(m)) + 6 \in 1..Len(h)
  BY ONLY <1>5
<1>7. Heading(m) = h
  BY <1>1 DEF h
<1>8. Upper(h[Len(Own(m)) + 3]) = "TRANSFER-ENCODING"
  BY <1>5, UpperSo, Zenon
<1> QED
  BY <1>5, <1>6, <1>7, <1>8, Zenon

(* Without chunks, no Transfer-Encoding is mentioned. *)
LEMMA UnchunkedHeading ==
    ASSUME NEW m \in Messages, Framed(m), m.framing # "chunked"
    PROVE  Silent(Heading(m), "TRANSFER-ENCODING")
<1> DEFINE z == Said(Sized(Content(m)))
           y == Said(Multipart)
<1>1. z \in Seq(STRING) /\ y \in Seq(STRING)
  BY SaidTyped, SizedTyped, MultipartTyped
<1>2. Own(m) \in Seq(STRING) /\ Silent(Own(m), "TRANSFER-ENCODING")
  BY OwnSilent DEF Framers
<1>3. Silent(y, "TRANSFER-ENCODING")
  BY MultipartSilent DEF Framers
<1>4. Silent(z, "TRANSFER-ENCODING")
  <2> DEFINE f == Sized(Content(m))
  <2>1. /\ f.name = "Content-Length" /\ f.before = <<" ">>
        /\ f.value = <<ToString(Len(Content(m)))>> /\ f.after = <<>>
    BY DEF Sized, Plain
  <2>2. f \in Field
    BY SizedTyped
  <2>3. Upper(ToString(Len(Content(m)))) # "TRANSFER-ENCODING"
    BY ContentSized, NumeralSo, Zenon
  <2>4. Silent(<<>>, "TRANSFER-ENCODING")
    BY DEF Silent
  <2> HIDE DEF f
  <2>5. /\ Upper(f.name) # "TRANSFER-ENCODING" /\ Silent(f.before, "TRANSFER-ENCODING")
        /\ Silent(f.value, "TRANSFER-ENCODING") /\ Silent(f.after, "TRANSFER-ENCODING")
    <3>1. Upper(" ") # "TRANSFER-ENCODING" /\ Upper("Content-Length") # "TRANSFER-ENCODING"
      BY UpperSo
    <3> QED
      BY <2>1, <2>3, <2>4, <3>1, Silent1, Zenon
  <2> QED
    BY <2>2, <2>5, SaidSilent, Zenon DEF f, Framers
<1>5. m.framing \in {"none", "length", "form", "form, type last"}
  BY MessageTyped DEF Framings
<1>6. Heading(m) \in {Own(m), Own(m) \o z, Own(m) \o (y \o z), Own(m) \o (z \o y)}
  BY <1>5, HeadingSo, Zenon
<1> HIDE DEF z, y
<1> QED
  BY <1>1, <1>2, <1>3, <1>4, <1>6, SilentJoin, JoinTyped, Zenon

-----------------------------------------------------------------------------
(* What isFullyReceived says of a part of a request *)

LEMMA SilentPrefix ==
    ASSUME NEW s \in Seq(STRING), NEW w \in Seq(STRING), NEW name, Silent(s \o w, name)
    PROVE  Silent(s, name)
<1>1. \A i \in 1..Len(s) : i \in 1..Len(s \o w) /\ (s \o w)[i] = s[i]
  OBVIOUS
<1> QED
  BY <1>1, Zenon DEF Silent

LEMMA NotMentioned ==
    ASSUME NEW s \in Seq(STRING), NEW name, Silent(s, name)
    PROVE  Mentioned(s, name) = 0
<1> SUFFICES ASSUME Mentioned(s, name) # 0 PROVE FALSE
  OBVIOUS
<1>1. Mentioned(s, name) \in 1..Len(s) /\ Upper(s[Mentioned(s, name)]) = name
  BY MentionedFirst
<1> QED
  BY <1>1 DEF Silent

(* The cases of FullyReceived, when it may be true. *)
LEMMA EnoughSo ==
    ASSUME NEW s, TRUE \in FullyReceived(s)
    PROVE  LET chunked == Mentioned(s, "TRANSFER-ENCODING") # 0 /\ Find(s, "chunked") # 0
               blank == Scan(s, BlankLine)
           IN  /\ chunked => Scan(s, LastChunk) # 0
               /\ ~chunked => blank # 0
               /\ ~chunked /\ Mentioned(s, "CONTENT-LENGTH") # 0 =>
                      \E length \in LengthsSaid(s) : Enough(s, blank + 4, length)
BY DEF FullyReceived

LEMMA BlankFound ==
    ASSUME NEW m \in Messages, Framed(m), NEW s \in Seq(STRING), NEW w \in Seq(STRING),
           s \o w = Bytes[m], Scan(s, BlankLine) # 0
    PROVE  /\ Scan(s, BlankLine) \in Nat /\ Scan(s, BlankLine) > Len(Heading(m))
           /\ Scan(s, BlankLine) + 3 <= Len(s)
<1> DEFINE p == Scan(s, BlankLine)
<1>1. p \in 1..Len(s) /\ At(s, p, BlankLine)
  BY EndsTyped, ScanFinds, Zenon
<1> HIDE DEF p
<1>2. p \in Nat \ {0}
  BY <1>1
<1>3. At(Bytes[m], p, BlankLine)
  BY <1>1, <1>2, EndsTyped, AtPrefix, Zenon
<1>4. p > Len(Heading(m))
  BY <1>2, <1>3, HeadingTyped, ContentTyped, HeadingLined, BytesTyped, BlankAfter, Zenon
<1>5. p + 3 <= Len(s)
  <2>1. p + 4 - 1 <= Len(s)
    BY <1>1, EndsSo, Zenon DEF At
  <2>2. Len(s) \in Nat
    BY LenProperties, Zenon
  <2> QED
    BY ONLY <1>2, <2>1, <2>2
<1> QED
  BY <1>2, <1>4, <1>5, Zenon DEF p

LEMMA BytesSo ==
    ASSUME NEW m \in Messages
    PROVE  /\ Len(Bytes[m]) = Len(Heading(m)) + 4 + Len(Content(m))
           /\ \A i \in 1..Len(Heading(m)) : Bytes[m][i] = Heading(m)[i]
<1> DEFINE h == Heading(m)
           c == Content(m)
           v == h \o BlankLine
<1>1. h \in Seq(STRING) /\ c \in Seq(STRING)
  BY HeadingTyped, ContentTyped, Zenon
<1>b. BlankLine \in Seq(STRING) /\ Len(BlankLine) = 4
  BY EndsTyped, EndsSo, Zenon
<1>a. Bytes[m] = v \o c
  BY BytesTyped, Zenon
<1> HIDE DEF h, c
<1>2. /\ v \in Seq(STRING) /\ Len(v) = Len(h) + Len(BlankLine)
      /\ \A i \in 1..Len(h) : v[i] = h[i]
  BY ONLY <1>1, <1>b, JoinTyped, JoinedLen, JoinedBefore, JoinedAfter
<1> HIDE DEF v
<1>3. /\ Len(v \o c) = Len(v) + Len(c) /\ \A i \in 1..Len(v) : (v \o c)[i] = v[i]
  BY ONLY <1>1, <1>2, JoinTyped, JoinedLen, JoinedBefore, JoinedAfter
<1>4. Len(h) \in Nat /\ Len(c) \in Nat /\ Len(v) = Len(h) + 4
  BY ONLY <1>1, <1>2, <1>b
<1>5. Len(v \o c) = Len(h) + 4 + Len(c) /\ \A i \in 1..Len(h) : (v \o c)[i] = h[i]
  BY ONLY <1>2, <1>3, <1>4
<1> QED
  BY <1>a, <1>5, Zenon DEF h, c

(* What has come with the heading. *)
LEMMA HeadingCome ==
    ASSUME NEW m \in Messages, NEW s \in Seq(STRING), NEW w \in Seq(STRING),
           s \o w = Bytes[m], Len(s) >= Len(Heading(m))
    PROVE  \A i \in 1..Len(Heading(m)) : i \in 1..Len(s) /\ s[i] = Heading(m)[i]
<1>1. \A i \in 1..Len(s) : (s \o w)[i] = s[i]
  OBVIOUS
<1>2. Len(Heading(m)) \in Nat /\ Len(s) \in Nat
  BY HeadingTyped, LenProperties, Zenon
<1>3. \A i \in 1..Len(Heading(m)) : i \in 1..Len(s)
  BY ONLY <1>2, Len(s) >= Len(Heading(m))
<1> QED
  BY <1>1, <1>3, BytesSo, Zenon

LEMMA AtMeans ==
    ASSUME NEW s \in Seq(STRING), NEW q \in Nat \ {0}, NEW t \in Seq(STRING), Len(t) > 0,
           At(s, q, t)
    PROVE  q \in DOMAIN s /\ IsPrefix(t, From(s, q))
<1> DEFINE f == From(s, q)
           n == Len(s)
           k == Len(t)
<1>1. n \in Nat /\ k \in Nat /\ k > 0
  BY LenProperties, Zenon
<1>2. q + k - 1 <= n /\ \A j \in 1..k : s[q + j - 1] = t[j]
  BY DEF At
<1>3. f = SubSeq(s, q, n) /\ DOMAIN s = 1..n
  BY DEF From
<1>4. Len(f) = n - q + 1 /\ f \in Seq(STRING) /\ \A j \in 1..(n - q + 1) : f[j] = s[q + j - 1]
  <2> HIDE DEF f
  <2> QED
    BY <1>1, <1>2, <1>3
<1> HIDE DEF f, n, k
<1>5. q \in 1..n /\ k <= Len(f)
  BY <1>1, <1>2, <1>4
<1>6. \A j \in 1..k : f[j] = t[j]
  BY <1>1, <1>2, <1>4
<1>7. SubSeq(f, 1, k) = SubSeq(t, 1, k)
  BY <1>1, <1>4, <1>5, <1>6 DEF k
<1> QED
  BY <1>3, <1>5, <1>7 DEF IsPrefix, f, k

LEMMA ChunksEnough ==
    ASSUME NEW m \in Messages, Framed(m), m.framing = "chunked",
           NEW s \in Seq(STRING), NEW w \in Seq(STRING), s \o w = Bytes[m],
           TRUE \in FullyReceived(s)
    PROVE  Len(s) >= Len(Bytes[m])
<1> DEFINE h == Heading(m)
           c == Content(m)
           p == Scan(s, LastChunk)
<1>1. h \in Seq(STRING) /\ c \in Seq(STRING) /\ Len(h) \in Nat /\ Len(c) \in Nat /\ Len(s) \in Nat
  BY HeadingTyped, ContentTyped, LenProperties, Zenon
<1>2. p # 0
  <2> SUFFICES ASSUME p = 0 PROVE FALSE
    OBVIOUS
  <2>1. Scan(s, BlankLine) # 0 /\ ~(Mentioned(s, "TRANSFER-ENCODING") # 0 /\ Find(s, "chunked") # 0)
    BY EnoughSo, Zenon
  <2>2. Len(s) >= Len(h)
    <3> DEFINE blank == Scan(s, BlankLine)
    <3>1. blank \in Nat /\ blank > Len(h) /\ blank + 3 <= Len(s)
      BY <2>1, BlankFound, Zenon
    <3> HIDE DEF blank, h
    <3> QED
      BY ONLY <1>1, <3>1
  <2>3. \A i \in 1..Len(h) : i \in 1..Len(s) /\ s[i] = h[i]
    BY <2>2, HeadingCome, Zenon
  <2>4. \E i \in 1..Len(s) : Upper(s[i]) = "TRANSFER-ENCODING"
    BY <2>3, ChunkedHeading, Zenon
  <2>5. \E i \in 1..Len(s) : s[i] = "chunked"
    BY <2>3, ChunkedHeading, Zenon
  <2>6. Mentioned(s, "TRANSFER-ENCODING") # 0
    <3>1. Mentioned(s, "TRANSFER-ENCODING") = 0 => Silent(s, "TRANSFER-ENCODING")
      BY MentionedFirst
    <3> QED
      BY <2>4, <3>1, Zenon DEF Silent
  <2>7. Find(s, "chunked") # 0
    <3>1. Find(s, "chunked") = 0 => \A i \in 1..Len(s) : s[i] # "chunked"
      BY FindFirst
    <3> QED
      BY <2>5, <3>1, Zenon
  <2> QED
    BY <2>1, <2>6, <2>7
<1>3. p \in 1..Len(s) /\ At(s, p, LastChunk)
  BY <1>2, EndsSo, ScanFinds, Zenon
<1> DEFINE q == p - Len(h) - 2
           u == CRLF \o c
<1>4. q \in Nat \ {0} /\ At(u, q, LastChunk)
  <2>1. p \in Nat \ {0}
    <3> HIDE DEF p
    <3> QED
      BY <1>3
  <2>2. At(Bytes[m], p, LastChunk)
    BY <1>3, <2>1, EndsSo, AtPrefix, Zenon
  <2> QED
    BY <1>1, <2>1, <2>2, HeadingLined, BytesTyped, LastAfter, Zenon
<1>5. u \in Seq(STRING) /\ Len(u) = Len(CRLF) + Len(c)
  BY <1>1, EndsTyped, JoinTyped, JoinedLen, JoinedBefore, JoinedAfter, Zenon
<1>6. q \in DOMAIN u /\ IsPrefix(LastChunk, From(u, q))
  <2>1. Len(LastChunk) > 0
    BY EndsSo
  <2> HIDE DEF u, q
  <2> QED
    BY <1>4, <1>5, <2>1, EndsSo, AtMeans, Zenon
<1>7. q + 6 = Len(u)
  BY <1>6, Zenon DEF Framed
<1>8. p + 6 <= Len(s)
  <2>1. p + 7 - 1 <= Len(s)
    BY <1>3, EndsSo, Zenon DEF At
  <2> HIDE DEF p
  <2> QED
    BY ONLY <1>1, <1>3, <2>1
<1>9. Len(Bytes[m]) = Len(h) + 4 + Len(c) /\ Len(CRLF) = 2
  BY BytesSo, EndsSo, Zenon
<1>10. Len(Bytes[m]) = p + 6
  <2>1. q = p - Len(h) - 2
    OBVIOUS
  <2> HIDE DEF q, u, h, c, p
  <2> QED
    BY ONLY <1>1, <1>3, <1>5, <1>7, <1>9, <2>1
<1> HIDE DEF p
<1> QED
  BY ONLY <1>1, <1>3, <1>8, <1>10

LEMMA UnchunkedSilent ==
    ASSUME NEW m \in Messages, Framed(m), m.framing # "chunked",
           NEW s \in Seq(STRING), NEW w \in Seq(STRING), s \o w = Bytes[m]
    PROVE  Mentioned(s, "TRANSFER-ENCODING") = 0
<1>1. Silent(BlankLine, "TRANSFER-ENCODING")
  <2>1. Silent(CRLF, "TRANSFER-ENCODING")
    <3>1. Upper("CR") # "TRANSFER-ENCODING" /\ Upper("LF") # "TRANSFER-ENCODING"
      BY UpperSo
    <3> QED
      BY <3>1, Silent2, Zenon DEF CRLF
  <2> QED
    BY <2>1, EndsTyped, SilentJoin, Zenon DEF BlankLine
<1>2. Silent(Content(m), "TRANSFER-ENCODING")
  <2>1. \A i \in DOMAIN Content(m) : Upper(Content(m)[i]) # "TRANSFER-ENCODING"
    BY DEF Framed
  <2> QED
    BY <2>1, ContentTyped DEF Silent
<1>3. Silent(Bytes[m], "TRANSFER-ENCODING")
  BY <1>1, <1>2, UnchunkedHeading, HeadingTyped, ContentTyped, EndsTyped, BytesTyped,
     SilentJoin, JoinTyped, Zenon
<1>4. Silent(s \o w, "TRANSFER-ENCODING")
  BY <1>3, Zenon
<1>5. Silent(s, "TRANSFER-ENCODING")
  BY <1>4, SilentPrefix, Zenon
<1> QED
  BY <1>5, NotMentioned, Zenon

LEMMA SizedEnough ==
    ASSUME NEW m \in Messages, Framed(m), m.framing \in {"length", "form", "form, type last"},
           NEW s \in Seq(STRING), NEW w \in Seq(STRING), s \o w = Bytes[m],
           TRUE \in FullyReceived(s)
    PROVE  Len(s) >= Len(Bytes[m])
<1> DEFINE h == Heading(m)
           c == Content(m)
           blank == Scan(s, BlankLine)
           x == ToString(Len(c))
<1>1. h \in Seq(STRING) /\ c \in Seq(STRING) /\ Len(h) \in Nat /\ Len(c) \in Nat /\ Len(s) \in Nat
  BY HeadingTyped, ContentTyped, LenProperties, Zenon
<1>2. m.framing # "chunked"
  OBVIOUS
<1>3. Mentioned(s, "TRANSFER-ENCODING") = 0
  BY <1>2, UnchunkedSilent, Zenon
<1>4. blank # 0 /\ (Mentioned(s, "CONTENT-LENGTH") # 0 =>
                       \E length \in LengthsSaid(s) : Enough(s, blank + 4, length))
  BY <1>3, EnoughSo, Zenon
<1>5. blank \in Nat /\ blank > Len(h) /\ blank + 3 <= Len(s)
  BY <1>4, BlankFound, Zenon
<1>6. \A i \in 1..Len(h) : i \in 1..Len(s) /\ s[i] = h[i]
  <2>1. Len(s) >= Len(h)
    <3> HIDE DEF blank, h, c, x
    <3> QED
      BY ONLY <1>1, <1>5
  <2> QED
    BY <2>1, HeadingCome, Zenon
<1>7. PICK a \in Seq(STRING), b \in Seq(STRING) :
          h = a \o (Said(Sized(c)) \o b) /\ Silent(a, "CONTENT-LENGTH")
  BY SizedHeading, Zenon
<1> DEFINE k == Len(a)
           z == Said(Sized(c))
<1>8. k \in Nat /\ x \in STRING /\ x \in Numerals /\ ValueOf(x) = Len(c)
  BY LenProperties, ContentSized, NumeralSo, Zenon
<1>9. /\ z \in Seq(STRING) /\ Len(z) = 6 /\ z[1] = "CR" /\ z[2] = "LF"
      /\ z[3] = "Content-Length" /\ z[4] = ":" /\ z[5] = " " /\ z[6] = x
  BY <1>1, <1>8, SizedSo, Zenon
<1> HIDE DEF blank, h, x, z
<1>10. /\ Len(h) >= k + 6 /\ \A i \in 1..k : h[i] = a[i]
       /\ \A i \in 1..6 : h[k + i] = z[i]
  <2> DEFINE y == z \o b
  <2>1. Len(z) = 6 /\ z \in Seq(STRING)
    BY <1>9
  <2>2. y \in Seq(STRING) /\ Len(y) = 6 + Len(b) /\ \A i \in 1..6 : y[i] = z[i]
    <3>1. y \in Seq(STRING) /\ Len(y) = Len(z) + Len(b) /\ \A i \in 1..Len(z) : y[i] = z[i]
      BY <2>1, JoinTyped, JoinedLen, JoinedBefore, JoinedAfter, Zenon
    <3> HIDE DEF y
    <3> QED
      BY <2>1, <3>1, Zenon
  <2>3. h = a \o y /\ Len(b) \in Nat
    BY <1>7, LenProperties, Zenon DEF z
  <2> HIDE DEF y
  <2>4. /\ Len(a \o y) = Len(a) + Len(y) /\ \A i \in 1..Len(a) : (a \o y)[i] = a[i]
        /\ \A i \in 1..Len(y) : (a \o y)[Len(a) + i] = y[i]
    <3>1. a \in Seq(STRING) /\ y \in Seq(STRING)
      BY <2>2
    <3>2. Len(a \o y) = Len(a) + Len(y) /\ \A i \in 1..Len(a) : (a \o y)[i] = a[i]
      BY <3>1, JoinTyped, JoinedLen, JoinedBefore, JoinedAfter, Zenon
    <3>3. \A i \in 1..Len(y) : (a \o y)[Len(a) + i] = y[i]
      BY ONLY <3>1, JoinTyped, JoinedLen, JoinedBefore, JoinedAfter
    <3> QED
      BY <3>2, <3>3
  <2> QED
    BY ONLY <1>8, <2>2, <2>3, <2>4, SMTT(30)
<1>11. Mentioned(s, "CONTENT-LENGTH") # 0 /\ LengthsSaid(s) = {ValueOf(x)}
  <2>1. \A i \in 1..(k + 6) : i \in 1..Len(h)
    BY ONLY <1>1, <1>8, <1>10
  <2>2. Len(s) >= k + 6
    BY ONLY <1>1, <1>5, <1>8, <1>10
  <2>3. \A i \in 1..6 : k + i \in 1..(k + 6)
    BY ONLY <1>8
  <2>4. \A i \in 1..k : i \in 1..(k + 6) /\ i \in 1..Len(a)
    BY ONLY <1>8
  <2>5. \A i \in 1..6 : s[k + i] = z[i]
    BY <1>6, <1>10, <2>1, <2>3, Zenon
  <2>6. 1 \in 1..6 /\ 2 \in 1..6 /\ 3 \in 1..6 /\ 5 \in 1..6 /\ 6 \in 1..6
    BY ONLY TRUE
  <2>7. /\ s[k + 1] = "CR" /\ s[k + 2] = "LF" /\ s[k + 3] = "Content-Length"
        /\ s[k + 5] = " " /\ s[k + 6] = x
    BY <1>9, <2>5, <2>6, Zenon
  <2>8. \A i \in 1..k : Upper(s[i]) # "CONTENT-LENGTH"
    BY <1>6, <1>7, <1>10, <2>1, <2>4, Zenon DEF Silent
  <2> HIDE DEF k
  <2> QED
    BY <1>8, <2>2, <2>7, <2>8, LengthRead
<1>12. Enough(s, blank + 4, Len(c))
  BY <1>4, <1>8, <1>11, Zenon
<1>13. Len(s) - (blank + 4) + 1 >= Len(c)
  BY <1>12, Zenon DEF Enough
<1>14. Len(Bytes[m]) = Len(h) + 4 + Len(c)
  BY BytesSo, Zenon DEF h
<1> HIDE DEF c
<1> QED
  BY ONLY <1>1, <1>5, <1>13, <1>14

LEMMA BareEnough ==
    ASSUME NEW m \in Messages, Framed(m), m.framing = "none",
           NEW s \in Seq(STRING), NEW w \in Seq(STRING), s \o w = Bytes[m],
           TRUE \in FullyReceived(s)
    PROVE  Len(s) >= Len(Bytes[m])
<1> DEFINE blank == Scan(s, BlankLine)
           h == Heading(m)
<1>1. Len(s) \in Nat /\ Len(h) \in Nat
  BY HeadingTyped, LenProperties, Zenon
<1>2. Mentioned(s, "TRANSFER-ENCODING") = 0
  BY UnchunkedSilent
<1>3. blank # 0
  BY <1>2, EnoughSo, Zenon
<1>4. blank \in Nat /\ blank > Len(h) /\ blank + 3 <= Len(s)
  BY <1>3, BlankFound, Zenon
<1>5. Content(m) = <<>>
  BY ContentSo
<1>6. Len(Content(m)) = 0
  BY <1>5
<1>7. Len(Bytes[m]) = Len(h) + 4 + Len(Content(m))
  BY BytesSo, Zenon
<1> HIDE DEF blank, h
<1> QED
  BY ONLY <1>1, <1>4, <1>6, <1>7

(* isFullyReceived is true of the whole text only. *)
LEMMA EnoughIsAll ==
    ASSUME NEW m \in Messages, Framed(m), NEW s \in Seq(STRING), NEW w \in Seq(STRING),
           s \o w = Bytes[m], TRUE \in FullyReceived(s)
    PROVE  w = <<>> /\ s = Bytes[m]
<1>1. m.framing \in {"none", "length", "chunked", "form", "form, type last"}
  BY MessageTyped DEF Framings
<1>2. Len(s) >= Len(Bytes[m])
  BY <1>1, BareEnough, SizedEnough, ChunksEnough, Zenon
<1>3. Len(s \o w) = Len(s) + Len(w) /\ Len(w) \in Nat /\ Len(s) \in Nat
  BY JoinTyped, JoinedLen, JoinedBefore, JoinedAfter, LenProperties, Zenon
<1>4. Len(Bytes[m]) = Len(s) + Len(w)
  BY <1>3, Zenon
<1>5. Len(w) = 0
  BY ONLY <1>2, <1>3, <1>4
<1>6. w = <<>>
  BY <1>5
<1> QED
  BY <1>6, ConcatEmptySeq, Zenon

-----------------------------------------------------------------------------
(* The connection *)

(* What has been received and what is under way are the request that is     *)
(* being sent, and both are used up when it is answered.                    *)
Underway ==
    /\ message \in Messages /\ sent \in 0..MaxSent
    /\ pc \in {"recv", "answered", "thrown"}
    /\ wire \in Seq(STRING) /\ buffer \in Seq(STRING)
    /\ pc = "recv" => buffer \o wire = Bytes[message]
    /\ pc # "recv" => wire = <<>> /\ buffer = <<>>
LEMMA Cut ==
    ASSUME NEW b \in Seq(STRING), NEW w \in Seq(STRING), NEW n \in DOMAIN w
    PROVE  LET text == b \o SubSeq(w, 1, n)
               rest == From(w, Len(text) - Len(b) + 1)
           IN  /\ text \in Seq(STRING) /\ rest \in Seq(STRING)
               /\ text \o rest = b \o w
<1> DEFINE text == b \o SubSeq(w, 1, n)
           rest == From(w, Len(text) - Len(b) + 1)
<1>1. SubSeq(w, 1, n) \in Seq(STRING) /\ Len(SubSeq(w, 1, n)) = n /\ n \in 1..Len(w)
  OBVIOUS
<1>2. text \in Seq(STRING) /\ Len(text) - Len(b) + 1 = n + 1
  BY <1>1
<1>3. rest = SubSeq(w, n + 1, Len(w))
  BY <1>2, Zenon DEF From
<1>4. SubSeq(w, n + 1, Len(w)) \in Seq(STRING)
  OBVIOUS
<1>5. SubSeq(w, 1, n) \o SubSeq(w, n + 1, Len(w)) = w
  <2>1. n \in 0..Len(w)
    BY <1>1
  <2> QED
    BY <2>1, Parts
<1>6. \A x, y, z \in Seq(STRING) : (x \o y) \o z = x \o (y \o z)
  OBVIOUS
<1>7. text \o rest = b \o w
  <2>1. (b \o SubSeq(w, 1, n)) \o SubSeq(w, n + 1, Len(w))
            = b \o (SubSeq(w, 1, n) \o SubSeq(w, n + 1, Len(w)))
    BY <1>1, <1>4, <1>6
  <2> QED
    BY <1>3, <1>5, <2>1, Zenon
<1> QED
  BY <1>2, <1>3, <1>4, <1>7, Zenon

LEMMA UnderwayInit ==
    ASSUME Init
    PROVE  Underway
<1>1. wire \in Seq(STRING) /\ buffer \in Seq(STRING)
  BY BytesTyped DEF Init
<1>2. buffer \o wire = Bytes[message]
  BY <1>1 DEF Init
<1>3. sent \in 0..MaxSent
  BY FramingAssumption DEF Init
<1> QED
  BY <1>1, <1>2, <1>3 DEF Init, Underway

LEMMA UnderwayStep ==
    ASSUME \A m \in Messages : Framed(m), Underway, [Next]_vars
    PROVE  Underway'
<1>1. CASE UNCHANGED vars
  BY <1>1 DEF Underway, vars
<1>2. ASSUME NEW n \in DOMAIN wire, Store(buffer \o SubSeq(wire, 1, n)) PROVE Underway'
  <2> DEFINE text == buffer \o SubSeq(wire, 1, n)
  <2>1. /\ pc = "recv" /\ wire' = From(wire, Len(text) - Len(buffer) + 1) /\ buffer' = text
        /\ UNCHANGED <<message, sent, pc>>
    BY <1>2 DEF Store, Taken
  <2>2. text \in Seq(STRING) /\ wire' \in Seq(STRING) /\ text \o wire' = buffer \o wire
    BY <2>1, Cut DEF Underway
  <2> HIDE DEF text
  <2> QED
    BY <2>1, <2>2 DEF Underway
<1>3. ASSUME NEW n \in DOMAIN wire, Respond(buffer \o SubSeq(wire, 1, n)) PROVE Underway'
  <2> DEFINE text == buffer \o SubSeq(wire, 1, n)
  <2>1. /\ pc = "recv" /\ wire' = From(wire, Len(text) - Len(buffer) + 1) /\ buffer' = <<>>
        /\ UNCHANGED <<message, sent>> /\ pc' \in {"answered", "thrown"}
        /\ TRUE \in FullyReceived(text)
    BY <1>3 DEF Respond, Taken, Emptied
  <2>2. text \in Seq(STRING) /\ wire' \in Seq(STRING) /\ text \o wire' = buffer \o wire
    BY <2>1, Cut DEF Underway
  <2> HIDE DEF text
  <2>3. message \in Messages /\ text \o wire' = Bytes[message] /\ Framed(message)
    BY <2>1, <2>2 DEF Underway
  <2>4. wire' = <<>>
    BY <2>1, <2>2, <2>3, EnoughIsAll
  <2> QED
    BY <2>1, <2>2, <2>4 DEF Underway
<1>4. ASSUME NEW m \in Messages, Ask(m) PROVE Underway'
  <2>1. wire = <<>> /\ buffer = <<>> /\ wire' = wire \o Bytes[m] /\ Bytes[m] \in Seq(STRING)
    BY <1>4, BytesTyped DEF Ask, Underway
  <2>2. wire' = Bytes[m] /\ buffer' \o wire' = Bytes[m] /\ buffer' = <<>>
    BY <1>4, <2>1 DEF Ask
  <2>3. sent' \in 0..MaxSent
    BY <1>4, FramingAssumption DEF Ask, Underway
  <2> QED
    BY <1>4, <2>1, <2>2, <2>3 DEF Ask, Underway
<1> QED
  BY <1>1, <1>2, <1>3, <1>4 DEF Next, Receive, Stored

(* However TCP cuts it, a request whose words are apart is answered only    *)
(* when all of it has been received: none of it is taken for the next one.  *)
THEOREM AnsweredWhole ==
    ASSUME \A m \in Messages : Framed(m)
    PROVE  Spec => []WholeOnly
<1>1. Init => Underway
  BY UnderwayInit
<1>2. Underway /\ [Next]_vars => Underway'
  BY UnderwayStep
<1>3. Underway => WholeOnly
  BY DEF Underway, WholeOnly
<1> QED
  BY <1>1, <1>2, <1>3, PTL DEF Spec
==============================================================================
