----------------------------- MODULE CgiProofs -----------------------------
(***************************************************************************)
(* What holds of Cgi for pipes, outputs and bodies of any size: IInv is    *)
(* inductive, and Cgi implements CgiCall; and what remove_headers makes of *)
(* texts of any length.  That a call returns at all is checked by TLC, for *)
(* what fits into a pipe.                                                  *)
(***************************************************************************)
EXTENDS CgiHeaders, TextsProofs

USE CgiAssumption

\* Each variable keeps its type.
LEMMA TypeStep ==
    ASSUME TypeOK, InOrder, EndsWell, [Next]_vars
    PROVE  TypeOK'
<1> USE DEF TypeOK, Calls, Parents, Children
<1>1. CASE ParentStep
  <2>1. CASE Fork
    BY <2>1 DEF Fork, bodyVars
  <2>2. CASE ForkFails
    BY <2>2 DEF ForkFails, bodyVars
  <2>3. CASE CloseWriteEnd
    BY <2>3 DEF CloseWriteEnd, WithoutWriteEnd, bodyVars
  <2>4. CASE Wait
    BY <2>4 DEF Wait, bodyVars
  <2>5. CASE Read
    <3>1. Head(out) \in Nat /\ Tail(out) \in Seq(Nat)
      BY <2>5, HeadTailProperties DEF Read
    <3> QED
      BY <2>5, <3>1 DEF Read, Collect, bodyVars
  <2>6. CASE ReadEnd
    BY <2>6 DEF ReadEnd, bodyVars
  <2> QED
    BY <1>1, <2>1, <2>2, <2>3, <2>4, <2>5, <2>6 DEF ParentStep
<1>2. CASE ChildStep
  <2>1. CASE Redirect
    BY <2>1 DEF Redirect, parentVars, bodyVars
  <2>2. CASE Feed
    BY <2>2 DEF Feed, parentVars
  <2>3. CASE FeedEnd
    BY <2>3 DEF FeedEnd, parentVars, bodyVars
  <2>4. CASE Exec
    BY <2>4 DEF Exec, parentVars, bodyVars
  <2> QED
    BY <1>2, <2>1, <2>2, <2>3, <2>4 DEF ChildStep
<1>3. CASE ExecFails
  BY <1>3 DEF ExecFails, Die, NotStarted, ERROR, parentVars, bodyVars
<1>4. CASE ScriptStep
  <2>1. CASE ScriptReads
    BY <2>1 DEF ScriptReads, parentVars
  <2>2. CASE ScriptWrites
    BY <2>2 DEF ScriptWrites, parentVars, bodyVars
  <2>3. CASE ScriptExits
    BY <2>3 DEF ScriptExits, Die, parentVars, bodyVars
  <2> QED
    BY <1>4, <2>1, <2>2, <2>3 DEF ScriptStep
<1>5. CASE ScriptKilled
  BY <1>5 DEF ScriptKilled, Die, SIGKILL, parentVars, bodyVars
<1>6. CASE UNCHANGED vars
  BY <1>6 DEF vars
<1> QED
  BY <1>1, <1>2, <1>3, <1>4, <1>5, <1>6 DEF Next

\* Reading moves the head of the pipe to the end of _data.
LEMMA ReadKeepsOrder ==
    ASSUME TypeOK, InOrder, Read
    PROVE  InOrder'
<1>1. /\ data \in Seq(Nat) /\ Len(data) \in Nat
      /\ out \in Seq(Nat) /\ Len(out) \in Nat /\ Len(out) >= 1
  BY EmptySeq, LenProperties DEF TypeOK, Read
<1>2. /\ data' = Append(data, Head(out)) /\ out' = Tail(out)
      /\ produced' = produced /\ call' = call
  BY DEF Read, Collect
<1>3. /\ Len(data') = Len(data) + 1
      /\ \A k \in 1..Len(data) : data'[k] = data[k]
      /\ data'[Len(data) + 1] = out[1]
  BY <1>1, <1>2, AppendProperties
<1>4. /\ Len(out') = Len(out) - 1
      /\ \A k \in 1..(Len(out) - 1) : out'[k] = out[k + 1]
  BY <1>1, <1>2, HeadTailProperties
<1>5. \A k \in 1..Len(data') : data'[k] = k
  <2>1. out[1] = Len(data) + 1 /\ \A k \in 1..Len(data) : data[k] = k
    BY <1>1 DEF InOrder
  <2>2. Len(data) \in Nat
    BY <1>1
  <2>3. \A k \in 1..Len(data') : k \in 1..Len(data) \/ k = Len(data) + 1
    BY ONLY <1>3, <2>2
  <2> QED
    BY <1>3, <2>1, <2>3, Zenon
<1>6. \A k \in 1..Len(out') : out'[k] = Len(data') + k
  <2> SUFFICES ASSUME NEW k \in 1..(Len(out) - 1)
               PROVE  out[k + 1] = Len(data) + 1 + k
    BY <1>3, <1>4
  <2>1. k + 1 \in 1..Len(out) /\ k \in Nat
    BY <1>1
  <2> QED
    BY <1>1, <2>1 DEF InOrder
<1>7. Len(data') + Len(out') = produced' /\ produced' <= call'.output
  <2>1. Len(data) + Len(out) = produced /\ produced <= call.output
    BY DEF InOrder
  <2>2. Len(data') = Len(data) + 1 /\ Len(out') = Len(out) - 1
    BY <1>3, <1>4
  <2>3. produced' = produced /\ call' = call
    BY <1>2
  <2> QED
    BY <1>1, <2>1, <2>2, <2>3
<1> QED
  BY <1>5, <1>6, <1>7 DEF InOrder

\* Writing adds the next piece to the end of the pipe.
LEMMA WriteKeepsOrder ==
    ASSUME TypeOK, InOrder, ScriptWrites
    PROVE  InOrder'
<1>1. /\ Len(data) \in Nat /\ out \in Seq(Nat) /\ Len(out) \in Nat
      /\ produced \in Nat /\ call.output \in Nat
  BY LenProperties DEF TypeOK, Calls
<1>2. /\ out' = Append(out, produced + 1) /\ produced' = produced + 1
      /\ data' = data /\ call' = call /\ produced < call.output
  BY DEF ScriptWrites, parentVars
<1>3. /\ Len(out') = Len(out) + 1
      /\ \A k \in 1..Len(out) : out'[k] = out[k]
      /\ out'[Len(out) + 1] = produced + 1
  BY <1>1, <1>2, AppendProperties
<1>4. produced = Len(data) + Len(out) /\ \A k \in 1..Len(out) : out[k] = Len(data) + k
  BY DEF InOrder
<1>5. \A k \in 1..Len(out') : out'[k] = Len(data') + k
  <2> SUFFICES ASSUME NEW k \in 1..(Len(out) + 1)
               PROVE  out'[k] = Len(data) + k
    BY <1>2, <1>3
  <2>1. CASE k = Len(out) + 1
    BY <1>1, <1>3, <1>4, <2>1
  <2>2. CASE k # Len(out) + 1
    <3>1. k \in 1..Len(out)
      BY <1>1, <2>2
    <3> QED
      BY <1>3, <1>4, <3>1
  <2> QED
    BY <2>1, <2>2
<1>6. Len(data') + Len(out') = produced' /\ produced' <= call'.output
  BY <1>1, <1>2, <1>3, <1>4
<1> QED
  BY <1>2, <1>5, <1>6 DEF InOrder

LEMMA OrderStep ==
    ASSUME TypeOK, InOrder, [Next]_vars
    PROVE  InOrder'
<1>1. CASE Read
  BY <1>1, ReadKeepsOrder
<1>2. CASE ScriptWrites
  BY <1>2, WriteKeepsOrder
<1>3. CASE UNCHANGED <<call, data, out, produced>>
  BY <1>3 DEF InOrder
<1>4. \/ Read
      \/ ScriptWrites
      \/ UNCHANGED <<call, data, out, produced>>
  BY DEF Next, ParentStep, Fork, ForkFails, CloseWriteEnd, Wait, ReadEnd, ChildStep,
         Redirect, Feed, FeedEnd, Exec, ExecFails, ScriptStep, ScriptReads, ScriptExits,
         ScriptKilled, Die, parentVars, bodyVars, vars
<1> QED
  BY <1>1, <1>2, <1>3, <1>4

\* The write ends, the order of wait() and read(), and the ends of a script:
\* one step per action.
LEMMA ControlStep ==
    ASSUME IInv, TypeOK', InOrder', [Next]_vars
    PROVE  WriteEnds' /\ WaitedFor' /\ BodyKept' /\ EndsWell'
<1> USE DEF IInv, WriteEnds, WaitedFor, BodyKept, EndsWell, Ended
<1>1. CASE Fork
  BY <1>1 DEF Fork, bodyVars
<1>2. CASE ForkFails
  BY <1>2 DEF ForkFails, bodyVars
<1>3. CASE CloseWriteEnd
  BY <1>3 DEF CloseWriteEnd, WithoutWriteEnd, bodyVars
<1>4. CASE Wait
  <2>1. ~CheckError(status)
    BY DEF CheckError, TypeOK
  <2> QED
    BY <1>4, <2>1 DEF Wait, bodyVars
<1>5. CASE Read
  BY <1>5 DEF Read, bodyVars
<1>6. CASE ReadEnd
  BY <1>6 DEF ReadEnd, bodyVars
<1>7. CASE Redirect
  <2>1. call.body \in Nat /\ heard \in Nat /\ fed \in Nat /\ unsent \in Nat
    BY DEF TypeOK, Calls
  <2>2. ~(call.body > 0) => unsent = 0
    BY <2>1
  <2> QED
    BY <1>7, <2>1, <2>2 DEF Redirect, parentVars, bodyVars
<1>8. CASE Feed
  BY <1>8 DEF Feed, TypeOK, parentVars
<1>9. CASE FeedEnd
  BY <1>9 DEF FeedEnd, parentVars, bodyVars
<1>10. CASE Exec
  BY <1>10 DEF Exec, parentVars, bodyVars
<1>11. CASE ExecFails
  <2>1. NotStarted \in Nat /\ NotStarted > 0
    BY DEF NotStarted, ERROR
  <2> QED
    BY <1>11, <2>1 DEF ExecFails, Die, parentVars, bodyVars
<1>12. CASE ScriptReads
  <2>1. call.body \in Nat /\ heard \in Nat /\ fed \in Nat /\ unsent \in Nat
    BY DEF TypeOK, Calls
  <2> QED
    BY <1>12, <2>1 DEF ScriptReads, parentVars
<1>13. CASE ScriptWrites
  BY <1>13 DEF ScriptWrites, parentVars, bodyVars
<1>14. CASE ScriptExits
  BY <1>14 DEF ScriptExits, HeardAll, Die, TypeOK, Calls, parentVars, bodyVars
<1>15. CASE ScriptKilled
  BY <1>15 DEF ScriptKilled, Die, SIGKILL, parentVars, bodyVars
<1>16. CASE UNCHANGED vars
  BY <1>16 DEF vars
<1> QED
  BY <1>1, <1>2, <1>3, <1>4, <1>5, <1>6, <1>7, <1>8, <1>9, <1>10, <1>11, <1>12,
     <1>13, <1>14, <1>15, <1>16
     DEF Next, ParentStep, ChildStep, ScriptStep

\* IInv is inductive.
THEOREM CgiInvariance == Spec => []IInv
<1>1. Init => IInv
  <2> SUFFICES ASSUME Init
               PROVE  IInv
    OBVIOUS
  <2>1. TypeOK
    <3>1. call.body \in Nat /\ <<>> \in Seq(Nat)
      BY DEF Init, Calls
    <3> QED
      BY <3>1 DEF Init, TypeOK, Parents, Children
  <2>2. InOrder
    <3>1. data = <<>> /\ out = <<>> /\ produced = 0 /\ call.output \in Nat
      BY DEF Init, Calls
    <3>2. Len(<<>>) = 0
      OBVIOUS
    <3> QED
      BY <3>1, <3>2 DEF InOrder
  <2>3. WriteEnds /\ WaitedFor /\ EndsWell
    BY DEF Init, WriteEnds, WaitedFor, EndsWell, Ended
  <2>4. BodyKept
    BY DEF Init, BodyKept, Ended, Calls
  <2> QED
    BY <2>1, <2>2, <2>3, <2>4 DEF IInv
<1>2. IInv /\ [Next]_vars => IInv'
  <2> SUFFICES ASSUME IInv, [Next]_vars
               PROVE  IInv'
    OBVIOUS
  <2>1. TypeOK'
    BY TypeStep DEF IInv
  <2>2. InOrder'
    BY OrderStep DEF IInv
  <2> QED
    BY <2>1, <2>2, ControlStep DEF IInv
<1> QED
  BY <1>1, <1>2, PTL DEF Spec

\* What exec_Cgi returns is all the script wrote, in order.
THEOREM AnswerWhole == Spec => []WholeOutput
<1>1. IInv => WholeOutput
  <2> SUFFICES ASSUME IInv, parent = "returned"
               PROVE  data = Output(produced) /\ (status = 0 => produced = call.output)
    BY DEF WholeOutput
  <2>1. out = <<>> /\ child = "reaped"
    BY DEF IInv, WaitedFor
  <2>2. data \in Seq(Nat) /\ Len(data) = produced /\ \A k \in 1..Len(data) : data[k] = k
    BY <2>1, EmptySeq, LenProperties DEF IInv, TypeOK, InOrder
  <2>3. data = Output(produced)
    BY <2>2, LenProperties DEF Output
  <2> QED
    BY <2>1, <2>3 DEF IInv, EndsWell, Ended
<1> QED
  BY <1>1, CgiInvariance, PTL

\* A script that listens to the end of its input and ends well has had all of
\* the request's body.
THEOREM BodyDelivered == Spec => []WholeBody
<1>1. IInv => WholeBody
  BY DEF IInv, WholeBody, BodyKept, EndsWell, Ended, TypeOK, Calls
<1> QED
  BY <1>1, CgiInvariance, PTL

\* No end of the child makes check_error throw.
THEOREM SurvivesScripts == Spec => []OnlyForkThrows
<1>1. IInv => OnlyForkThrows
  BY DEF IInv, WaitedFor, OnlyForkThrows
<1> QED
  BY <1>1, CgiInvariance, PTL

\* Cgi implements CgiCall: a step of a script writes, ends or is not seen; the
\* parent's last read() is the answer.
THEOREM Refinement == Spec => ImplementsCall
<1>1. Init => Call!Init
  BY DEF Init, Call!Init, Ended
<1>2. IInv /\ IInv' /\ WholeOutput' /\ [Next]_vars => [Call!Next]_(Call!callVars)
  <2> SUFFICES ASSUME IInv, IInv', WholeOutput', [Next]_vars
               PROVE  Call!Next \/ UNCHANGED Call!callVars
    OBVIOUS
  <2> USE DEF IInv, WaitedFor, Ended
  <2>1. CASE ReadEnd
    <3>1. child = "reaped" /\ child' = "reaped" /\ parent = "read" /\ parent' = "returned"
          /\ produced' = produced
      BY <2>1 DEF ReadEnd
    <3>2. data' = Output(produced)
      BY <3>1 DEF WholeOutput, Output
    <3>3. Call!Answer
      BY <3>1, <3>2 DEF Call!Answer, Call!Output, Output
    <3> QED
      BY <3>3 DEF Call!Next
  <2>2. CASE ScriptWrites
    <3>1. Call!Produce
      BY <2>2 DEF ScriptWrites, Call!Produce, parentVars
    <3> QED
      BY <3>1 DEF Call!Next
  <2>3. CASE ExecFails \/ ScriptExits \/ ScriptKilled
    <3>1. Call!End
      BY <2>3 DEF ExecFails, ScriptExits, ScriptKilled, Die, Call!End, parentVars
    <3> QED
      BY <3>1 DEF Call!Next
  <2>4. CASE ParentStep /\ ~ReadEnd
    BY <2>4 DEF ParentStep, Fork, ForkFails, CloseWriteEnd, Wait, Read, Call!callVars
  <2>5. CASE ChildStep \/ ScriptReads
    BY <2>5 DEF ChildStep, Redirect, Feed, FeedEnd, Exec, ScriptReads, parentVars,
                Call!callVars
  <2>6. CASE UNCHANGED vars
    BY <2>6 DEF vars, Call!callVars
  <2> QED
    BY <2>1, <2>2, <2>3, <2>4, <2>5, <2>6 DEF Next, ScriptStep
<1> QED
  BY <1>1, <1>2, CgiInvariance, AnswerWhole, PTL DEF Spec, ImplementsCall, Call!SafeSpec
-----------------------------------------------------------------------------
(* The headers of a script *)

HIDE CgiAssumption

\* What the provers are not told: that these four are texts.
Symbols == STRING \cup {"CR", "LF", ":", " "}
FieldSet == [name : Symbols, space : Seq(Symbols), value : Seq(Symbols)]
Plain(f) ==
    /\ f.name \notin {":", "CR"} /\ f.space = <<" ">>
    /\ \A i \in DOMAIN f.value : f.value[i] # "CR"

LEMMA EndTyped ==
    /\ CRLF \in Seq(Symbols) /\ Len(CRLF) = 2 /\ CRLF[1] = "CR" /\ CRLF[2] = "LF"
    /\ BlankLine = <<"CR", "LF", "CR", "LF">>
<1>1. BlankLine = <<"CR", "LF", "CR", "LF">>
  BY TwoTwos, Zenon DEF BlankLine, CRLF
<1>2. "CR" \in Symbols /\ "LF" \in Symbols
  BY DEF Symbols
<1>3. CRLF \in Seq(Symbols)
  BY <1>2, Typed2, Zenon DEF CRLF
<1>4. Len(CRLF) = 2 /\ CRLF[1] = "CR" /\ CRLF[2] = "LF"
  BY DEF CRLF
<1> QED
  BY <1>1, <1>3, <1>4, Zenon

\* What stands before the end of a line.
Word(f) == <<f.name, ":", " ">> \o f.value
WordSo(w, name, value) ==
    /\ w \in Seq(Symbols) /\ Len(w) = 3 + Len(value)
    /\ w[1] = name /\ w[2] = ":" /\ w[3] = " "
    /\ \A i \in 1..Len(value) : w[3 + i] = value[i]
LEMMA WordIs ==
    ASSUME NEW f \in FieldSet, Plain(f)
    PROVE  WordSo(Word(f), f.name, f.value) /\ Lacks(Word(f), "CR")
<1> DEFINE p == <<f.name, ":", " ">>
           v == f.value
           w == p \o v
<1>1. f.name \in Symbols /\ v \in Seq(Symbols) /\ DOMAIN v = 1..Len(v)
  BY DEF FieldSet
<1>2. p \in Seq(Symbols) /\ Len(p) = 3 /\ p[1] = f.name /\ p[2] = ":" /\ p[3] = " "
  <2>1. ":" \in Symbols /\ " " \in Symbols
    BY DEF Symbols
  <2>2. p \in Seq(Symbols)
    BY <1>1, <2>1, Typed3, Zenon
  <2>3. Len(p) = 3 /\ p[1] = f.name /\ p[2] = ":" /\ p[3] = " "
    OBVIOUS
  <2> QED
    BY <2>2, <2>3, Zenon
<1>3. Lacks(p, "CR")
  <2>1. f.name # "CR" /\ ":" # "CR" /\ " " # "CR"
    BY DEF Plain
  <2>2. \A i \in 1..3 : i = 1 \/ i = 2 \/ i = 3
    OBVIOUS
  <2> HIDE DEF p
  <2> QED
    BY <1>2, <2>1, <2>2 DEF Lacks
<1>4. Lacks(v, "CR")
  BY <1>1, Zenon DEF Plain, Lacks
<1> HIDE DEF p, v
<1>5. w \in Seq(Symbols) /\ Lacks(w, "CR")
  BY <1>1, <1>2, <1>3, <1>4, JoinTyped, LacksJoin, Zenon
<1>6. Len(w) = Len(p) + Len(v)
  BY <1>1, <1>2, JoinedLen, Zenon
<1>7. \A i \in 1..Len(p) : w[i] = p[i]
  BY <1>1, <1>2, JoinedBefore, Zenon
<1>8. \A i \in 1..Len(v) : w[Len(p) + i] = v[i]
  <2>1. p \in Seq(Symbols) /\ v \in Seq(Symbols)
    BY <1>1, <1>2, Zenon
  <2> QED
    BY ONLY <2>1, JoinedAfter
<1> HIDE DEF w
<1>9. w[1] = p[1] /\ w[2] = p[2] /\ w[3] = p[3]
  <2>1. 1 \in 1..Len(p) /\ 2 \in 1..Len(p) /\ 3 \in 1..Len(p)
    <3>1. Len(p) = 3
      BY <1>2, Zenon
    <3> QED
      BY ONLY <3>1
  <2> QED
    BY <1>7, <2>1, Zenon
<1>10. WordSo(w, f.name, v)
  BY <1>2, <1>5, <1>6, <1>8, <1>9, Zenon DEF WordSo
<1> QED
  BY <1>5, <1>10, Zenon DEF Word, w, p, v

IsLine(s, f, y) == s = Word(f) \o (CRLF \o y)
LEMMA LineIs ==
    ASSUME NEW f \in FieldSet, Plain(f), NEW y \in Seq(Symbols)
    PROVE  /\ FieldLine(f) = Word(f) \o CRLF /\ FieldLine(f) \in Seq(Symbols)
           /\ IsLine(FieldLine(f) \o y, f, y)
<1> DEFINE w == Word(f)
           c == CRLF
<1>1. f.space = <<" ">>
  BY DEF Plain
<1>2. <<f.name, ":">> \o <<" ">> = <<f.name, ":", " ">>
  BY TwoAndOne
<1>3. FieldLine(f) = w \o c
  BY <1>1, <1>2, Zenon DEF FieldLine, Word
<1>4. w \in Seq(Symbols) /\ c \in Seq(Symbols)
  BY WordIs, EndTyped, Zenon DEF WordSo
<1> HIDE DEF w, c
<1>5. w \o c \in Seq(Symbols) /\ (w \o c) \o y = w \o (c \o y)
  BY ONLY <1>4, y \in Seq(Symbols), SMTT(30)
<1> QED
  BY <1>3, <1>5, Zenon DEF IsLine, w, c

\* A turn of the loop on a text that begins with a line takes that line.
Turned(at, y, head, f) == at = [rest |-> y, head |-> Put(head, <<f.name>>, f.value)]
LEMMA LineTaken ==
    ASSUME NEW f \in FieldSet, Plain(f), NEW y \in Seq(Symbols), NEW head,
           NEW s, IsLine(s, f, y)
    PROVE  Turned(NextHeader([rest |-> s, head |-> head]), y, head, f)
<1> DEFINE w == Word(f)
           n == Len(w)
           v == f.value
           m == Len(v)
<1>1. WordSo(w, f.name, v) /\ Lacks(w, "CR")
  BY WordIs
<1>2. w \in Seq(Symbols) /\ v \in Seq(Symbols) /\ m \in Nat /\ n \in Nat
  BY <1>1, LenProperties DEF WordSo, FieldSet
<1>3. s = w \o (<<"CR", "LF">> \o y)
  BY Zenon DEF IsLine, CRLF
<1>4. Between(s, n, w, "CR", "LF", y)
  <2>1. "CR" \in Symbols /\ "LF" \in Symbols
    BY DEF Symbols
  <2> QED
    BY <1>2, <1>3, <2>1, TwoBetween, Zenon
<1>5. /\ Len(s) = n + 2 + Len(y) /\ s[n + 1] = "CR" /\ s[n + 2] = "LF"
      /\ From(s, n + 3) = y /\ Len(y) \in Nat
  BY <1>4, LenProperties DEF Between
<1>6. s \in Seq(Symbols) /\ \A i \in 1..n : s[i] = w[i]
  <2> DEFINE u == <<"CR", "LF">> \o y
  <2>1. u \in Seq(Symbols)
    BY EndTyped, JoinTyped, Zenon DEF CRLF
  <2> HIDE DEF u
  <2>2. s = w \o u
    BY <1>3, Zenon DEF u
  <2> QED
    BY <1>2, <2>1, <2>2, JoinTyped, JoinedBefore, Zenon
<1>7. /\ n = 3 + m /\ w[1] = f.name /\ w[2] = ":"
      /\ \A i \in 1..m : w[3 + i] = v[i]
      /\ \A i \in 1..n : w[i] # "CR"
  BY <1>1, Zenon DEF WordSo, Lacks
<1> HIDE DEF w, n, v, m
<1>8. Position(s, CRLF) = n + 1
  <2> DEFINE k == n + 1
  <2>1. k \in Nat /\ k - 1 = n /\ k \in 1..Len(s) /\ k + 2 <= Len(s) + 1
        /\ k + 1 - 1 = n + 1 /\ k + 2 - 1 = n + 2
    BY <1>2, <1>5
  <2>2. k = n + 1
    OBVIOUS
  <2> HIDE DEF k
  <2>3. StandsAt(CRLF, s, k)
    <3>1. s[k + 1 - 1] = "CR" /\ s[k + 2 - 1] = "LF"
      BY <1>5, <2>1
    <3>2. \A j \in 1..2 : j = 1 \/ j = 2
      OBVIOUS
    <3> QED
      BY <2>1, <3>1, <3>2, EndTyped DEF StandsAt
  <2>4. ASSUME NEW i \in 1..(k - 1) PROVE ~StandsAt(CRLF, s, i)
    <3>1. i \in 1..n /\ i + 1 - 1 = i /\ 1 \in 1..2
      BY <2>1
    <3>2. s[i + 1 - 1] # "CR"
      BY <1>6, <1>7, <3>1
    <3> QED
      BY <3>1, <3>2, EndTyped, Zenon DEF StandsAt
  <2>5. Position(s, CRLF) = k
    BY <1>6, <2>1, <2>3, <2>4, EndTyped, PositionAt, Zenon
  <2> QED
    BY <2>2, <2>5
<1>9. Find(s, ":") = 2
  <2>1. s[1] # ":" /\ s[2] = ":"
    <3>1. 1 \in 1..n /\ 2 \in 1..n
      BY <1>2, <1>7
    <3>2. f.name # ":"
      BY DEF Plain
    <3> QED
      BY <1>6, <1>7, <3>1, <3>2
  <2>2. 2 \in 1..Len(s) /\ \A j \in 1..(2 - 1) : j = 1
    BY <1>2, <1>5, <1>7
  <2> QED
    BY <1>6, <2>1, <2>2, FindAt
<1>10. SubSeq(s, 1, 2 - 1) = <<f.name>>
  <2>1. 1 \in 1..n /\ Len(s) >= 1 /\ 2 - 1 = 1
    BY <1>2, <1>5, <1>7
  <2>2. SubSeq(s, 1, 1) = <<s[1]>>
    BY <1>6, <2>1, Single
  <2> QED
    BY <1>6, <1>7, <2>1, <2>2
<1>11. ValueIn(s, 2, n + 1) = v
  <2> DEFINE x == SubSeq(s, 4, n)
  <2>1. n + 1 # 2 + 1 /\ 2 + 2 = 4 /\ n + 1 - 1 = n /\ n <= Len(s) /\ n \in 3..Len(s)
    BY <1>2, <1>5, <1>7
  <2>2. x \in Seq(Symbols) /\ Len(x) = n - 3 /\ \A i \in 1..(n - 3) : x[i] = s[3 + i]
    BY <1>2, <1>6, <2>1
  <2>3. ValueIn(s, 2, n + 1) = x
    <3> DEFINE k == n + 1
    <3>1. k # 2 + 1 /\ 2 + 2 = 4 /\ k - 1 = n
      BY <2>1
    <3> HIDE DEF k
    <3>2. ValueIn(s, 2, k) = SubSeq(s, 2 + 2, k - 1)
      BY <3>1, Zenon DEF ValueIn
    <3>3. SubSeq(s, 2 + 2, k - 1) = x
      BY <3>1, Zenon
    <3> QED
      BY <3>2, <3>3, Zenon DEF k
  <2> HIDE DEF x
  <2>4. Len(x) = m /\ \A i \in 1..m : i \in 1..(n - 3) /\ 3 + i \in 1..n
    BY <1>2, <1>7, <2>2
  <2>5. \A i \in 1..m : x[i] = v[i]
    BY <1>6, <1>7, <2>2, <2>4
  <2>6. x = v
    BY <1>2, <2>2, <2>4, <2>5, SeqEqual DEF m
  <2> QED
    BY <2>3, <2>6
<1>12. n + 1 # 0 /\ 2 # 0 /\ ~(2 > n + 1) /\ n + 1 + 2 = n + 3
  BY <1>2, <1>7
<1> DEFINE at == [rest |-> s, head |-> head]
<1>13. at.rest = s /\ at.head = head
  OBVIOUS
<1> HIDE DEF at
<1>14. NextHeader(at) = [rest |-> From(s, n + 1 + 2), head |-> Put(head, <<f.name>>, v)]
  BY <1>8, <1>9, <1>10, <1>11, <1>12, <1>13, Zenon DEF NextHeader
<1> QED
  BY <1>5, <1>12, <1>14, Zenon DEF Turned, at, v
\* The fields of an answer and their lines.
Fields(a) == Len(a.fields)
Lines(a) == [k \in DOMAIN a.fields |-> FieldLine(a.fields[k])]
LinesFrom(a, k) == FlattenSeq(SubSeq(Lines(a), k + 1, Fields(a)))

LEMMA WiderSeq ==
    ASSUME NEW A, NEW B, A \subseteq B, NEW s \in Seq(A)
    PROVE  s \in Seq(B)
OBVIOUS

LEMMA AnswerTyped ==
    ASSUME NEW a \in Answers, Separable(a)
    PROVE  /\ Fields(a) \in Nat \ {0} /\ DOMAIN a.fields = 1..Fields(a)
           /\ \A k \in 1..Fields(a) : a.fields[k] \in FieldSet /\ Plain(a.fields[k])
           /\ a.content \in Seq(Symbols)
<1> DEFINE Written_ == [name : STRING, space : Seq(STRING), value : Seq(STRING)]
           n == Fields(a)
<1>1. a.fields \in Seq(Written_) /\ a.content \in Seq(STRING) /\ a.fields # <<>>
  BY AnswersAssumption
<1>2. STRING \subseteq Symbols
  BY DEF Symbols
<1>3. a.content \in Seq(Symbols)
  BY <1>1, <1>2, WiderSeq
<1> HIDE DEF Written_
<1>4. n \in Nat /\ n > 0 /\ DOMAIN a.fields = 1..n
  BY <1>1, NotEmpty, Zenon DEF Fields
<1>5. ASSUME NEW k \in 1..n
      PROVE  a.fields[k] \in FieldSet /\ Plain(a.fields[k])
  <2> DEFINE f == a.fields[k]
  <2>1. f \in Written_
    BY <1>1, <1>4
  <2>2. Plain(f)
    BY <1>4, Zenon DEF Separable, Plain
  <2> HIDE DEF f
  <2>3. /\ f = [name |-> f.name, space |-> f.space, value |-> f.value]
        /\ f.name \in STRING /\ f.space \in Seq(STRING) /\ f.value \in Seq(STRING)
    BY <2>1 DEF Written_
  <2>4. f.space \in Seq(Symbols) /\ f.value \in Seq(Symbols) /\ f.name \in Symbols
    BY <1>2, <2>3, WiderSeq, Zenon
  <2>5. f \in FieldSet
    BY <2>3, <2>4 DEF FieldSet
  <2> QED
    BY <2>2, <2>5 DEF f
<1> QED
  BY <1>3, <1>4, <1>5

LEMMA LinesTyped ==
    ASSUME NEW a \in Answers, Separable(a)
    PROVE  /\ Lines(a) \in Seq(Seq(Symbols)) /\ Len(Lines(a)) = Fields(a)
           /\ \A k \in 1..Fields(a) : Lines(a)[k] = FieldLine(a.fields[k])
           /\ \A k \in 1..Fields(a) : Lines(a)[k] \in Seq(Symbols)
<1> DEFINE n == Fields(a)
<1>1. n \in Nat /\ DOMAIN a.fields = 1..n
      /\ \A k \in 1..n : a.fields[k] \in FieldSet /\ Plain(a.fields[k])
  BY AnswerTyped
<1>2. ASSUME NEW k \in 1..n PROVE FieldLine(a.fields[k]) \in Seq(Symbols)
  <2>1. <<>> \in Seq(Symbols)
    OBVIOUS
  <2> QED
    BY <1>1, <2>1, LineIs, Zenon
<1> HIDE DEF n
<1>3. Lines(a) = [k \in 1..n |-> FieldLine(a.fields[k])]
  BY <1>1, Zenon DEF Lines
<1>4. Lines(a) \in Seq(Seq(Symbols)) /\ Len(Lines(a)) = n
      /\ \A k \in 1..n : Lines(a)[k] = FieldLine(a.fields[k])
  BY <1>1, <1>2, <1>3
<1> QED
  BY <1>2, <1>4, Zenon DEF n

LEMMA LinesFromTyped ==
    ASSUME NEW a \in Answers, Separable(a), NEW k \in 0..Fields(a)
    PROVE  LinesFrom(a, k) \in Seq(Symbols)
<1>1. Fields(a) \in Nat /\ Lines(a) \in Seq(Seq(Symbols)) /\ Len(Lines(a)) = Fields(a)
  BY AnswerTyped, LinesTyped
<1>2. SubSeq(Lines(a), k + 1, Fields(a)) \in Seq(Seq(Symbols))
  BY <1>1, Parts
<1> QED
  BY <1>2, FlattenTyped, Zenon DEF LinesFrom

LEMMA LinesFromFirst ==
    ASSUME NEW a \in Answers, Separable(a)
    PROVE  LinesFrom(a, 0) = FlattenSeq(Lines(a))
<1>1. Lines(a) \in Seq(Seq(Symbols)) /\ Len(Lines(a)) = Fields(a)
  BY LinesTyped
<1>2. 0 + 1 = 1
  OBVIOUS
<1>3. SubSeq(Lines(a), 1, Len(Lines(a))) = Lines(a)
  BY <1>1, SubSeqFull, Zenon
<1> QED
  BY <1>1, <1>2, <1>3, Zenon DEF LinesFrom

LEMMA LinesFromLast ==
    ASSUME NEW a \in Answers, Separable(a)
    PROVE  LinesFrom(a, Fields(a)) = <<>>
<1>1. Fields(a) \in Nat
  BY AnswerTyped
<1>2. SubSeq(Lines(a), Fields(a) + 1, Fields(a)) = <<>>
  BY <1>1, SubSeqProperties
<1> QED
  BY <1>2, FlattenNone, Zenon DEF LinesFrom

LEMMA LinesFromNext ==
    ASSUME NEW a \in Answers, Separable(a), NEW k \in Nat, k < Fields(a)
    PROVE  /\ IsLine(LinesFrom(a, k), a.fields[k + 1], LinesFrom(a, k + 1))
           /\ Len(LinesFrom(a, k + 1)) < Len(LinesFrom(a, k))
<1> DEFINE n == Fields(a)
           f == a.fields[k + 1]
           x == Lines(a)[k + 1]
           ss == SubSeq(Lines(a), k + 2, n)
           y == FlattenSeq(ss)
<1>1. n \in Nat /\ Lines(a) \in Seq(Seq(Symbols)) /\ Len(Lines(a)) = n
  BY AnswerTyped, LinesTyped
<1>2. k + 1 \in 1..n /\ k + 1 \in 0..n /\ k + 1 + 1 = k + 2
  BY <1>1
<1>3. SubSeq(Lines(a), k + 1, n) = <<x>> \o ss
  BY <1>1, SubSeqFirst
<1>4. f \in FieldSet /\ Plain(f) /\ x = FieldLine(f) /\ x \in Seq(Symbols)
  BY <1>2, AnswerTyped, LinesTyped
<1>5. y = LinesFrom(a, k + 1) /\ y \in Seq(Symbols)
  BY <1>2, LinesFromTyped, Zenon DEF LinesFrom
<1>6. ss \in Seq(Seq(Symbols))
  <2>1. SubSeq(Lines(a), k + 1 + 1, n) \in Seq(Seq(Symbols))
    BY <1>1, <1>2, Parts
  <2> QED
    BY <1>2, <2>1
<1> HIDE DEF n, f, x, ss
<1>7. FlattenSeq(<<x>> \o ss) = x \o y
  <2>1. <<x>> \in Seq(Seq(Symbols))
    BY <1>4, Typed1, Zenon
  <2>2. FlattenSeq(<<x>> \o ss) = FlattenSeq(<<x>>) \o y
    BY <1>6, <2>1, FlattenConcat
  <2>3. FlattenSeq(<<x>>) = x
    BY <1>4, FlattenOne
  <2> QED
    BY <2>2, <2>3, Zenon
<1> HIDE DEF y
<1>8. LinesFrom(a, k) = x \o y
  BY <1>3, <1>7, Zenon DEF LinesFrom, n
<1>9. IsLine(x \o y, f, y)
  BY <1>4, <1>5, LineIs, Zenon
<1>10. Len(y) < Len(x \o y)
  <2>1. x = Word(f) \o CRLF /\ Word(f) \in Seq(Symbols)
    BY <1>4, <1>5, LineIs, WordIs, Zenon DEF WordSo
  <2>2. Len(x) = Len(Word(f)) + Len(CRLF)
    BY <2>1, EndTyped, JoinedLen, Zenon
  <2>3. Len(x \o y) = Len(x) + Len(y)
    BY <1>4, <1>5, JoinedLen, Zenon
  <2>4. Len(Word(f)) \in Nat /\ Len(y) \in Nat /\ Len(CRLF) = 2
    BY <1>5, <2>1, EndTyped, LenProperties
  <2> QED
    BY ONLY <2>2, <2>3, <2>4
<1> QED
  BY <1>5, <1>8, <1>9, <1>10, Zenon DEF f
\* The map after the first m fields.
Got(a, head, m) ==
    /\ DOMAIN head = {<<a.fields[j].name>> : j \in 1..m}
    /\ \A j \in 1..m : head[<<a.fields[j].name>>] = a.fields[j].value
LEMMA GotNone ==
    ASSUME NEW a
    PROVE  Got(a, <<>>, 0)
<1>1. DOMAIN <<>> = {} /\ 1..0 = {}
  OBVIOUS
<1> QED
  BY <1>1 DEF Got

LEMMA GotNext ==
    ASSUME NEW a \in Answers, Separable(a), NEW head, NEW m \in Nat, m < Fields(a),
           Got(a, head, m)
    PROVE  Got(a, Put(head, <<a.fields[m + 1].name>>, a.fields[m + 1].value), m + 1)
<1> DEFINE key == <<a.fields[m + 1].name>>
           value == a.fields[m + 1].value
           new == Put(head, key, value)
           Key(j) == <<a.fields[j].name>>
<1>1. IsPut(new, head, key, value)
  BY PutSo
<1>2. Fields(a) \in Nat /\ DOMAIN a.fields = 1..Fields(a)
  BY AnswerTyped
<1>3. /\ m + 1 \in 1..Fields(a) /\ 1..(m + 1) = 1..m \cup {m + 1}
      /\ \A j \in 1..m : j \in 1..Fields(a) /\ j # m + 1
  BY ONLY <1>2, m \in Nat, m < Fields(a)
<1>4. ASSUME NEW j \in 1..m PROVE Key(j) # key
  <2>1. a.fields[j].name # a.fields[m + 1].name
    BY <1>2, <1>3, Zenon DEF Separable
  <2> QED
    BY <2>1, SameText
<1>5. key = Key(m + 1)
  OBVIOUS
<1>6. /\ DOMAIN head = {Key(j) : j \in 1..m}
      /\ \A j \in 1..m : head[Key(j)] = a.fields[j].value
  BY Zenon DEF Got
<1> HIDE DEF key, new, Key
<1>7. DOMAIN new = {Key(j) : j \in 1..(m + 1)}
  BY <1>1, <1>3, <1>5, <1>6 DEF IsPut
<1>8. ASSUME NEW j \in 1..(m + 1) PROVE new[Key(j)] = a.fields[j].value
  <2>1. CASE j = m + 1
    BY <1>1, <1>5, <2>1 DEF IsPut
  <2>2. CASE j \in 1..m
    <3>1. Key(j) \in DOMAIN head /\ Key(j) # key
      BY <1>4, <1>6, <2>2
    <3>2. new[Key(j)] = head[Key(j)]
      BY <1>1, <3>1, Zenon DEF IsPut
    <3> QED
      BY <1>6, <2>2, <3>2
  <2> QED
    BY <1>3, <2>1, <2>2
<1> QED
  BY <1>7, <1>8, Zenon DEF Got, new, key, Key

\* After k turns m lines are taken, and what is left is short enough.
Reached(a, at, k) ==
    \E m \in 0..Fields(a) : \E head :
        /\ at = [rest |-> LinesFrom(a, m), head |-> head] /\ Got(a, head, m)
        /\ m = Fields(a) \/ Len(LinesFrom(a, m)) + k <= Len(LinesFrom(a, 0))
LEMMA ReachedFirst ==
    ASSUME NEW a \in Answers, Separable(a)
    PROVE  Reached(a, [rest |-> LinesFrom(a, 0), head |-> <<>>], 0)
<1>1. 0 \in 0..Fields(a)
  BY AnswerTyped
<1>2. Len(LinesFrom(a, 0)) + 0 <= Len(LinesFrom(a, 0))
  <2>1. Len(LinesFrom(a, 0)) \in Nat
    BY <1>1, LinesFromTyped, LenProperties, Zenon
  <2> QED
    BY ONLY <2>1
<1> QED
  BY <1>1, <1>2, GotNone, Zenon DEF Reached

LEMMA ReachedNext ==
    ASSUME NEW a \in Answers, Separable(a), NEW at, NEW k \in Nat, Reached(a, at, k)
    PROVE  Reached(a, NextHeader(at), k + 1)
<1> DEFINE n == Fields(a)
<1>1. PICK m \in 0..n : \E head :
          /\ at = [rest |-> LinesFrom(a, m), head |-> head] /\ Got(a, head, m)
          /\ m = n \/ Len(LinesFrom(a, m)) + k <= Len(LinesFrom(a, 0))
  BY Zenon DEF Reached
<1>2. PICK head : /\ at = [rest |-> LinesFrom(a, m), head |-> head] /\ Got(a, head, m)
                  /\ m = n \/ Len(LinesFrom(a, m)) + k <= Len(LinesFrom(a, 0))
  BY <1>1, Zenon
<1>3. n \in Nat /\ m \in Nat
  BY AnswerTyped
<1>4. CASE m = n
  <2>1. at.rest = <<>>
    BY <1>2, <1>4, LinesFromLast
  <2>2. Position(at.rest, CRLF) = 0
    BY <2>1, PositionNone, Zenon
  <2>3. NextHeader(at) = at
    BY <2>2, Zenon DEF NextHeader
  <2> QED
    BY <1>2, <1>4, <2>3, Zenon DEF Reached
<1>5. CASE m # n
  <2> DEFINE f == a.fields[m + 1]
             s == LinesFrom(a, m)
             y == LinesFrom(a, m + 1)
             new == Put(head, <<f.name>>, f.value)
  <2>1. m < n /\ m + 1 \in 1..n /\ m + 1 \in 0..n /\ 0 \in 0..n
    BY <1>3, <1>5
  <2>2. IsLine(s, f, y) /\ Len(y) < Len(s)
    BY <1>3, <2>1, LinesFromNext
  <2>3. f \in FieldSet /\ Plain(f)
    BY <2>1, AnswerTyped
  <2>4. y \in Seq(Symbols) /\ s \in Seq(Symbols) /\ LinesFrom(a, 0) \in Seq(Symbols)
    BY <2>1, LinesFromTyped, Zenon
  <2>5. Got(a, new, m + 1)
    BY <1>2, <1>3, <2>1, GotNext
  <2> HIDE DEF f, s, y, new
  <2>6. Turned(NextHeader([rest |-> s, head |-> head]), y, head, f)
    BY <2>2, <2>3, <2>4, LineTaken, Zenon
  <2>7. NextHeader(at) = [rest |-> y, head |-> new]
    BY <1>2, <2>6, Zenon DEF Turned, s, new
  <2>8. Len(y) + (k + 1) <= Len(LinesFrom(a, 0))
    <3>1. Len(s) + k <= Len(LinesFrom(a, 0))
      BY <1>2, <1>5 DEF s
    <3>2. Len(s) \in Nat /\ Len(y) \in Nat /\ Len(LinesFrom(a, 0)) \in Nat
      BY <2>4, LenProperties, Zenon
    <3> QED
      BY ONLY <2>2, <3>1, <3>2, k \in Nat
  <2> QED
    BY <2>1, <2>5, <2>7, <2>8, Zenon DEF Reached, y
<1> QED
  BY <1>4, <1>5

\* Turn after turn of the loop.
Turns(h, start, n) == h = [k \in 0..n |-> IF k = 0 THEN start ELSE NextHeader(h[k - 1])]
LEMMA TurnsSome ==
    ASSUME NEW start, NEW n \in Nat
    PROVE  \E h : Turns(h, start, n)
<1> DEFINE Good(h, m) == h = [k \in 0..m |-> IF k = 0 THEN start ELSE NextHeader(h[k - 1])]
           T == {m \in Nat : \E h : Good(h, m)}
<1>1. 0 \in T
  <2> DEFINE h == [k \in 0..0 |-> start]
  <2>1. Good(h, 0)
    OBVIOUS
  <2> QED
    BY <2>1
<1>2. ASSUME NEW m \in Nat, m \in T PROVE m + 1 \in T
  <2>1. PICK f : Good(f, m)
    BY <1>2
  <2> DEFINE x == NextHeader(f[m])
             h == [k \in 0..(m + 1) |-> IF k = m + 1 THEN x ELSE f[k]]
  <2>2. ASSUME NEW k \in 0..(m + 1)
        PROVE  h[k] = IF k = 0 THEN start ELSE NextHeader(h[k - 1])
    <3>1. CASE k = m + 1
      <4>1. h[k] = x /\ h[k - 1] = f[m] /\ k # 0
        BY <3>1
      <4> QED
        BY <4>1, Zenon
    <3>2. CASE k # m + 1
      <4>1. k \in 0..m /\ h[k] = f[k] /\ (k # 0 => h[k - 1] = f[k - 1])
        BY <3>2
      <4>2. f[k] = IF k = 0 THEN start ELSE NextHeader(f[k - 1])
        BY <2>1, <4>1
      <4> QED
        BY <4>1, <4>2, Zenon
    <3> QED
      BY <3>1, <3>2
  <2>3. h = [k \in 0..(m + 1) |-> h[k]]
    OBVIOUS
  <2> HIDE DEF h
  <2>4. Good(h, m + 1)
    BY <2>2, <2>3, Zenon
  <2> QED
    BY <2>4
<1> HIDE DEF T
<1>3. \A m \in Nat : m \in T
  BY <1>1, <1>2, Induction
<1> QED
  BY <1>3, Zenon DEF T, Turns

\* All headers are taken from their text.
LEMMA HeadersTakenIn ==
    ASSUME NEW a \in Answers, Separable(a)
    PROVE  Got(a, HeadersIn(LinesFrom(a, 0)), Fields(a))
<1> DEFINE s == LinesFrom(a, 0)
           n == Len(s)
           start == [rest |-> s, head |-> <<>>]
           g == CHOOSE f : Turns(f, start, n)
<1>1. n \in Nat /\ Fields(a) \in Nat /\ 0 \in 0..Fields(a)
  <2>1. Fields(a) \in Nat /\ 0 \in 0..Fields(a)
    BY AnswerTyped
  <2> QED
    BY <2>1, LinesFromTyped, LenProperties, Zenon
<1>2. HeadersIn(s) = g[n].head
  BY Zenon DEF HeadersIn, Loop, Turns
<1>3. Reached(a, start, 0)
  BY ReachedFirst, Zenon
<1> HIDE DEF start, n
<1>4. \E f : Turns(f, start, n)
  BY <1>1, TurnsSome
<1>5. Turns(g, start, n)
  BY <1>4, Zenon
<1> HIDE DEF g
<1>6. g[0] = start /\ \A k \in 1..n : g[k] = NextHeader(g[k - 1])
  BY <1>1, <1>5 DEF Turns
<1> DEFINE T == {k \in Nat : k \in 0..n => Reached(a, g[k], k)}
<1>7. 0 \in T
  BY <1>3, <1>6
<1>8. ASSUME NEW k \in Nat, k \in T PROVE k + 1 \in T
  <2> SUFFICES ASSUME k + 1 \in 0..n PROVE Reached(a, g[k + 1], k + 1)
    OBVIOUS
  <2>1. k \in 0..n /\ k + 1 \in 1..n /\ k + 1 - 1 = k
    BY <1>1
  <2>2. g[k + 1] = NextHeader(g[k])
    BY <1>6, <2>1
  <2>3. Reached(a, g[k], k)
    BY <1>8, <2>1
  <2>4. Reached(a, NextHeader(g[k]), k + 1)
    BY <2>3, ReachedNext
  <2> QED
    BY <2>2, <2>4
<1> HIDE DEF T
<1>9. \A k \in Nat : k \in T
  BY <1>7, <1>8, Induction
<1>10. Reached(a, g[n], n)
  BY <1>1, <1>9 DEF T
<1>11. PICK m \in 0..Fields(a) : \E head :
           /\ g[n] = [rest |-> LinesFrom(a, m), head |-> head] /\ Got(a, head, m)
           /\ m = Fields(a) \/ Len(LinesFrom(a, m)) + n <= n
  BY <1>10, Zenon DEF Reached, n
<1>12. m = Fields(a)
  <2> SUFFICES ASSUME m # Fields(a) PROVE FALSE
    OBVIOUS
  <2>1. m \in Nat /\ m < Fields(a) /\ m + 1 \in 0..Fields(a)
    BY <1>1
  <2>2. Len(LinesFrom(a, m + 1)) < Len(LinesFrom(a, m))
    BY <2>1, LinesFromNext
  <2>3. Len(LinesFrom(a, m)) \in Nat /\ Len(LinesFrom(a, m + 1)) \in Nat
    BY <2>1, LinesFromTyped, LenProperties, Zenon
  <2>4. Len(LinesFrom(a, m)) + n <= n
    BY <1>11
  <2> QED
    BY ONLY <1>1, <2>2, <2>3, <2>4
<1>13. Got(a, g[n].head, Fields(a))
  BY <1>11, <1>12
<1> QED
  BY <1>2, <1>13, Zenon DEF s
\* No blank line within, nor across a line that follows; and a line's end at the end.
NoBlank(s) ==
    \A i \in 1..Len(s) :
        s[i] = "CR" => i # 1 /\ i + 1 <= Len(s) /\ (i + 2 <= Len(s) => s[i + 2] # "CR")
EndsLine(s) ==
    s = <<>> \/ (Len(s) >= 2 /\ s[Len(s) - 1] = "CR" /\ s[Len(s)] = "LF")
LEMMA NoBlankJoined ==
    ASSUME NEW x \in Seq(Symbols), NEW y \in Seq(Symbols), NoBlank(x), NoBlank(y)
    PROVE  NoBlank(x \o y)
<1> DEFINE s == x \o y
           n == Len(x)
           m == Len(y)
<1>1. n \in Nat /\ m \in Nat /\ Len(s) = n + m
  BY LenProperties, JoinedLen, Zenon
<1>2. \A i \in 1..n : s[i] = x[i]
  BY JoinedBefore, Zenon
<1>3. \A i \in 1..m : s[n + i] = y[i]
  BY JoinedAfter
<1>4. /\ \A i \in 1..n : x[i] = "CR" => i # 1 /\ i + 1 <= n /\ (i + 2 <= n => x[i + 2] # "CR")
      /\ \A i \in 1..m : y[i] = "CR" => i # 1 /\ i + 1 <= m /\ (i + 2 <= m => y[i + 2] # "CR")
  BY Zenon DEF NoBlank
<1> HIDE DEF s, n, m
<1> SUFFICES ASSUME NEW i \in 1..Len(s), s[i] = "CR"
             PROVE  i # 1 /\ i + 1 <= Len(s) /\ (i + 2 <= Len(s) => s[i + 2] # "CR")
  BY Zenon DEF NoBlank, s
<1>5. CASE i \in 1..n
  <2>1. x[i] = "CR" /\ i # 1 /\ i + 1 <= n /\ (i + 2 <= n => x[i + 2] # "CR")
    BY <1>2, <1>4, <1>5
  <2>2. CASE i + 2 <= n
    <3>1. i + 2 \in 1..n /\ i + 1 <= n + m
      BY ONLY <1>1, <1>5, <2>2
    <3> QED
      BY <1>1, <1>2, <2>1, <2>2, <3>1
  <2>3. CASE ~(i + 2 <= n)
    <3>1. i + 2 = n + 1 /\ i + 1 <= n + m /\ (i + 2 <= n + m => 1 \in 1..m)
      BY ONLY <1>1, <1>5, <2>1, <2>3
    <3>2. 1 \in 1..m => y[1] # "CR" /\ s[n + 1] = y[1]
      BY <1>3, <1>4
    <3>3. i + 2 <= n + m => s[i + 2] # "CR"
      BY <3>1, <3>2
    <3> QED
      BY <1>1, <2>1, <3>1, <3>3
  <2> QED
    BY <2>2, <2>3
<1>6. CASE i \notin 1..n
  <2> DEFINE j == i - n
  <2>1. j \in 1..m /\ i = n + j /\ i + 2 = n + (j + 2)
    BY ONLY <1>1, <1>6, i \in 1..Len(s)
  <2> HIDE DEF j
  <2>2. y[j] = "CR"
    BY <1>3, <2>1
  <2>3. j # 1 /\ j + 1 <= m /\ (j + 2 <= m => y[j + 2] # "CR")
    BY <1>4, <2>1, <2>2
  <2>4. /\ i # 1 /\ i + 1 <= n + m
        /\ i + 2 <= n + m => j + 2 \in 1..m
    BY ONLY <1>1, <2>1, <2>3
  <2>5. i + 2 <= n + m => s[i + 2] # "CR"
    <3>1. j + 2 \in 1..m => s[n + (j + 2)] = y[j + 2] /\ j + 2 <= m
      BY <1>1, <1>3
    <3> QED
      BY <2>1, <2>3, <2>4, <3>1
  <2> QED
    BY <1>1, <2>4, <2>5
<1> QED
  BY <1>5, <1>6

LEMMA EndsLineJoined ==
    ASSUME NEW x \in Seq(Symbols), NEW y \in Seq(Symbols), EndsLine(x), EndsLine(y)
    PROVE  EndsLine(x \o y)
<1>1. CASE y = <<>>
  <2>1. x \o y = x
    BY <1>1
  <2> QED
    BY <2>1
<1>2. CASE y # <<>>
  <2> DEFINE s == x \o y
             n == Len(x)
             m == Len(y)
  <2>1. n \in Nat /\ m \in Nat /\ Len(s) = n + m
    BY LenProperties, JoinedLen, Zenon
  <2>2. \A i \in 1..m : s[n + i] = y[i]
    BY JoinedAfter
  <2>3. m >= 2 /\ y[m - 1] = "CR" /\ y[m] = "LF"
    BY <1>2, Zenon DEF EndsLine
  <2> HIDE DEF s, n, m
  <2>4. /\ m - 1 \in 1..m /\ m \in 1..m /\ n + (m - 1) = Len(s) - 1 /\ n + m = Len(s)
        /\ Len(s) >= 2
    BY ONLY <2>1, <2>3
  <2>5. s[n + (m - 1)] = "CR" /\ s[n + m] = "LF"
    BY <2>2, <2>3, <2>4
  <2>6. Len(s) >= 2 /\ s[Len(s) - 1] = "CR" /\ s[Len(s)] = "LF"
    BY <2>4, <2>5
  <2> QED
    BY <2>6, Zenon DEF EndsLine, s
<1> QED
  BY <1>1, <1>2

LEMMA LineTidy ==
    ASSUME NEW f \in FieldSet, Plain(f)
    PROVE  NoBlank(FieldLine(f)) /\ EndsLine(FieldLine(f))
<1> DEFINE w == Word(f)
           n == Len(w)
           s == FieldLine(f)
<1>1. w \in Seq(Symbols) /\ w[1] = f.name /\ Len(w) = 3 + Len(f.value) /\ Lacks(w, "CR")
  BY WordIs DEF WordSo
<1>2. s = w \o CRLF /\ s \in Seq(Symbols)
  <2>1. <<>> \in Seq(Symbols)
    OBVIOUS
  <2> QED
    BY <2>1, LineIs, Zenon
<1>3. n \in Nat /\ n >= 3
  <2>1. Len(f.value) \in Nat
    BY LenProperties DEF FieldSet
  <2> QED
    BY <1>1, <2>1
<1> HIDE DEF w, s
<1>4. Len(s) = n + 2
  <2>1. Len(s) = Len(w) + Len(CRLF)
    BY <1>1, <1>2, EndTyped, JoinedLen, Zenon
  <2> QED
    BY <2>1, EndTyped
<1>5. \A i \in 1..n : s[i] # "CR"
  <2>1. \A i \in 1..n : s[i] = w[i]
    BY <1>1, <1>2, EndTyped, JoinedBefore, Zenon
  <2> QED
    BY <1>1, <2>1, Zenon DEF Lacks
<1>6. s[n + 1] = "CR" /\ s[n + 2] = "LF"
  <2>1. CRLF \in Seq(Symbols) /\ Len(CRLF) = 2 /\ CRLF[1] = "CR" /\ CRLF[2] = "LF"
    BY EndTyped
  <2>2. \A i \in 1..Len(CRLF) : (w \o CRLF)[Len(w) + i] = CRLF[i]
    <3>1. w \in Seq(Symbols) /\ CRLF \in Seq(Symbols)
      BY <1>1, <2>1, Zenon
    <3> QED
      BY ONLY <3>1, JoinedAfter
  <2>3. 1 \in 1..2 /\ 2 \in 1..2
    OBVIOUS
  <2> QED
    BY <1>2, <2>1, <2>2, <2>3, Zenon
<1> HIDE DEF n
<1>7. NoBlank(s)
  <2> SUFFICES ASSUME NEW i \in 1..Len(s), s[i] = "CR"
               PROVE  i # 1 /\ i + 1 <= Len(s) /\ (i + 2 <= Len(s) => s[i + 2] # "CR")
    BY Zenon DEF NoBlank
  <2>1. i \notin 1..n
    BY <1>5
  <2>2. i # n + 2
    BY <1>6
  <2>3. i = n + 1
    BY ONLY <1>3, <1>4, <2>1, <2>2, i \in 1..Len(s)
  <2> QED
    BY ONLY <1>3, <1>4, <2>3
<1>8. EndsLine(s)
  <2>1. Len(s) - 1 = n + 1 /\ Len(s) >= 2
    BY ONLY <1>3, <1>4
  <2> QED
    BY <1>4, <1>6, <2>1 DEF EndsLine
<1> QED
  BY <1>7, <1>8 DEF s

\* The text of the headers.
LEMMA HeadersTidy ==
    ASSUME NEW a \in Answers, Separable(a)
    PROVE  LET s == LinesFrom(a, 0)
           IN  NoBlank(s) /\ EndsLine(s) /\ s \in Seq(Symbols) /\ s # <<>>
<1> DEFINE P == {s \in Seq(Symbols) : NoBlank(s) /\ EndsLine(s)}
           s == LinesFrom(a, 0)
<1>1. <<>> \in P
  <2>1. NoBlank(<<>>) /\ EndsLine(<<>>)
    BY DEF NoBlank, EndsLine
  <2> QED
    BY <2>1
<1>2. \A x \in P : \A y \in P : x \o y \in P
  BY JoinTyped, NoBlankJoined, EndsLineJoined, Zenon
<1>3. \A k \in 1..Len(Lines(a)) : Lines(a)[k] \in P
  <2> SUFFICES ASSUME NEW k \in 1..Fields(a) PROVE Lines(a)[k] \in P
    BY LinesTyped
  <2>1. Lines(a)[k] = FieldLine(a.fields[k]) /\ Lines(a)[k] \in Seq(Symbols)
    BY LinesTyped
  <2>2. a.fields[k] \in FieldSet /\ Plain(a.fields[k])
    BY AnswerTyped
  <2> QED
    BY <2>1, <2>2, LineTidy, Zenon
<1>4. P \in SUBSET Seq(Symbols)
  OBVIOUS
<1> HIDE DEF P
<1>5. FlattenSeq(Lines(a)) \in P
  BY <1>1, <1>2, <1>3, <1>4, LinesTyped, FlattenIn, Zenon
<1>6. s \in P
  BY <1>5, LinesFromFirst
<1>7. s # <<>>
  <2>1. 0 \in Nat /\ 0 < Fields(a) /\ 1 \in 0..Fields(a) /\ 0 + 1 = 1
    BY AnswerTyped
  <2>2. Len(LinesFrom(a, 1)) < Len(s)
    <3>1. Len(LinesFrom(a, 0 + 1)) < Len(LinesFrom(a, 0))
      BY ONLY <2>1, a \in Answers, Separable(a), LinesFromNext
    <3> QED
      BY <2>1, <3>1
  <2>3. Len(LinesFrom(a, 1)) \in Nat
    BY <2>1, LinesFromTyped, LenProperties, Zenon
  <2>4. Len(<<>>) = 0
    OBVIOUS
  <2> HIDE DEF s
  <2> QED
    BY <2>2, <2>3, <2>4
<1> QED
  BY <1>6, <1>7 DEF P
\* The blank line is found where the headers end, and the rest is the content.
Taken(t, a) ==
    /\ t.data = a.content
    /\ Got(a, t.head, Fields(a))
LEMMA AnswerTaken ==
    ASSUME NEW a \in Answers, Separable(a)
    PROVE  Written(a) \in Seq(Symbols) /\ Taken(RemoveHeaders(Written(a)), a)
<1> DEFINE h == LinesFrom(a, 0)
           c == a.content
           n == Len(h)
           t == Written(a)
<1>1. NoBlank(h) /\ EndsLine(h) /\ h \in Seq(Symbols) /\ h # <<>>
  BY HeadersTidy, Zenon
<1>2. c \in Seq(Symbols)
  BY AnswerTyped
<1>3. t = (h \o CRLF) \o c
  BY LinesFromFirst, Zenon DEF Written, Lines
<1>4. Got(a, HeadersIn(h), Fields(a))
  BY HeadersTakenIn
<1> HIDE DEF h, c, t
<1>5. t = h \o (CRLF \o c) /\ t \in Seq(Symbols)
  <2>1. CRLF \in Seq(Symbols)
    BY EndTyped
  <2>2. (h \o CRLF) \o c = h \o (CRLF \o c) /\ h \o (CRLF \o c) \in Seq(Symbols)
    BY ONLY <1>1, <1>2, <2>1, SMTT(30)
  <2> QED
    BY <1>3, <2>2, Zenon
<1>6. Between(t, n, h, "CR", "LF", c)
  <2>1. "CR" \in Symbols /\ "LF" \in Symbols
    BY DEF Symbols
  <2> QED
    BY <1>1, <1>2, <1>5, <2>1, TwoBetween, Zenon DEF CRLF
<1>7. /\ Len(t) = n + 2 + Len(c) /\ t[n + 1] = "CR" /\ t[n + 2] = "LF"
      /\ SubSeq(t, 1, n) = h /\ From(t, n + 3) = c
      /\ Len(c) \in Nat /\ n \in Nat
  BY <1>1, <1>2, <1>6, LenProperties, Zenon DEF Between
<1>8. \A i \in 1..n : t[i] = h[i]
  <2>1. CRLF \o c \in Seq(Symbols)
    BY <1>2, EndTyped, JoinTyped, Zenon
  <2> QED
    BY <1>1, <1>5, <2>1, JoinedBefore, Zenon
<1>9. n >= 2 /\ h[n - 1] = "CR" /\ h[n] = "LF"
  BY <1>1, Zenon DEF EndsLine
<1>10. \A i \in 1..n : h[i] = "CR" /\ i + 2 <= n => h[i + 2] # "CR"
  BY <1>1, Zenon DEF NoBlank
<1> HIDE DEF n
<1> DEFINE k == n - 1
<1>11. /\ k \in Nat /\ k \in 1..Len(t) /\ k + 4 <= Len(t) + 1
       /\ k + 1 - 1 = n - 1 /\ k + 2 - 1 = n /\ k + 3 - 1 = n + 1 /\ k + 4 - 1 = n + 2
       /\ k + 1 = n /\ k + 4 = n + 3 /\ k # 0
       /\ n - 1 \in 1..n /\ n \in 1..n
  BY ONLY <1>7, <1>9
<1> HIDE DEF k
<1>12. /\ Len(BlankLine) = 4 /\ BlankLine \in Seq(Symbols)
       /\ BlankLine[1] = "CR" /\ BlankLine[2] = "LF"
       /\ BlankLine[3] = "CR" /\ BlankLine[4] = "LF"
  <2>1. BlankLine \in Seq(Symbols)
    BY EndTyped, JoinTyped, Zenon DEF BlankLine
  <2>2. /\ Len(BlankLine) = 4
        /\ BlankLine[1] = "CR" /\ BlankLine[2] = "LF"
        /\ BlankLine[3] = "CR" /\ BlankLine[4] = "LF"
    BY EndTyped
  <2> QED
    BY <2>1, <2>2, Zenon
<1>13. StandsAt(BlankLine, t, k)
  <2>1. /\ t[k + 1 - 1] = "CR" /\ t[k + 2 - 1] = "LF"
        /\ t[k + 3 - 1] = "CR" /\ t[k + 4 - 1] = "LF"
    BY <1>7, <1>8, <1>9, <1>11
  <2>2. \A j \in 1..4 : j = 1 \/ j = 2 \/ j = 3 \/ j = 4
    OBVIOUS
  <2>3. \A j \in 1..4 : t[k + j - 1] = BlankLine[j]
    BY <1>12, <2>1, <2>2
  <2> QED
    BY <1>11, <1>12, <2>3, Zenon DEF StandsAt
<1>14. ASSUME NEW i \in 1..(k - 1), StandsAt(BlankLine, t, i) PROVE FALSE
  <2>1. /\ i \in 1..n /\ i + 2 \in 1..n /\ i + 2 <= n
        /\ i + 1 - 1 = i /\ i + 3 - 1 = i + 2 /\ 1 \in 1..4 /\ 3 \in 1..4
    <3>1. k \in Nat /\ k + 1 = n /\ n \in Nat
      BY <1>7, <1>11, Zenon
    <3> QED
      BY ONLY <3>1, i \in 1..(k - 1)
  <2>2. \A j \in 1..4 : t[i + j - 1] = BlankLine[j]
    BY <1>12, <1>14, Zenon DEF StandsAt
  <2>3. t[i + 1 - 1] = "CR" /\ t[i + 3 - 1] = "CR"
    BY <1>12, <2>1, <2>2, Zenon
  <2>4. t[i] = "CR" /\ t[i + 2] = "CR"
    BY <2>1, <2>3
  <2>5. h[i] = "CR" /\ h[i + 2] = "CR"
    BY <1>8, <2>1, <2>4, Zenon
  <2> QED
    BY <1>10, <2>1, <2>5, Zenon
<1>15. HeaderEnd(t) = k
  <2>1. Position(t, BlankLine) = k
    BY <1>5, <1>11, <1>12, <1>13, <1>14, PositionAt, Zenon
  <2> QED
    BY <2>1, Zenon DEF HeaderEnd
<1>16. RemoveHeaders(t) = [head |-> HeadersIn(SubSeq(t, 1, k + 1)), data |-> From(t, k + 4)]
  BY <1>11, <1>15, Zenon DEF RemoveHeaders
<1>17. RemoveHeaders(t) = [head |-> HeadersIn(h), data |-> c]
  BY <1>7, <1>11, <1>16, Zenon
<1>18. RemoveHeaders(t).head = HeadersIn(h) /\ RemoveHeaders(t).data = c
  BY <1>17
<1> QED
  BY <1>4, <1>5, <1>18, Zenon DEF Taken, c, t

\* What is read piece by piece is the text, if it is read in order and whole.
ReadAs(pieces, text) == [k \in DOMAIN pieces |-> text[pieces[k]]] = text
LEMMA TextRead ==
    ASSUME NEW text \in Seq(Symbols), NEW pieces, pieces = Output(Len(text))
    PROVE  ReadAs(pieces, text)
<1> DEFINE n == Len(text)
           read == [k \in DOMAIN pieces |-> text[pieces[k]]]
<1>1. n \in Nat /\ DOMAIN pieces = 1..n /\ \A k \in 1..n : pieces[k] = k
  BY LenProperties DEF Output
<1>2. read = [k \in 1..n |-> text[k]]
  BY <1>1
<1>3. text = [k \in 1..n |-> text[k]]
  OBVIOUS
<1> QED
  BY <1>2, <1>3, Zenon DEF ReadAs

\* Of a script that ends well and whose fields can be told apart, exec_Cgi and
\* remove_headers together give what it meant: each header under its name with its
\* value, and the content whole, however long and whatever the content looks like.
THEOREM HeadersTaken ==
    ASSUME \A a \in Answers : Separable(a)
    PROVE  Spec => []HeadersRemoved
<1>1. WholeOutput => HeadersRemoved
  <2> SUFFICES ASSUME WholeOutput, parent = "returned", status = 0,
                      NEW a \in Answers, Len(Written(a)) = call.output
               PROVE  LET text == Written(a)
                          taken == RemoveHeaders([k \in DOMAIN data |-> text[data[k]]])
                      IN  /\ taken.data = a.content
                          /\ DOMAIN taken.head = {<<a.fields[k].name>> : k \in DOMAIN a.fields}
                          /\ \A k \in DOMAIN a.fields :
                                 taken.head[<<a.fields[k].name>>] = a.fields[k].value
    BY Zenon DEF HeadersRemoved
  <2> DEFINE text == Written(a)
  <2>1. Separable(a)
    OBVIOUS
  <2>2. text \in Seq(Symbols) /\ Taken(RemoveHeaders(text), a)
    BY <2>1, AnswerTaken, Zenon
  <2>3. data = Output(Len(text))
    BY Zenon DEF WholeOutput
  <2>4. [k \in DOMAIN data |-> text[data[k]]] = text
    <3> HIDE DEF text
    <3>1. ReadAs(data, text)
      BY <2>2, <2>3, TextRead
    <3> QED
      BY <3>1, Zenon DEF ReadAs
  <2>5. DOMAIN a.fields = 1..Fields(a)
    BY <2>1, AnswerTyped
  <2> QED
    BY <2>2, <2>4, <2>5, Zenon DEF Taken, Got
<1> QED
  BY <1>1, AnswerWhole, PTL
=============================================================================
