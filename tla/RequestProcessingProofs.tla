---------------------- MODULE RequestProcessingProofs ----------------------
(***************************************************************************)
(* Proofs about RequestProcessing, for every configuration, all requests   *)
(* and any depth of the stack.                                             *)
(***************************************************************************)
EXTENDS RequestProcessing, SequenceTheorems, TLAPS

Frames == [code : Nat, body : Contents]

(* A block of the configuration, or none, has directives of their types. *)
LEMMA LocationTyped ==
    ASSUME NEW port \in DOMAIN Config, NEW path
    PROVE  Typed(Location(port, path))
<1> DEFINE places == Config[port].locations
           First(k) == /\ path[k] \in DOMAIN places
                       /\ \A j \in 1..(k - 1) : path[j] \notin DOMAIN places
<1>1. CASE \E k \in DOMAIN path : First(k)
  <2> DEFINE k == CHOOSE n \in DOMAIN path : First(n)
  <2>1. First(k)
    BY <1>1
  <2>2. Location(port, path) = places[path[k]]
    BY <1>1 DEF Location
  <2>3. \A place \in DOMAIN places : Typed(places[place])
    BY ProcessingAssumption
  <2> QED
    BY <2>1, <2>2, <2>3, Zenon
<1>2. CASE ~ \E k \in DOMAIN path : First(k)
  <2>1. Location(port, path) = NoBlock
    BY <1>2 DEF Location
  <2> QED
    BY <2>1 DEF NoBlock, Typed
<1> QED
  BY <1>1, <1>2

(* What a lookup finds. *)
LEMMA LookupTyped ==
    ASSUME NEW port \in DOMAIN Config, NEW path
    PROVE  /\ Lookup("directives", "root", port, path) \in [absolute : BOOLEAN, path : Paths]
           /\ Lookup("directives", "index", port, path) \in Names
           /\ Lookup("directives", "return", port, path) # Nothing =>
                  Lookup("directives", "return", port, path) \in Nat \ {0}
           /\ \A code : Lookup("pages", code, port, path) # Nothing =>
                  Lookup("pages", code, port, path) \in Paths
<1>1. Typed(Location(port, path))
  BY LocationTyped
<1>2. /\ {"allow", "root", "index", "autoindex", "cli_max_size"} \subseteq
             DOMAIN Config[port].server.directives
      /\ Typed(Config[port].server)
  BY ProcessingAssumption
<1> DEFINE here == Location(port, path)
           server == Config[port].server
<1> HIDE DEF here, server
<1>3. Typed(here) /\ Typed(server) /\ {"root", "index"} \subseteq DOMAIN server.directives
  BY <1>1, <1>2 DEF here, server
<1>4. \A kind, name : Lookup(kind, name, port, path) =
          IF name \in DOMAIN here[kind] THEN here[kind][name]
          ELSE IF name \in DOMAIN server[kind] THEN server[kind][name] ELSE Nothing
  BY DEF Lookup, here, server
<1>5. here.directives = here["directives"] /\ server.directives = server["directives"]
      /\ here.pages = here["pages"] /\ server.pages = server["pages"]
  OBVIOUS
<1>6. Lookup("directives", "root", port, path) \in [absolute : BOOLEAN, path : Paths]
  BY <1>3, <1>4, <1>5 DEF Typed
<1>7. Lookup("directives", "index", port, path) \in Names
  BY <1>3, <1>4, <1>5 DEF Typed
<1>8. Lookup("directives", "return", port, path) # Nothing =>
          Lookup("directives", "return", port, path) \in Nat \ {0}
  BY <1>3, <1>4, <1>5 DEF Typed
<1>9. \A code : Lookup("pages", code, port, path) # Nothing =>
          Lookup("pages", code, port, path) \in Paths
  BY <1>3, <1>4, <1>5 DEF Typed
<1> QED
  BY <1>6, <1>7, <1>8, <1>9

(* Paths that are put together of paths. *)
LEMMA PathsClosed ==
    /\ \A p, q \in Paths : p \o q \in Paths
    /\ \A p \in Paths, name \in Names : Append(p, name) \in Paths
    /\ \A p \in Paths : SubSeq(p, 1, Len(p) - 1) \in Paths
<1>1. \A p, q \in Paths : p \o q \in Paths
  BY DEF Paths
<1>2. \A p \in Paths, name \in Names : Append(p, name) \in Paths
  BY DEF Paths
<1>3. ASSUME NEW p \in Paths
      PROVE  SubSeq(p, 1, Len(p) - 1) \in Paths
  <2>1. /\ Len(p) - 1 \in Int
        /\ \A i \in 1..(Len(p) - 1) : p[i] \in Names
    BY DEF Paths
  <2> QED
    BY <2>1, SubSeqProperties DEF Paths
<1> QED
  BY <1>1, <1>2, <1>3

(* What the handlers look up and make of it. *)
LEMMA HandlerTypes ==
    ASSUME TypeOK, request \in Requests
    PROVE  /\ Root \in Paths
           /\ Target \in Paths
           /\ \A dir, path \in Paths : Script(dir, path) \in Paths
           /\ Upload \in Paths
           /\ Removal \in Paths
           /\ Info("return") # Nothing => Info("return") \in Nat \ {0}
           /\ \A code : ErrorPage(code) # Nothing => ErrorPage(code) \in Paths
<1>1. request.port \in DOMAIN Config /\ request.name \in Names
  BY ProcessingAssumption
<1>2. cwd \in Paths /\ url \in Paths
  BY DEF TypeOK
<1>3. Info("root") \in [absolute : BOOLEAN, path : Paths]
  BY <1>1, LookupTyped DEF Info
<1>4. Resolve(cwd, Info("root")) \in Paths
  BY <1>2, <1>3, PathsClosed DEF Resolve
<1>5. Info("index") \in Names
  BY <1>1, LookupTyped DEF Info
<1>6. Target \in Paths
  BY <1>2, <1>5, PathsClosed DEF Target
<1>7. \A dir, path \in Paths : Script(dir, path) \in Paths
  <2>1. <<"www">> \in Paths
    BY ProcessingAssumption DEF Paths
  <2> QED
    BY <2>1, PathsClosed DEF Script
<1>8. Upload \in Paths
  BY <1>1, <1>2, <1>4, PathsClosed DEF Upload
<1>9. Removal \in Paths
  <2> DEFINE root == Resolve(cwd, Info("root"))
  <2> HIDE DEF root
  <2>1. root \in Paths /\ root \o url \in Paths
    BY <1>2, <1>4, PathsClosed DEF root
  <2>2. <<request.name>> \in Paths
    BY <1>1 DEF Paths
  <2>3. ASSUME root # <<>> PROVE [root EXCEPT ![Len(root)] = Joined(@, request.name)] \in Paths
    <3>1. root \in Seq(Names) /\ root[Len(root)] \in Names
      BY <2>1, <2>3 DEF Paths
    <3> DEFINE joined == Joined(root[Len(root)], request.name)
    <3>2. joined \in Names
      BY <1>1, <3>1, JoinedAssumption
    <3> HIDE DEF joined
    <3>3. [root EXCEPT ![Len(root)] = joined] \in Seq(Names)
      <4> DEFINE n == Len(root)
      <4>1. root \in [1..n -> Names] /\ n \in Nat
        BY <3>1
      <4> HIDE DEF n
      <4>2. [root EXCEPT ![n] = joined] \in [1..n -> Names]
        BY <3>2, <4>1
      <4>3. [1..n -> Names] \subseteq Seq(Names)
        BY <4>1
      <4> QED
        BY <4>2, <4>3, Zenon DEF n
    <3> QED
      BY <3>3 DEF Paths, joined
  <2> QED
    BY <2>1, <2>2, <2>3 DEF Removal, root
<1>10. /\ Info("return") # Nothing => Info("return") \in Nat \ {0}
       /\ \A code : ErrorPage(code) # Nothing => ErrorPage(code) \in Paths
  BY <1>1, LookupTyped DEF Info, ErrorPage
<1> QED
  BY <1>2, <1>4, <1>6, <1>7, <1>8, <1>9, <1>10, PathsClosed DEF Root

(* The codes that are raised before a handler is chosen. *)
LEMMA ObjectionCode ==
    ASSUME request \in Requests
    PROVE  Objection \in {0, 400, 401, 402, 405}
BY ProcessingAssumption DEF Objection

(* The stack under its last call. *)
LEMMA Popped ==
    ASSUME NEW s \in Seq(Frames), s # <<>>
    PROVE  /\ SubSeq(s, 1, Len(s) - 1) \in Seq(Frames)
           /\ Len(SubSeq(s, 1, Len(s) - 1)) = Len(s) - 1
           /\ \A k \in 1..(Len(s) - 1) : SubSeq(s, 1, Len(s) - 1)[k] = s[k]
           /\ s[Len(s)] \in Frames
<1>1. Len(s) \in Nat /\ Len(s) > 0 /\ \A i \in 1..Len(s) : s[i] \in Frames
  BY EmptySeq
<1> DEFINE n == Len(s) - 1
<1>2. n \in Nat /\ \A i \in 1..n : s[i] \in Frames
  BY <1>1
<1> HIDE DEF n
<1>3. /\ SubSeq(s, 1, n) \in Seq(Frames)
      /\ Len(SubSeq(s, 1, n)) = IF 1 <= n THEN n - 1 + 1 ELSE 0
      /\ \A i \in 1..(n - 1 + 1) : SubSeq(s, 1, n)[i] = s[1 + i - 1]
  BY <1>2, SubSeqProperties
<1>4. Len(SubSeq(s, 1, n)) = n /\ \A k \in 1..n : SubSeq(s, 1, n)[k] = s[k]
  BY <1>2, <1>3
<1> QED
  BY <1>1, <1>3, <1>4 DEF n

(* What a return leaves of the stack. *)
LEMMA ReturnPops ==
    ASSUME TypeOK, Return
    PROVE  /\ Len(stack) \in Nat /\ Len(stack) > 0 /\ Len(stack') = Len(stack) - 1
           /\ \A k \in 1..(Len(stack) - 1) : stack'[k] = stack[k]
           /\ stack' \in Seq(Frames)
<1>1. stack \in Seq(Frames) /\ stack # <<>> /\ stack' = SubSeq(stack, 1, Len(stack) - 1)
  BY DEF Return, TypeOK, Frames
<1>2. Len(stack) \in Nat /\ Len(stack) > 0
  BY <1>1, EmptySeq
<1> QED
  BY <1>1, <1>2, Popped

(* Contents of a kind. *)
LEMMA ContentTyped ==
    /\ \A kind \in {"listing", "file", "cgi", "created", "deleted", "default",
                       "request", "location"}, path \in Paths : Content(kind, path) \in Contents
    /\ Nothing \in Contents /\ <<>> \in Paths
  BY DEF Content, Contents, Paths

(* A response that is filled in. *)
LEMMA FilledTyped ==
    ASSUME response \in [code : Nat, body : Contents, length : Contents], NEW body \in Contents
    PROVE  /\ Filled(body) \in [code : Nat, body : Contents, length : Contents]
           /\ [response EXCEPT !.length = body] \in
                  [code : Nat, body : Contents, length : Contents]
  BY DEF Filled

(* A call that is pushed. *)
LEMMA Pushed ==
    ASSUME NEW s \in Seq(Frames), NEW f \in Frames
    PROVE  /\ Append(s, f) \in Seq(Frames) /\ Append(s, f) # <<>>
           /\ Len(Append(s, f)) = Len(s) + 1
           /\ s # <<>> => Head(Append(s, f)) = Head(s)
           /\ s = <<>> => Head(Append(s, f)) = f
           /\ Len(s) > 1 => Append(s, f)[2] = s[2]
           /\ Len(s) = 1 => Append(s, f)[2] = f
<1> DEFINE t == Append(s, f)
<1>1. /\ t \in Seq(Frames) /\ t # <<>>
      /\ Len(t) = Len(s) + 1
      /\ \A i \in 1..Len(s) : t[i] = s[i]
      /\ t[Len(s) + 1] = f
  BY AppendProperties
<1> HIDE DEF t
<1>2. Len(s) \in Nat /\ (s # <<>> => Len(s) > 0) /\ (s = <<>> => Len(s) = 0)
  BY LenProperties, EmptySeq
<1>3. Head(t) = t[1] /\ (s # <<>> => Head(s) = s[1])
  OBVIOUS
<1>4. s # <<>> => Head(t) = Head(s)
  BY <1>1, <1>2, <1>3
<1>5. s = <<>> => Head(t) = f
  BY <1>1, <1>2, <1>3
<1>6. /\ Len(s) > 1 => t[2] = s[2]
      /\ Len(s) = 1 => t[2] = f
  BY <1>1, <1>2
<1> QED
  BY <1>1, <1>4, <1>5, <1>6 DEF t

-----------------------------------------------------------------------------
(* The inductive invariant. *)

LEMMA TypePreserved ==
    ASSUME TypeOK, Handled, [Next]_vars
    PROVE  TypeOK'
<1> USE ContentTyped DEF TypeOK, Frames
<1>1. CASE \E r \in Requests : Receive(r)
  BY <1>1, ProcessingAssumption DEF Receive, NoResponse
<1>2. CASE Dispatch
  BY <1>2 DEF Dispatch, Objection
<1>3. CASE Refuse
  <2>1. Objection \in Nat
    BY <1>3, ObjectionCode DEF Refuse, Handled
  <2> QED
    BY <1>3, <2>1 DEF Refuse, Raise
<1>4. CASE Redirect
  <2>1. Info("return") \in Nat
    BY <1>4, HandlerTypes DEF Redirect, Handled, Methods
  <2> QED
    BY <1>4, <2>1 DEF Redirect, Raise
<1>5. CASE ChdirFails
  BY <1>5 DEF ChdirFails
<1>6. CASE Get
  <2>1. request \in Requests
    BY <1>6 DEF Get, Handled
  <2>2. Root \in Paths /\ Target \in Paths /\ Script(Root, Target) \in Paths
        /\ Root \o Target \in Paths
    BY <2>1, HandlerTypes, PathsClosed
  <2>3. Raise(401) \/ Raise(404) \/ \E body \in Contents : RaiseThen(200, body)
    BY <1>6, <2>2 DEF Get
  <2>4. pc' = "http_code" /\ raising' \in Nat /\ stack' \in Seq(Frames)
    <3>1. CASE Raise(401) \/ Raise(404)
      BY <3>1 DEF Raise
    <3>2. CASE \E body \in Contents : RaiseThen(200, body)
      <4>1. PICK body \in Contents : RaiseThen(200, body)
        BY <3>2
      <4>2. [code |-> 0, body |-> body] \in Frames
        OBVIOUS
      <4>3. stack' \in Seq(Frames)
        BY <4>1, <4>2, Pushed DEF RaiseThen
      <4> QED
        BY <4>1, <4>3 DEF RaiseThen
    <3> QED
      BY <2>3, <3>1, <3>2
  <2> QED
    BY <1>6, <2>2, <2>4 DEF Get
<1>7. CASE PostRefused
  <2>1. Refusal \in Nat
    BY DEF Refusal
  <2> QED
    BY <1>7, <2>1 DEF PostRefused, Raise
<1>8. CASE PostScript
  <2>1. Script(cwd, url) \in Paths
    BY <1>8, HandlerTypes DEF PostScript, Handled
  <2>2. pc' = "http_code" /\ raising' \in Nat /\ stack' \in Seq(Frames)
    BY <1>8, <2>1, Pushed DEF PostScript, RaiseThen
  <2> QED
    BY <1>8, <2>2 DEF PostScript
<1>9. CASE PostUndefined
  BY <1>9 DEF PostUndefined
<1>10. CASE PostFile
  <2>1. Upload \in Paths
    BY <1>10, HandlerTypes DEF PostFile, Handled
  <2>2. response' \in [code : Nat, body : Contents, length : Contents]
    <3>1. Content("created", Upload) \in Contents /\ Content("request", <<>>) \in Contents
      BY <2>1
    <3>2. \/ response' = Filled(Content("created", Upload))
          \/ response' = [response EXCEPT !.length = Content("request", <<>>)]
      BY <1>10 DEF PostFile
    <3> QED
      BY <3>1, <3>2, FilledTyped
  <2>3. files' \subseteq Paths
    BY <1>10, <2>1 DEF PostFile
  <2>4. pc' = "http_code" /\ raising' \in Nat
    BY <1>10 DEF PostFile, Raise
  <2> QED
    BY <1>10, <2>2, <2>3, <2>4 DEF PostFile, Raise
<1>11. CASE Delete
  <2>1. Removal \in Paths
    BY <1>11, HandlerTypes DEF Delete, Handled
  <2>2. response' \in [code : Nat, body : Contents, length : Contents]
    <3>1. Content("deleted", Removal) \in Contents
      BY <2>1
    <3>2. \/ response' = Filled(Content("deleted", Removal))
          \/ response' = response
      BY <1>11 DEF Delete
    <3> QED
      BY <3>1, <3>2, FilledTyped
  <2>3. files' \subseteq Paths
    BY <1>11 DEF Delete
  <2>4. pc' = "http_code" /\ raising' \in Nat
    BY <1>11 DEF Delete, Raise
  <2> QED
    BY <1>11, <2>2, <2>3, <2>4 DEF Delete, Raise
<1>12. CASE ServePage
  <2>1. ErrorPage(raising) \in Paths
    BY <1>12, HandlerTypes DEF ServePage, Handled
  <2>2. stack' \in Seq(Frames)
    BY <1>12, Pushed DEF ServePage
  <2> QED
    BY <1>12, <2>1, <2>2 DEF ServePage, Methods
<1>13. CASE StackOverflow
  BY <1>13 DEF StackOverflow
<1>14. CASE DefaultPage
  BY <1>14 DEF DefaultPage, Filled
<1>15. CASE Return
  <2>1. stack' \in Seq(Frames) /\ stack[Len(stack)] \in Frames
    BY <1>15, Popped DEF Return
  <2>2. response' \in [code : Nat, body : Contents, length : Contents]
    BY <1>15, <2>1 DEF Return, Returned, Filled
  <2> QED
    BY <1>15, <2>1, <2>2 DEF Return
<1>16. CASE Answer
  BY <1>16 DEF Answer
<1>17. CASE UNCHANGED vars
  BY <1>17 DEF vars
<1> QED
  BY <1>1, <1>2, <1>3, <1>4, <1>5, <1>6, <1>7, <1>8, <1>9, <1>10, <1>11, <1>12, <1>13,
     <1>14, <1>15, <1>16, <1>17 DEF Next, Process

(* The calls that wait, and the code that is on its way. *)
LEMMA SettledPreserved ==
    ASSUME TypeOK, Handled, CodeSettled, [Next]_vars
    PROVE  Handled' /\ CodeSettled'
<1> USE DEF TypeOK, Frames, Handled, CodeSettled, Ended, Methods
<1>1. CASE \E r \in Requests : Receive(r)
  BY <1>1 DEF Receive
<1>2. CASE Dispatch
  BY <1>2 DEF Dispatch, Objection
<1>3. CASE Refuse
  BY <1>3 DEF Refuse, Raise
<1>4. CASE Redirect
  <2>1. Info("return") # 0
    BY <1>4, HandlerTypes DEF Redirect
  <2> QED
    BY <1>4, <2>1 DEF Redirect, Raise
<1>5. CASE ChdirFails
  BY <1>5 DEF ChdirFails
<1>6. CASE Get
  <2>1. Raise(401) \/ Raise(404) \/ \E body : RaiseThen(200, body)
    BY <1>6 DEF Get
  <2>2. request' = request /\ pc = "GET"
    BY <1>6 DEF Get
  <2>3. CASE Raise(401) \/ Raise(404)
    BY <2>2, <2>3 DEF Raise
  <2>4. CASE \E body : RaiseThen(200, body)
    <3>1. PICK body : RaiseThen(200, body)
      BY <2>4
    <3>2. /\ stack = <<>> => Head(stack') = [code |-> 0, body |-> body] /\ Len(stack') = 1
          /\ stack # <<>> => Head(stack') = Head(stack) /\ Len(stack') > 1
          /\ Len(stack) > 1 => stack'[2] = stack[2]
          /\ stack' # <<>>
      BY <3>1 DEF RaiseThen
    <3> QED
      BY <2>2, <3>1, <3>2 DEF RaiseThen
  <2> QED
    BY <2>1, <2>3, <2>4
<1>7. CASE PostRefused
  BY <1>7 DEF PostRefused, Raise
<1>8. CASE PostScript
  BY <1>8 DEF PostScript, RaiseThen
<1>9. CASE PostUndefined
  BY <1>9 DEF PostUndefined
<1>10. CASE PostFile
  BY <1>10 DEF PostFile, Raise
<1>11. CASE Delete
  BY <1>11 DEF Delete, Raise
<1>12. CASE ServePage
  <2>1. /\ stack = <<>> => Head(stack') = [code |-> raising, body |-> Nothing]
        /\ stack # <<>> => Head(stack') = Head(stack)
        /\ Len(stack) = 1 => stack'[2] = [code |-> raising, body |-> Nothing]
        /\ Len(stack) > 1 => stack'[2] = stack[2]
        /\ Len(stack') = Len(stack) + 1 /\ stack' # <<>>
    BY <1>12, ContentTyped, Pushed DEF ServePage
  <2> QED
    BY <1>12, <2>1 DEF ServePage
<1>13. CASE StackOverflow
  BY <1>13 DEF StackOverflow
<1>14. CASE DefaultPage
  BY <1>14 DEF DefaultPage
<1>15. CASE Return
  <2>1. /\ Len(stack) \in Nat /\ Len(stack) > 0 /\ Len(stack') = Len(stack) - 1
        /\ \A k \in 1..(Len(stack) - 1) : stack'[k] = stack[k]
        /\ stack' \in Seq(Frames)
    BY <1>15, ReturnPops
  <2>2. stack' # <<>> => Len(stack) > 1 /\ Head(stack') = Head(stack)
    BY <2>1
  <2>3. response'.code = IF stack[Len(stack)].code # 0 THEN stack[Len(stack)].code
                         ELSE response.code
    BY <1>15 DEF Return, Returned, Filled
  <2>4. pc' = "return" /\ pc = "return" /\ request' = request
    BY <1>15 DEF Return
  <2>5. Handled'
    BY <2>2, <2>4
  <2>6. response'.code # 0
    BY <2>3, <2>4
  <2>7. ASSUME stack' # <<>>, Head(stack').code = 0
        PROVE  IF Len(stack') > 1 THEN stack'[2].code = 200 ELSE response'.code = 200
    <3>1. Len(stack) > 1 /\ stack[2].code = 200
      BY <2>2, <2>7
    <3>2. Len(stack') > 1 => stack'[2] = stack[2]
      BY <2>1
    <3>3. ~(Len(stack') > 1) => Len(stack) = 2
      BY <2>1, <3>1
    <3> QED
      BY <2>3, <3>1, <3>2, <3>3
  <2> QED
    BY <2>4, <2>5, <2>6, <2>7
<1>16. CASE Answer
  BY <1>16 DEF Answer
<1>17. CASE UNCHANGED vars
  BY <1>17 DEF vars
<1> QED
  BY <1>1, <1>2, <1>3, <1>4, <1>5, <1>6, <1>7, <1>8, <1>9, <1>10, <1>11, <1>12, <1>13,
     <1>14, <1>15, <1>16, <1>17 DEF Next, Process

(* Types, what runs, and the code chosen, in every reachable state. *)
THEOREM ProcessingInvariance == Spec => []IInv
<1>1. Init => IInv
  BY ProcessingAssumption, ContentTyped
     DEF Init, IInv, TypeOK, Handled, CodeSettled, NoResponse, Methods, Ended
<1>2. IInv /\ [Next]_vars => IInv'
  BY TypePreserved, SettledPreserved DEF IInv
<1> QED
  BY <1>1, <1>2, PTL DEF Spec

-----------------------------------------------------------------------------
(* Each request is one operation on the files, with one code. *)

\* What HttpResources sees as the request that is served.
Asked == IF pc = "idle" THEN Nothing ELSE IF Ended THEN Dead ELSE request

LEMMA AskedPending ==
    ASSUME IInv, pc # "idle", ~Ended
    PROVE  Asked = request /\ Asked \notin {Nothing, Dead}
  BY ProcessingAssumption DEF Asked, IInv, Handled

(* A step of a handler: it chooses the code, or the code was chosen. *)
LEMMA HandlerStep ==
    ASSUME IInv, IInv', pc # "idle", ~Ended, pc' = "http_code", request' = request,
           files' = files, Chosen' \in Nat \ {0},
           Chosen = 0 \/ Chosen' = Chosen
    PROVE  [Resources!Next]_(Resources!resourceVars)
<1>1. Asked = request /\ Asked' = request /\ Asked \notin {Nothing, Dead}
  BY AskedPending DEF Asked, Ended
<1> QED
  BY <1>1 DEF Asked, Resources!Next, Resources!Pending, Resources!Choose,
              Resources!resourceVars

LEMMA StepRefines ==
    ASSUME IInv, IInv', [Next]_vars
    PROVE  [Resources!Next]_(Resources!resourceVars)
<1>a. stack \in Seq(Frames) /\ stack' \in Seq(Frames)
  BY DEF IInv, TypeOK, Frames
<1>b. /\ stack # <<>> => Head(stack).code \in Nat
      /\ stack' # <<>> => Head(stack').code \in Nat
  <2>1. \A s \in Seq(Frames) : s # <<>> => Head(s) \in Frames
    BY HeadTailProperties
  <2>2. \A f \in Frames : f.code \in Nat
    BY DEF Frames
  <2> QED
    BY <1>a, <2>1, <2>2
<1>c. Chosen \in Nat /\ Chosen' \in Nat
  BY <1>b DEF Chosen, IInv, TypeOK
<1> USE DEF IInv
<1>1. CASE \E r \in Requests : Receive(r)
  <2>1. PICK r \in Requests : Receive(r)
    BY <1>1
  <2>2. Resources!Ask(r)
    BY <2>1 DEF Receive, Handled, Chosen, Ended, Resources!Ask, NoResponse
  <2> QED
    BY <2>2 DEF Resources!Next
<1>2. CASE Dispatch
  BY <1>2 DEF Dispatch, Objection, Handled, Chosen, Ended, Methods, Resources!resourceVars
<1>3. CASE Refuse
  <2>1. stack = <<>> /\ pc = "processRequest"
    BY <1>3 DEF Refuse, Handled, Ended
  <2>2. Chosen = 0 /\ Chosen' \in {400, 401, 402, 405}
    BY <1>3, <2>1, ObjectionCode DEF Refuse, Raise, Chosen, Handled
  <2> QED
    BY <1>3, <2>1, <2>2, HandlerStep DEF Refuse, Raise, Ended
<1>4. CASE Redirect
  <2>1. Info("return") \in Nat \ {0}
    BY <1>4, HandlerTypes DEF Redirect, Handled
  <2>2. pc = "GET" /\ pc' = "http_code" /\ stack' = stack /\ raising' = Info("return")
    BY <1>4 DEF Redirect, Raise
  <2>3. Chosen' \in Nat \ {0} /\ (Chosen = 0 \/ Chosen' = Chosen)
    <3>1. CASE stack = <<>>
      BY <2>1, <2>2, <3>1 DEF Chosen
    <3>2. CASE stack # <<>>
      <4>1. Chosen' = Chosen /\ Chosen # 0
        BY <2>2, <3>2 DEF Chosen
      <4> QED
        BY <1>c, <4>1
    <3> QED
      BY <3>1, <3>2
  <2> QED
    BY <1>4, <2>2, <2>3, HandlerStep DEF Redirect, Ended
<1>5. CASE ChdirFails
  <2>1. Asked' = Dead /\ Chosen' \in Nat /\ files' = files
    BY <1>5, <1>c DEF ChdirFails, Asked, Ended
  <2> QED
    BY <2>1 DEF Asked, Resources!Next, Resources!Die
<1>6. CASE Get
  <2>1. pc = "GET" /\ pc' = "http_code" /\ request' = request /\ files' = files
    BY <1>6 DEF Get, Raise, RaiseThen
  <2>2. Raise(401) \/ Raise(404) \/ \E body : RaiseThen(200, body)
    BY <1>6 DEF Get
  <2>3. Chosen' \in Nat \ {0} /\ (Chosen = 0 \/ Chosen' = Chosen)
    <3>1. CASE Raise(401) \/ Raise(404)
      <4>1. stack' = stack /\ raising' \in {401, 404}
        BY <3>1 DEF Raise
      <4>2. stack = <<>> => Chosen = 0 /\ Chosen' \in {401, 404}
        BY <2>1, <4>1 DEF Chosen
      <4>3. stack # <<>> => Chosen' = Chosen /\ Chosen # 0
        BY <2>1, <4>1 DEF Chosen
      <4> QED
        BY <1>c, <4>2, <4>3
    <3>2. CASE \E body : RaiseThen(200, body)
      <4>1. PICK body : stack' = Append(stack, [code |-> 0, body |-> body])
        BY <3>2 DEF RaiseThen
      <4>2. /\ stack = <<>> => Head(stack').code = 0
            /\ stack # <<>> => Head(stack') = Head(stack)
            /\ stack' # <<>>
        BY <4>1 DEF TypeOK
      <4>3. stack = <<>> => Chosen = 0 /\ Chosen' = 200
        BY <2>1, <4>2 DEF Chosen
      <4>4. stack # <<>> => Chosen' = Chosen /\ Chosen # 0
        BY <2>1, <4>2 DEF Chosen
      <4> QED
        BY <1>c, <4>3, <4>4
    <3> QED
      BY <2>2, <3>1, <3>2
  <2> QED
    BY <2>1, <2>3, HandlerStep DEF Ended
<1>7. CASE PostRefused
  <2>1. stack = <<>> /\ pc = "POST" /\ Refusal \in Nat \ {0}
    BY <1>7 DEF PostRefused, Handled, Ended, Refusal
  <2>2. Chosen = 0 /\ Chosen' = Refusal
    BY <1>7, <2>1 DEF PostRefused, Raise, Chosen
  <2> QED
    BY <1>7, <2>1, <2>2, HandlerStep DEF PostRefused, Raise, Ended
<1>8. CASE PostScript
  <2>1. stack = <<>> /\ pc = "POST"
    BY <1>8 DEF PostScript, Handled, Ended
  <2>2. stack' = <<[code |-> 0, body |-> Content("cgi", Script(cwd, url))]>>
    BY <1>8, <2>1 DEF PostScript, RaiseThen
  <2>3. Chosen = 0 /\ Chosen' = 200
    BY <2>1, <2>2 DEF Chosen
  <2> QED
    BY <1>8, <2>1, <2>3, HandlerStep DEF PostScript, RaiseThen, Ended
<1>9. CASE PostUndefined
  <2>1. Asked' = Dead /\ Chosen' \in Nat /\ files' = files
    BY <1>9, <1>c DEF PostUndefined, Asked, Ended
  <2> QED
    BY <2>1 DEF Asked, Resources!Next, Resources!Die
<1>10. CASE PostFile
  <2>1. stack = <<>> /\ pc = "POST" /\ pc' = "http_code" /\ stack' = stack
        /\ request' = request /\ request.method = "POST"
    BY <1>10 DEF PostFile, Handled, Ended, Raise, Methods
  <2>2. CASE raising' = 200 /\ files' = files \cup {Upload}
    <3>1. Resources!Pending /\ Asked = request /\ Asked' = request
      BY <2>1, AskedPending DEF Asked, Resources!Pending, Chosen, Ended
    <3>2. Chosen' = 200 /\ Upload \in files'
      BY <2>1, <2>2 DEF Chosen
    <3>3. Resources!Upload
      BY <2>1, <2>2, <3>1, <3>2 DEF Asked, Resources!Upload
    <3> QED
      BY <3>3 DEF Resources!Next
  <2>3. CASE raising' = 400 /\ files' = files
    <3>1. Chosen = 0 /\ Chosen' = 400
      BY <2>1, <2>3 DEF Chosen
    <3> QED
      BY <2>1, <2>3, <3>1, HandlerStep DEF Ended
  <2> QED
    BY <1>10, <2>2, <2>3 DEF PostFile, Raise
<1>11. CASE Delete
  <2>1. stack = <<>> /\ pc = "DELETE" /\ pc' = "http_code" /\ stack' = stack
        /\ request' = request /\ request.method = "DELETE"
    BY <1>11 DEF Delete, Handled, Ended, Raise, Methods
  <2>2. CASE raising' = 200 /\ \E file \in files : files' = files \ {file}
    <3>1. Resources!Pending /\ Asked = request /\ Asked' = request
      BY <2>1, AskedPending DEF Asked, Resources!Pending, Chosen, Ended
    <3>2. Chosen' = 200
      BY <2>1, <2>2 DEF Chosen
    <3>3. Resources!Remove
      BY <2>1, <2>2, <3>1, <3>2 DEF Asked, Resources!Remove
    <3> QED
      BY <3>3 DEF Resources!Next
  <2>3. CASE raising' = 204 /\ files' = files
    <3>1. Chosen = 0 /\ Chosen' = 204
      BY <2>1, <2>3 DEF Chosen
    <3> QED
      BY <2>1, <2>3, <3>1, HandlerStep DEF Ended
  <2> QED
    BY <1>11, <2>2, <2>3 DEF Delete, Raise
<1>12. CASE ServePage
  <2>1. raising # 0 /\ pc = "http_code" /\ pc' = "GET" /\ request' = request
        /\ files' = files /\ stack' = Append(stack, [code |-> raising, body |-> Nothing])
    BY <1>12 DEF ServePage, CodeSettled
  <2>2. /\ stack = <<>> => Head(stack').code = raising
        /\ stack # <<>> => Head(stack') = Head(stack)
        /\ stack' # <<>>
    BY <2>1 DEF TypeOK
  <2>3. Chosen' = Chosen
    BY <2>1, <2>2 DEF Chosen
  <2> QED
    BY <2>1, <2>3 DEF Ended, Resources!resourceVars
<1>13. CASE StackOverflow
  <2>1. Asked' = Dead /\ files' = files
    BY <1>13 DEF StackOverflow, Asked, Ended
  <2> QED
    BY <1>c, <2>1 DEF Asked, Resources!Next, Resources!Die
<1>14. CASE DefaultPage
  <2>1. response'.code = raising
    BY <1>14 DEF DefaultPage, Filled, TypeOK
  <2>2. pc = "http_code" /\ pc' = "return" /\ request' = request /\ files' = files
        /\ stack' = stack
    BY <1>14 DEF DefaultPage
  <2>3. Chosen' = Chosen
    BY <2>1, <2>2 DEF Chosen
  <2> QED
    BY <2>2, <2>3 DEF Ended, Resources!resourceVars
<1>15. CASE Return
  <2>1. /\ Len(stack) \in Nat /\ Len(stack) > 0 /\ Len(stack') = Len(stack) - 1
        /\ \A k \in 1..(Len(stack) - 1) : stack'[k] = stack[k]
        /\ stack' \in Seq(Frames)
    BY <1>15, ReturnPops
  <2>2. pc = "return" /\ pc' = "return" /\ request' = request /\ files' = files
        /\ stack # <<>> /\ stack \in Seq(Frames)
    BY <1>15 DEF Return, TypeOK, Frames
  <2>3. response'.code = IF stack[Len(stack)].code # 0 THEN stack[Len(stack)].code
                         ELSE response.code
    BY <1>15 DEF Return, Returned, Filled, TypeOK
  <2>4. CASE Len(stack) > 1
    <3>1. stack' # <<>> /\ Head(stack') = Head(stack)
      BY <2>1, <2>2, <2>4
    <3> QED
      BY <2>2, <3>1 DEF Chosen, Ended, Resources!resourceVars
  <2>5. CASE Len(stack) = 1
    <3>1. stack' = <<>> /\ Head(stack) = stack[1]
      BY <2>1, <2>2, <2>5, EmptySeq
    <3>2. Head(stack).code = 0 => response.code = 200
      BY <2>2, <2>5 DEF CodeSettled
    <3>3. Chosen' = Chosen
      BY <2>2, <2>3, <2>5, <3>1, <3>2 DEF Chosen
    <3> QED
      BY <2>2, <3>3 DEF Ended, Resources!resourceVars
  <2> QED
    BY <2>1, <2>4, <2>5
<1>16. CASE Answer
  <2>1. pc = "return" /\ pc' = "idle" /\ stack = <<>> /\ stack' = <<>>
        /\ files' = files /\ response' = response
    BY <1>16 DEF Answer
  <2>2. Asked \notin {Nothing, Dead} /\ Asked' = Nothing
    BY <2>1, AskedPending DEF Asked, Ended
  <2>3. Chosen # 0 /\ Chosen' = Chosen
    BY <2>1 DEF Chosen, CodeSettled
  <2>4. Resources!Finish
    BY <2>1, <2>2, <2>3 DEF Asked, Resources!Finish
  <2> QED
    BY <2>4 DEF Resources!Next
<1>17. CASE UNCHANGED vars
  BY <1>17 DEF vars, Chosen, Ended, Resources!resourceVars
<1> QED
  BY <1>1, <1>2, <1>3, <1>4, <1>5, <1>6, <1>7, <1>8, <1>9, <1>10, <1>11, <1>12, <1>13,
     <1>14, <1>15, <1>16, <1>17 DEF Next, Process

(* Whatever the directives, the error pages and the depth of the recursion: a  *)
(* request is answered with the code that was first raised, and no file but    *)
(* the one it uploads or removes is touched.                                   *)
THEOREM ProcessingRefines == Spec => ImplementsResources
<1>1. Init => Resources!Init
  BY DEF Init, Resources!Init, Chosen, NoResponse
<1>2. IInv /\ IInv' /\ [Next]_vars => [Resources!Next]_(Resources!resourceVars)
  BY StepRefines
<1> QED
  BY <1>1, <1>2, ProcessingInvariance, PTL DEF Spec, ImplementsResources, Resources!SafeSpec

-----------------------------------------------------------------------------
(* What a lookup finds is in a block of the port. *)

LEMMA FoundInBlocks ==
    ASSUME NEW port \in DOMAIN Config, NEW path, NEW kind, NEW name,
           kind \in {"directives", "pages"},
           \/ Lookup(kind, name, port, path) # Nothing
           \/ name \in DOMAIN Config[port].server[kind]
    PROVE  \E block \in Blocks(port) :
               name \in DOMAIN block[kind] /\ block[kind][name] = Lookup(kind, name, port, path)
<1> DEFINE places == Config[port].locations
           First(k) == /\ path[k] \in DOMAIN places
                       /\ \A j \in 1..(k - 1) : path[j] \notin DOMAIN places
           here == Location(port, path)
           server == Config[port].server
<1>1. here = NoBlock \/ \E place \in DOMAIN places : here = places[place]
  <2>1. CASE \E k \in DOMAIN path : First(k)
    <3> DEFINE k == CHOOSE n \in DOMAIN path : First(n)
    <3>1. First(k) /\ here = places[path[k]]
      BY <2>1 DEF Location
    <3> QED
      BY <3>1
  <2> QED
    BY <2>1 DEF Location
<1>2. DOMAIN NoBlock[kind] = {}
  BY DEF NoBlock
<1> HIDE DEF here, places
<1>3. Lookup(kind, name, port, path) =
          IF name \in DOMAIN here[kind] THEN here[kind][name]
          ELSE IF name \in DOMAIN server[kind] THEN server[kind][name] ELSE Nothing
  BY DEF Lookup, here
<1>4. CASE name \in DOMAIN here[kind]
  <2>1. PICK place \in DOMAIN places : here = places[place]
    BY <1>1, <1>2, <1>4
  <2>2. here \in Blocks(port)
    BY <2>1 DEF Blocks, places
  <2> QED
    BY <1>3, <1>4, <2>2
<1>5. CASE name \notin DOMAIN here[kind]
  <2>1. name \in DOMAIN server[kind] /\ Lookup(kind, name, port, path) = server[kind][name]
    BY <1>3, <1>5
  <2> QED
    BY <2>1 DEF Blocks
<1> QED
  BY <1>4, <1>5

(* Without a page for 200 the request succeeds with what it has. *)
LEMMA NoPageFound ==
    ASSUME NoPageFor200, NEW port \in DOMAIN Config, NEW path
    PROVE  Lookup("pages", 200, port, path) = Nothing
<1> SUFFICES ASSUME Lookup("pages", 200, port, path) # Nothing PROVE FALSE
  OBVIOUS
<1>1. \E block \in Blocks(port) : 200 \in DOMAIN block["pages"]
  BY FoundInBlocks
<1>2. \A block \in Blocks(port) : 200 \notin DOMAIN block.pages
  BY DEF NoPageFor200
<1> QED
  BY <1>1, <1>2

-----------------------------------------------------------------------------
(* The announced length. *)

LEMMA LengthPreserved ==
    ASSUME NoPageFor200, TypeOK, Handled, LengthKept, [Next]_vars
    PROVE  LengthKept'
<1> USE DEF LengthKept
<1>a. response \in [code : Nat, body : Contents, length : Contents]
  BY DEF TypeOK
<1>b. \A body : Filled(body).body = Filled(body).length
  BY <1>a DEF Filled
<1>c. \A body : /\ [response EXCEPT !.length = body].length = body
                /\ [response EXCEPT !.length = body].body = response.body
  BY <1>a
<1>1. CASE \E r \in Requests : Receive(r)
  BY <1>1 DEF Receive, NoResponse, Methods
<1>2. CASE Dispatch
  BY <1>2 DEF Dispatch, Objection
<1>3. CASE Refuse
  BY <1>3 DEF Refuse, Raise, Methods
<1>4. CASE Redirect
  BY <1>4, <1>c DEF Redirect, Raise, Methods
<1>5. CASE ChdirFails
  BY <1>5 DEF ChdirFails, Methods
<1>6. CASE Get
  <2>1. /\ pc' = "http_code" /\ response' = response /\ response.body = Nothing
    BY <1>6 DEF Get, Raise, RaiseThen, Methods
  <2> QED
    BY <2>1
<1>7. CASE PostRefused
  BY <1>7 DEF PostRefused, Raise, Methods
<1>8. CASE PostScript
  BY <1>8, <1>c DEF PostScript, RaiseThen, Methods
<1>9. CASE PostUndefined
  BY <1>9 DEF PostUndefined, Methods
<1>10. CASE PostFile
  <2>1. pc' = "http_code" /\ response.body = Nothing
    BY <1>10 DEF PostFile, Raise, Methods
  <2>2. \/ raising' = 200 /\ response' = Filled(Content("created", Upload))
        \/ response' = [response EXCEPT !.length = Content("request", <<>>)]
    BY <1>10 DEF PostFile, Raise
  <2>3. Filled(Content("created", Upload)).body = Filled(Content("created", Upload)).length
    BY <1>b
  <2>4. [response EXCEPT !.length = Content("request", <<>>)].body = response.body
    BY <1>a
  <2> QED
    BY <2>1, <2>2, <2>3, <2>4 DEF Methods
<1>11. CASE Delete
  <2> DEFINE body == Content("deleted", Removal)
  <2>1. pc' = "http_code" /\ response.body = Nothing
    BY <1>11 DEF Delete, Raise, Methods
  <2>2. \/ raising' = 200 /\ response' = Filled(body)
        \/ response' = response
    BY <1>11 DEF Delete, Raise
  <2> QED
    BY <2>1, <2>2, <1>b DEF Methods
<1>12. CASE ServePage
  <2>1. request.port \in DOMAIN Config
    BY <1>12, ProcessingAssumption DEF ServePage, Handled
  <2>2. raising # 200
    BY <1>12, <2>1, NoPageFound DEF ServePage, ErrorPage
  <2> QED
    BY <1>12, <2>2 DEF ServePage
<1>13. CASE StackOverflow
  BY <1>13 DEF StackOverflow, Methods
<1>14. CASE DefaultPage
  <2>1. pc' = "return" /\ (response' = [Filled(Content("default", <<>>)) EXCEPT !.code = raising]
                           \/ response' = [response EXCEPT !.code = raising])
    BY <1>14 DEF DefaultPage
  <2>2. /\ Filled(Content("default", <<>>)) \in [code : Nat, body : Contents, length : Contents]
    BY <1>a, FilledTyped, ContentTyped
  <2>3. response'.body = response'.length \/ (response'.body = response.body
                                              /\ response'.length = response.length)
    BY <2>1, <2>2, <1>a, <1>b
  <2> QED
    BY <2>1, <2>3 DEF Methods
<1>15. CASE Return
  <2>1. pc' = "return" /\ response' = Returned(stack[Len(stack)])
    BY <1>15 DEF Return
  <2>2. response'.body = response'.length \/ (response'.body = response.body
                                              /\ response'.length = response.length)
    BY <2>1, <1>a, <1>b DEF Returned
  <2> QED
    BY <2>1, <2>2 DEF Methods
<1>16. CASE Answer
  BY <1>16 DEF Answer, Methods
<1>17. CASE UNCHANGED vars
  BY <1>17 DEF vars
<1> QED
  BY <1>1, <1>2, <1>3, <1>4, <1>5, <1>6, <1>7, <1>8, <1>9, <1>10, <1>11, <1>12, <1>13,
     <1>14, <1>15, <1>16, <1>17 DEF Next, Process

\* CONTENT-LENGTH is the length of the body that is sent, whatever error pages
\* are fetched or missing in between, unless one is configured for the code 200.
THEOREM LengthsAgree ==
    ASSUME NoPageFor200
    PROVE  Spec => []LengthAgrees
<1>1. Init => LengthKept
  BY DEF Init, LengthKept, NoResponse, Methods
<1>2. IInv /\ LengthKept /\ [Next]_vars => LengthKept'
  BY LengthPreserved DEF IInv
<1>3. LengthKept => LengthAgrees
  BY DEF LengthKept, LengthAgrees
<1> QED
  BY <1>1, <1>2, <1>3, ProcessingInvariance, PTL DEF Spec

-----------------------------------------------------------------------------
(* How deep an error page nests when nothing is wrong with it. *)

LEMMA RootThere ==
    ASSUME request \in Requests, RootsThere(request.port)
    PROVE  Info("root").absolute /\ Root = Info("root").path /\ Root \in Dirs
<1>1. request.port \in DOMAIN Config
  BY ProcessingAssumption
<1>2. "root" \in DOMAIN Config[request.port].server["directives"]
  BY <1>1, ProcessingAssumption
<1>3. \E block \in Blocks(request.port) :
          /\ "root" \in DOMAIN block["directives"]
          /\ block["directives"]["root"] = Info("root")
  BY <1>1, <1>2, FoundInBlocks DEF Info
<1>4. Info("root").absolute /\ Info("root").path \in Dirs
  BY <1>3 DEF RootsThere
<1> QED
  BY <1>4 DEF Root, Resolve

LEMMA PageKnown ==
    ASSUME request \in Requests, NEW code, ErrorPage(code) # Nothing
    PROVE  \E block \in Blocks(request.port) :
               code \in DOMAIN block.pages /\ block.pages[code] = ErrorPage(code)
<1>1. request.port \in DOMAIN Config
  BY ProcessingAssumption
<1>2. \E block \in Blocks(request.port) :
          code \in DOMAIN block["pages"] /\ block["pages"][code] = ErrorPage(code)
  BY <1>1, FoundInBlocks DEF ErrorPage
<1> QED
  BY <1>2

(* GET of an error page that is there sends it. *)
LEMMA PageOpens ==
    ASSUME request \in Requests, Favourable, url \in Pages(request.port)
    PROVE  /\ Info("return") = Nothing
           /\ Target = url
           /\ Root \o url \in files \ (Unreadable \cup Dirs)
<1>1. PICK block \in Blocks(request.port) :
          \E code \in DOMAIN block.pages : url = block.pages[code]
  BY DEF Pages
<1>2. /\ Info("return") = Nothing
      /\ Info("root").path \o url \in files \ (Unreadable \cup Dirs)
  BY <1>1 DEF Favourable, PagesThere, Info
<1>3. Root = Info("root").path
  BY RootThere DEF Favourable
<1> QED
  BY <1>2, <1>3 DEF Target

LEMMA ShallowPreserved ==
    ASSUME IInv, Shallow, [Next]_vars
    PROVE  Shallow'
<1>a. /\ stack \in Seq(Frames) /\ Len(stack) \in Nat
      /\ stack = <<>> <=> Len(stack) = 0
      /\ IInv'
  <2>1. stack \in Seq(Frames)
    BY DEF IInv, TypeOK, Frames
  <2> QED
    BY <2>1, EmptySeq, TypePreserved, SettledPreserved DEF IInv
<1>b. pc # "idle" => request \in Requests
  BY DEF IInv, Handled
<1>c. pc \in {"idle", "processRequest", "POST", "DELETE"} => stack = <<>>
  BY DEF IInv, Handled, Ended
<1>d. Favourable /\ pc = "GET" /\ stack # <<>> => PageWaits /\ url \in Pages(request.port)
  BY DEF Shallow, Succeeds
<1>e. Favourable /\ pc = "http_code" /\ stack # <<>> =>
          raising = 200 /\ (BodyWaits \/ BothWait)
  BY DEF Shallow, Succeeds
(* A request that is refused, redirected or answered at once. *)
<1>f. ASSUME stack' = <<>>, pc' \notin {"exited", "crashed"}
      PROVE  Shallow'
  BY <1>f DEF Shallow, Ended
(* A body that waits for its code. *)
<1>g. ASSUME NEW body \in Contents, RaiseThen(200, body), request' = request, files' = files,
             pc # "idle",
             Favourable => stack = <<>> \/ PageWaits
      PROVE  Shallow'
  <2>1. /\ Len(stack') = Len(stack) + 1
        /\ Len(stack) = 1 => stack'[2].code = 0
        /\ Len(stack) = 0 => stack'[1].code = 0
    <3> DEFINE f == [code |-> 0, body |-> body]
    <3>1. f \in Frames /\ stack' = Append(stack, f)
      BY <1>g DEF Frames, RaiseThen
    <3>2. f.code = 0
      OBVIOUS
    <3> HIDE DEF f
    <3>3. /\ Len(stack') = Len(stack) + 1 /\ stack'[Len(stack) + 1] = f
      BY <1>a, <3>1, AppendProperties
    <3>4. Len(stack) = 1 => stack'[2] = f
      BY <3>3
    <3>5. Len(stack) = 0 => stack'[1] = f
      BY <3>3
    <3> QED
      BY <3>2, <3>3, <3>4, <3>5
  <2>2. Favourable' => Favourable
    BY <1>g DEF Favourable, PagesThere, RootsThere
  <2>3. Succeeds' /\ ~Ended'
    BY <1>g DEF RaiseThen, Succeeds, Ended
  <2>4. Favourable => BodyWaits' \/ BothWait'
    <3>1. Favourable => Len(stack) = 0 \/ Len(stack) = 1
      BY <1>a, <1>g DEF PageWaits
    <3>2. Len(stack) = 0 => BodyWaits'
      BY <2>1 DEF BodyWaits
    <3>3. Len(stack) = 1 => BothWait'
      BY <2>1 DEF BothWait
    <3> QED
      BY <3>1, <3>2, <3>3
  <2> QED
    BY <2>2, <2>3, <2>4 DEF Shallow
<1>1. CASE \E r \in Requests : Receive(r)
  BY <1>1, <1>c, <1>f DEF Receive
<1>2. CASE Dispatch
  BY <1>2, <1>c, <1>f DEF Dispatch, Objection, Methods
<1>3. CASE Refuse
  BY <1>3, <1>c, <1>f DEF Refuse, Raise
<1>4. CASE Redirect
  <2>1. CASE stack = <<>>
    BY <1>4, <1>f, <2>1 DEF Redirect, Raise
  <2>2. CASE stack # <<>>
    <3>1. ~Favourable
      BY <1>4, <1>b, <1>d, <2>2, PageOpens DEF Redirect
    <3> QED
      BY <1>4, <3>1 DEF Redirect, Shallow, Favourable, RootsThere, PagesThere
  <2> QED
    BY <2>1, <2>2
<1>5. CASE ChdirFails
  <2>1. ~Favourable
    BY <1>5, <1>b, RootThere DEF ChdirFails, Favourable
  <2> QED
    BY <1>5, <2>1 DEF ChdirFails, Shallow, Favourable, RootsThere, PagesThere
<1>6. CASE Get
  <2>1. Favourable => stack = <<>> \/ PageWaits
    BY <1>6, <1>d DEF Get
  <2>2. \/ Raise(401) \/ Raise(404)
        \/ \E body \in Contents : RaiseThen(200, body)
    <3>1. Root \in Paths /\ Target \in Paths /\ Script(Root, Target) \in Paths
          /\ Root \o Target \in Paths
      BY <1>6, <1>b, HandlerTypes, PathsClosed DEF Get, IInv
    <3>2. /\ Content("listing", Root \o Target) \in Contents
          /\ Content("cgi", Script(Root, Target)) \in Contents
          /\ Content("file", Root \o Target) \in Contents
      BY <3>1, ContentTyped
    <3> QED
      BY <1>6, <3>2 DEF Get
  <2>3. request' = request /\ files' = files /\ pc = "GET"
    BY <1>6 DEF Get
  <2>4. CASE \E body \in Contents : RaiseThen(200, body)
    BY <1>g, <2>1, <2>3, <2>4
  <2>5. CASE (Raise(401) \/ Raise(404)) /\ stack = <<>>
    BY <1>f, <2>5 DEF Raise
  <2>6. CASE (Raise(401) \/ Raise(404)) /\ stack # <<>>
    <3>1. ~Favourable
      <4> SUFFICES ASSUME Favourable PROVE FALSE
        OBVIOUS
      <4>1. Target = url /\ Root \o url \in files \ (Unreadable \cup Dirs)
        BY <1>6, <1>b, <1>d, <2>6, PageOpens DEF Get
      <4>2. raising' # 200 /\ ~(Root \o Target \in Dirs)
            /\ Root \o Target \in Dirs \cup files /\ Root \o Target \notin Unreadable
        BY <2>6, <4>1 DEF Raise
      <4> QED
        BY <1>6, <4>2 DEF Get, RaiseThen
    <3> QED
      BY <2>3, <3>1 DEF Shallow, Favourable, RootsThere, PagesThere
  <2> QED
    BY <2>2, <2>4, <2>5, <2>6
<1>7. CASE PostRefused
  BY <1>7, <1>c, <1>f DEF PostRefused, Raise
<1>8. CASE PostScript
  <2>1. Content("cgi", Script(cwd, url)) \in Contents
    BY <1>8, <1>b, HandlerTypes, ContentTyped DEF PostScript, IInv, TypeOK
  <2> QED
    BY <1>8, <1>c, <1>g, <2>1 DEF PostScript
<1>9. CASE PostUndefined
  BY <1>9 DEF PostUndefined, Shallow, Favourable
<1>10. CASE PostFile
  BY <1>10, <1>c, <1>f DEF PostFile, Raise
<1>11. CASE Delete
  BY <1>11, <1>c, <1>f DEF Delete, Raise
<1>12. CASE ServePage
  <2>1. PICK block \in Blocks(request.port) :
            raising \in DOMAIN block.pages /\ block.pages[raising] = url'
    BY <1>12, <1>b, PageKnown DEF ServePage
  <2>2. Favourable => raising # 200 /\ stack = <<>>
    BY <1>12, <1>e, <2>1 DEF ServePage, Favourable, PagesThere
  <2>3. raising # 0 /\ stack = <<>> => PageWaits'
    BY <1>12 DEF ServePage, PageWaits
  <2>4. raising # 0
    BY <1>12 DEF ServePage, IInv, CodeSettled
  <2>5. url' \in Pages(request.port) /\ request' = request /\ Favourable' = Favourable
    BY <1>12, <2>1 DEF ServePage, Pages, Favourable, RootsThere, PagesThere
  <2> QED
    BY <1>12, <2>2, <2>3, <2>4, <2>5 DEF ServePage, Shallow, Ended
<1>13. CASE StackOverflow
  <2>1. PICK block \in Blocks(request.port) : raising \in DOMAIN block.pages
    BY <1>13, <1>b, PageKnown DEF StackOverflow
  <2>2. Favourable => raising # 200 /\ stack = <<>>
    BY <1>13, <1>e, <2>1 DEF StackOverflow, Favourable, PagesThere
  <2>3. ~Favourable
    BY <1>13, <1>a, <2>2, ProcessingAssumption DEF StackOverflow
  <2> QED
    BY <1>13, <2>3 DEF StackOverflow, Shallow, Favourable, RootsThere, PagesThere
<1>14. CASE DefaultPage
  <2>1. Favourable' = Favourable /\ stack' = stack /\ pc' = "return"
    BY <1>14 DEF DefaultPage, Favourable, RootsThere, PagesThere
  <2> QED
    BY <1>14, <1>e, <2>1 DEF DefaultPage, Shallow, BodyWaits, BothWait, PageWaits,
                            Succeeds, Ended
<1>15. CASE Return
  <2>1. /\ Len(stack) > 0 /\ Len(stack') = Len(stack) - 1
        /\ \A k \in 1..(Len(stack) - 1) : stack'[k] = stack[k]
        /\ stack' \in Seq(Frames)
    BY <1>15, ReturnPops DEF IInv
  <2>2. Favourable' = Favourable /\ pc' = "return" /\ pc = "return"
    BY <1>15 DEF Return, Favourable, RootsThere, PagesThere
  <2>3. Favourable => Len(stack) \in {1, 2}
    BY <1>a, <2>1, <2>2 DEF Shallow, BodyWaits, BothWait, PageWaits
  <2>4. Favourable => stack' = <<>> \/ Len(stack') = 1
    BY <1>a, <2>1, <2>3, EmptySeq
  <2> QED
    BY <2>2, <2>4 DEF Shallow, Ended, Succeeds, BodyWaits, PageWaits
<1>16. CASE Answer
  BY <1>16 DEF Answer, Shallow
<1>17. CASE UNCHANGED vars
  BY <1>17 DEF vars, Shallow, Favourable, RootsThere, PagesThere, BodyWaits, BothWait,
               PageWaits, Succeeds, Ended
<1> QED
  BY <1>1, <1>2, <1>3, <1>4, <1>5, <1>6, <1>7, <1>8, <1>9, <1>10, <1>11, <1>12, <1>13,
     <1>14, <1>15, <1>16, <1>17 DEF Next, Process

\* What it takes for a request to end the process, after any requests: a form
\* that is no script's, a root that is relative or missing, a missing page.
THEOREM ProcessingSurvives == Spec => []Survives
<1>1. Init => Shallow
  BY DEF Init, Shallow
<1>2. IInv /\ Shallow /\ [Next]_vars => Shallow'
  BY ShallowPreserved
<1>3. Shallow => Survives
  BY DEF Shallow, Survives, Favourable, Ended
<1> QED
  BY <1>1, <1>2, <1>3, ProcessingInvariance, PTL DEF Spec

(* A request that removes nothing leaves the pages where they are. *)
LEMMA WellConfiguredPreserved ==
    ASSUME Harmless, IInv, WellConfigured, [Next]_vars
    PROVE  WellConfigured'
<1>1. files \subseteq files'
  <2>1. ~Delete
    <3>1. pc = "DELETE" => request \in Requests /\ request.method = "DELETE"
      BY DEF IInv, Handled, Methods, Ended
    <3> QED
      BY <3>1 DEF Delete, Harmless
  <2>2. CASE \E r \in Requests : Receive(r)
    BY <2>2 DEF Receive
  <2>3. CASE Process
    BY <2>1, <2>3 DEF Process, Dispatch, Objection, Refuse, Redirect, ChdirFails, Get, PostRefused,
                      PostScript, PostUndefined, PostFile, ServePage, StackOverflow,
                      DefaultPage, Return, Answer
  <2> QED
    BY <2>2, <2>3 DEF Next, vars
<1> QED
  BY <1>1 DEF WellConfigured, RootsThere, PagesThere

\* "Your server should never die": it does not, when the directories and the
\* error pages of its configuration are there at the start, and no request is
\* a form that is no script's or removes a file.
THEOREM HarmlessStaysUp ==
    ASSUME Harmless
    PROVE  Spec /\ WellConfigured => []StaysUp
<1>1. Init => Shallow
  BY DEF Init, Shallow
<1>2. IInv /\ Shallow /\ WellConfigured /\ [Next]_vars => Shallow' /\ WellConfigured'
  BY ShallowPreserved, WellConfiguredPreserved
<1>3. IInv /\ Shallow /\ WellConfigured => StaysUp
  <2> SUFFICES ASSUME IInv, Shallow, WellConfigured, Ended PROVE FALSE
    BY DEF StaysUp
  <2>1. request \in Requests
    BY DEF Ended, IInv, Handled
  <2>2. request.port \in DOMAIN Config
    BY <2>1, ProcessingAssumption
  <2>3. Favourable
    BY <2>1, <2>2 DEF Harmless, WellConfigured, Favourable
  <2> QED
    BY <2>3 DEF Shallow, Ended
<1> QED
  BY <1>1, <1>2, <1>3, ProcessingInvariance, PTL DEF Spec

-----------------------------------------------------------------------------
(* The error page that is shown. *)

(* GET of an error page that can be sent. *)
LEMMA PageSent ==
    ASSUME PlainPages, TypeOK, request \in Requests, files \cap Dirs = {},
           NEW code, url = PageOf(code), url # Nothing, Sendable(url), Get
    PROVE  RaiseThen(200, Content("file", PageRoot(url).path \o url))
<1>1. request.port \in DOMAIN Config
  BY ProcessingAssumption
<1>2. ~IsPhp(url)
  <2>1. \E block \in Blocks(request.port) : code \in DOMAIN block["pages"] /\ block["pages"][code] = url
    BY <1>1, FoundInBlocks DEF PageOf
  <2> QED
    BY <1>1, <2>1 DEF PlainPages
<1>3. Root = PageRoot(url).path
  BY DEF Sendable, PageRoot, Root, Resolve, Info
<1>4. Root \o url \in files \ (Unreadable \cup Dirs)
  BY <1>3 DEF Sendable
<1>5. Target = url
  BY <1>4 DEF Target
<1> QED
  BY <1>2, <1>3, <1>4, <1>5 DEF Get

(* Before the page is sent. *)
LEMMA ShownByGet ==
    ASSUME NEW page, PageShown(page), ~Ended, ~Succeeds
    PROVE  PageWaits /\ pc = "GET" /\ url = page
BY DEF PageShown, Succeeds

(* The page of the first call that waits after a step. *)
LEMMA KeptNext ==
    ASSUME NEW page, page # Nothing, Sendable(page)' => PageShown(page)',
           Lookup("pages", stack'[1].code, request'.port, request'.url) = page
    PROVE  PageKept'
BY DEF PageKept, PageOf, Sendable, PageShown, PageRoot

LEMMA PagePreserved ==
    ASSUME NoPageFor200, PlainPages, IInv, PageFetched, [Next]_vars
    PROVE  PageFetched'
<1>a. /\ stack \in Seq(Frames) /\ Len(stack) \in Nat
      /\ stack = <<>> <=> Len(stack) = 0
      /\ TypeOK
  <2>1. stack \in Seq(Frames)
    BY DEF IInv, TypeOK, Frames
  <2> QED
    BY <2>1, EmptySeq DEF IInv
<1>b. pc # "idle" => request \in Requests
  BY DEF IInv, Handled
<1>c. pc \in {"idle", "processRequest", "POST", "DELETE"} => stack = <<>>
  BY DEF IInv, Handled, Ended
<1>d. /\ files \cap Dirs = {} /\ UrlAsked /\ PageKept
      /\ (files' \cap Dirs = {} /\ UrlAsked' /\ PageKept') => PageFetched'
  BY DEF PageFetched
(* No page waits, or nothing is lost of what it was fetched for. *)
<1>e. ASSUME files' \cap Dirs = {}, UrlAsked', stack' = <<>>
      PROVE  PageFetched'
  BY <1>e DEF PageFetched, PageKept
<1>f. ASSUME files' = files, request' = request, UrlAsked',
             stack # <<>> /\ stack' # <<>> /\ stack'[1] = stack[1],
             \A page : /\ stack[1].code # 0 /\ page = PageOf(stack[1].code)
                       /\ Sendable(page) /\ PageShown(page)
                       => PageShown(page)'
      PROVE  PageFetched'
  <2>1. ASSUME stack[1].code # 0 PROVE PageKept'
    <3>1. PICK page : page = PageOf(stack[1].code)
      OBVIOUS
    <3>2. page # Nothing /\ (Sendable(page) => PageShown(page))
      BY <1>d, <1>f, <2>1, <3>1 DEF PageKept
    <3>3. Sendable(page)' => PageShown(page)'
      BY <1>f, <2>1, <3>1, <3>2 DEF Sendable, PageRoot
    <3>4. Lookup("pages", stack'[1].code, request'.port, request'.url) = page
      BY <1>f, <3>1 DEF PageOf
    <3> QED
      BY <3>2, <3>3, <3>4, KeptNext
  <2>2. stack[1].code = 0 => PageKept'
    BY <1>f DEF PageKept
  <2> QED
    BY <1>d, <1>f, <2>1, <2>2
(* A body that waits for its code. *)
<1>g. ASSUME NEW body, body \in Contents, RaiseThen(200, body), request' = request, files' = files,
             pc # "http_code" /\ pc # "return" /\ ~Ended,
             stack # <<>> /\ stack[1].code # 0 =>
                 LET page == PageOf(stack[1].code)
                 IN  Sendable(page) => body.path = PageRoot(page).path \o page
      PROVE  PageFetched'
  <2> DEFINE f == [code |-> 0, body |-> body]
  <2>1. f \in Frames /\ stack' = Append(stack, f) /\ f.code = 0 /\ f.body = body
    BY <1>g DEF Frames, RaiseThen
  <2> HIDE DEF f
  <2>2. /\ Len(stack') = Len(stack) + 1 /\ stack'[Len(stack) + 1] = f
        /\ \A k \in 1..Len(stack) : stack'[k] = stack[k]
        /\ stack' # <<>>
    BY <1>a, <2>1, AppendProperties
  <2>3. UrlAsked' /\ Succeeds'
    BY <1>g, <2>2 DEF RaiseThen, UrlAsked, Succeeds
  <2>4. CASE stack = <<>>
    <3>1. stack'[1].code = 0
      BY <1>a, <2>1, <2>2, <2>4
    <3> QED
      BY <1>d, <1>g, <2>2, <2>3, <3>1 DEF PageKept
  <2>5. CASE stack # <<>> /\ stack[1].code = 0
    <3>1. stack'[1].code = 0
      BY <1>a, <2>2, <2>5
    <3> QED
      BY <1>d, <1>g, <2>2, <2>3, <3>1 DEF PageKept
  <2>6. CASE stack # <<>> /\ stack[1].code # 0
    <3>1. stack'[1] = stack[1]
      BY <1>a, <2>2, <2>6
    <3>2. ASSUME NEW page, Sendable(page), PageShown(page), page = PageOf(stack[1].code)
          PROVE  PageShown(page)'
      <4>1. PageWaits
        <5>1. ~Ended /\ ~Succeeds
          BY <1>g DEF Succeeds
        <5> QED
          BY <3>2, <5>1, ShownByGet
      <4>2. BothWait' /\ stack'[2] = f
        BY <2>1, <2>2, <4>1 DEF PageWaits, BothWait
      <4>3. body.path = PageRoot(page).path \o page /\ PageRoot(page)' = PageRoot(page)
        BY <1>g, <2>6, <3>2 DEF PageRoot
      <4> QED
        BY <2>1, <2>3, <4>2, <4>3 DEF PageShown
    <3> QED
      BY <1>f, <1>g, <2>2, <2>3, <2>6, <3>1, <3>2
  <2> QED
    BY <2>4, <2>5, <2>6
(* The process ends. *)
<1>h. ASSUME Ended', UNCHANGED <<files, request, stack>>
      PROVE  PageFetched'
  <2>1. PageKept'
    BY <1>d, <1>h DEF PageKept, PageShown, PageOf
  <2> QED
    BY <1>d, <1>h, <2>1 DEF UrlAsked
<1>1. CASE \E r \in Requests : Receive(r)
  BY <1>1, <1>c, <1>d, <1>e DEF UrlAsked, Receive
<1>2. CASE Dispatch
  BY <1>2, <1>c, <1>d, <1>e DEF UrlAsked, Dispatch, Ended
<1>3. CASE Refuse
  BY <1>3, <1>c, <1>d, <1>e DEF UrlAsked, Refuse, Raise, Ended
<1>4. CASE Redirect
  <2>1. stack' = stack /\ files' = files /\ request' = request /\ url' = url /\ pc = "GET"
    BY <1>4 DEF Redirect, Raise
  <2>2. UrlAsked'
    BY <1>d, <2>1 DEF UrlAsked, Ended
  <2>3. CASE stack = <<>>
    BY <1>d, <1>e, <2>1, <2>2, <2>3
  <2>4. CASE stack # <<>>
    <3>1. ASSUME NEW page, Sendable(page), PageShown(page) PROVE FALSE
      <4>1. url = page
        BY <2>1, <3>1 DEF PageShown, Ended, Succeeds
      <4> QED
        BY <1>4, <3>1, <4>1 DEF Redirect, Sendable, Info
    <3> QED
      BY <1>f, <2>1, <2>2, <2>4, <3>1
  <2> QED
    BY <2>3, <2>4
<1>5. CASE ChdirFails
  BY <1>5, <1>h DEF ChdirFails, Ended
<1>6. CASE Get
  <2>1. pc = "GET" /\ files' = files /\ request' = request /\ url' = url
    BY <1>6 DEF Get
  <2>2. ASSUME NEW page, Sendable(page), PageShown(page), page = PageOf(stack[1].code), page # Nothing
        PROVE  RaiseThen(200, Content("file", PageRoot(page).path \o page))
    <3>1. url = page
      BY <2>1, <2>2 DEF PageShown, Ended, Succeeds
    <3> QED
      BY <1>6, <1>a, <1>b, <1>d, <2>1, <2>2, <3>1, PageSent
  <2>3. \/ Raise(401) \/ Raise(404)
        \/ \E body \in Contents : RaiseThen(200, body)
    <3>1. Root \in Paths /\ Target \in Paths /\ Script(Root, Target) \in Paths
          /\ Root \o Target \in Paths
      BY <1>6, <1>b, HandlerTypes, PathsClosed DEF Get, IInv
    <3>2. /\ Content("listing", Root \o Target) \in Contents
          /\ Content("cgi", Script(Root, Target)) \in Contents
          /\ Content("file", Root \o Target) \in Contents
      BY <3>1, ContentTyped
    <3> QED
      BY <1>6, <3>2 DEF Get
  <2>4. CASE \E body \in Contents : RaiseThen(200, body)
    <3>1. PICK body \in Contents : RaiseThen(200, body)
      BY <2>4
    <3>2. ASSUME stack # <<>>, stack[1].code # 0, Sendable(PageOf(stack[1].code))
          PROVE  body.path = PageRoot(PageOf(stack[1].code)).path \o PageOf(stack[1].code)
      <4> DEFINE page == PageOf(stack[1].code)
      <4>1. RaiseThen(200, Content("file", PageRoot(page).path \o page))
        <5>1. PageShown(page) /\ page # Nothing
          BY <1>d, <3>2 DEF PageKept
        <5> HIDE DEF page
        <5>2. page = PageOf(stack[1].code) /\ Sendable(page)
          BY <3>2 DEF page
        <5> QED
          BY <2>2, <5>1, <5>2
      <4> DEFINE path == PageRoot(page).path \o page
                 f == [code |-> 0, body |-> body]
                 g == [code |-> 0, body |-> Content("file", path)]
      <4>2. stack' = Append(stack, f) /\ stack' = Append(stack, g)
        BY <3>1, <4>1 DEF RaiseThen
      <4>3. f.body = body /\ g.body.path = path
        BY DEF Content
      <4> HIDE DEF f, g
      <4>4. Append(stack, f)[Len(stack) + 1] = f /\ Append(stack, g)[Len(stack) + 1] = g
        OBVIOUS
      <4> QED
        BY <4>2, <4>3, <4>4
    <3> QED
      BY <1>g, <2>1, <3>1, <3>2 DEF Ended
  <2>5. CASE (Raise(401) \/ Raise(404)) /\ stack = <<>>
    BY <1>d, <1>e, <2>1, <2>5 DEF UrlAsked, Raise, Ended
  <2>6. CASE (Raise(401) \/ Raise(404)) /\ stack # <<>>
    <3>1. ASSUME NEW page, stack[1].code # 0, page = PageOf(stack[1].code),
                 Sendable(page), PageShown(page)
          PROVE  FALSE
      <4>1. page # Nothing
        BY <1>d, <2>6, <3>1 DEF PageKept
      <4>2. raising' = 200
        BY <2>2, <3>1, <4>1 DEF RaiseThen
      <4> QED
        BY <2>6, <4>2 DEF Raise
    <3>2. UrlAsked' /\ stack' = stack
      BY <2>6 DEF Raise, UrlAsked
    <3> QED
      BY <1>f, <2>1, <2>6, <3>1, <3>2
  <2> QED
    BY <2>3, <2>4, <2>5, <2>6
<1>7. CASE PostRefused
  BY <1>7, <1>c, <1>d, <1>e DEF UrlAsked, PostRefused, Raise, Ended
<1>8. CASE PostScript
  <2>1. Content("cgi", Script(cwd, url)) \in Contents
    BY <1>8, <1>b, HandlerTypes, ContentTyped DEF PostScript, IInv, TypeOK
  <2> QED
    BY <1>8, <1>c, <1>g, <2>1 DEF PostScript, Ended
<1>9. CASE PostUndefined
  BY <1>9, <1>h DEF PostUndefined, Ended
<1>10. CASE PostFile
  <2>1. files' \cap Dirs = {}
    BY <1>10, <1>d DEF PostFile
  <2> QED
    BY <1>10, <1>c, <1>d, <1>e, <2>1 DEF UrlAsked, PostFile, Raise, Ended
<1>11. CASE Delete
  <2>1. files' \cap Dirs = {}
    BY <1>11, <1>d DEF Delete
  <2> QED
    BY <1>11, <1>c, <1>d, <1>e, <2>1 DEF UrlAsked, Delete, Raise, Ended
<1>12. CASE ServePage
  <2> DEFINE f == [code |-> raising, body |-> Nothing]
  <2>1. /\ raising # 0 /\ raising \in Nat /\ f \in Frames /\ f.code = raising
        /\ stack' = Append(stack, f)
    BY <1>12, <1>a, ContentTyped DEF ServePage, IInv, CodeSettled, TypeOK, Frames
  <2> HIDE DEF f
  <2>2. /\ Len(stack') = Len(stack) + 1 /\ stack'[Len(stack) + 1] = f
        /\ \A k \in 1..Len(stack) : stack'[k] = stack[k]
        /\ stack' # <<>>
    BY <1>a, <2>1, AppendProperties
  <2>3. UrlAsked' /\ files' = files /\ request' = request
    BY <1>12, <2>2 DEF ServePage, UrlAsked
  <2>4. CASE stack = <<>>
    <3>1. url = request.url
      BY <1>12, <1>d, <2>4 DEF ServePage, UrlAsked, Ended
    <3>2. url' = PageOf(raising) /\ url' # Nothing /\ pc' = "GET"
      BY <1>12, <3>1 DEF ServePage, ErrorPage, PageOf
    <3>3. PageWaits' /\ stack'[1].code = raising
      BY <1>a, <2>1, <2>2, <2>4 DEF PageWaits
    <3>4. PICK page : page = PageOf(raising)
      OBVIOUS
    <3>5. page # Nothing /\ PageShown(page)'
      BY <3>2, <3>3, <3>4 DEF PageShown
    <3>6. Lookup("pages", stack'[1].code, request'.port, request'.url) = page
      BY <2>3, <3>3, <3>4 DEF PageOf
    <3>7. PageKept'
      BY <3>5, <3>6, KeptNext
    <3> QED
      BY <1>d, <2>3, <3>7
  <2>5. CASE stack # <<>>
    <3>1. ASSUME NEW page, Sendable(page), PageShown(page), page = PageOf(stack[1].code)
          PROVE  FALSE
      <4>1. raising = 200
        BY <1>12, <3>1 DEF ServePage, PageShown, Ended, Succeeds
      <4>2. ErrorPage(200) = Nothing
        BY <1>12, <1>b, NoPageFound, ProcessingAssumption DEF ServePage, ErrorPage
      <4> QED
        BY <1>12, <4>1, <4>2 DEF ServePage
    <3>2. stack'[1] = stack[1]
      BY <1>a, <2>2, <2>5
    <3> QED
      BY <1>f, <2>2, <2>3, <2>5, <3>1, <3>2
  <2> QED
    BY <2>4, <2>5
<1>13. CASE StackOverflow
  BY <1>13, <1>h DEF StackOverflow, Ended
<1>14. CASE DefaultPage
  <2>1. stack' = stack /\ files' = files /\ request' = request /\ pc' = "return" /\ UrlAsked'
    BY <1>14 DEF DefaultPage, UrlAsked
  <2>2. CASE stack = <<>>
    BY <1>d, <1>e, <2>1, <2>2
  <2>3. CASE stack # <<>>
    <3>1. ASSUME NEW page, Sendable(page), PageShown(page)
          PROVE  PageShown(page)'
      <4>1. BothWait /\ stack[2].body.path = PageRoot(page).path \o page
        BY <1>14, <3>1 DEF DefaultPage, PageShown, Ended
      <4>2. BothWait' /\ Succeeds' /\ PageRoot(page)' = PageRoot(page)
        BY <2>1, <4>1 DEF BothWait, Succeeds, PageRoot
      <4> QED
        BY <2>1, <4>1, <4>2 DEF PageShown
    <3> QED
      BY <1>f, <2>1, <2>3, <3>1
  <2> QED
    BY <2>2, <2>3
<1>15. CASE Return
  <2>1. /\ Len(stack) > 0 /\ Len(stack') = Len(stack) - 1
        /\ \A k \in 1..(Len(stack) - 1) : stack'[k] = stack[k]
        /\ stack' \in Seq(Frames)
    BY <1>15, ReturnPops DEF IInv
  <2>2. /\ files' = files /\ request' = request /\ pc' = "return" /\ pc = "return" /\ UrlAsked'
        /\ response' = Returned(stack[Len(stack)])
    BY <1>15 DEF Return, UrlAsked
  <2>3. CASE stack' = <<>>
    BY <1>d, <1>e, <2>2, <2>3
  <2>4. CASE stack' # <<>>
    <3>1. stack'[1] = stack[1] /\ stack # <<>>
      BY <1>a, <2>1, <2>4, EmptySeq
    <3>2. ASSUME NEW page, stack[1].code # 0, PageShown(page)
          PROVE  PageShown(page)'
      <4>1. Len(stack) > 1
        BY <1>a, <2>1, <2>4, EmptySeq
      <4>2. BothWait /\ stack[2].body.path = PageRoot(page).path \o page
        BY <2>2, <3>2, <4>1 DEF PageShown, Ended, PageWaits
      <4>3. PageWaits' /\ response' = Filled(stack[2].body)
        BY <2>1, <2>2, <3>1, <3>2, <4>2 DEF BothWait, PageWaits, Returned
      <4>4. response'.body = stack[2].body
        BY <1>a, <4>3 DEF Filled, TypeOK
      <4>5. PageRoot(page)' = PageRoot(page)
        BY <2>2 DEF PageRoot
      <4> QED
        BY <2>2, <4>2, <4>3, <4>4, <4>5 DEF PageShown
    <3> QED
      BY <1>f, <2>2, <2>4, <3>1, <3>2
  <2> QED
    BY <2>3, <2>4
<1>16. CASE Answer
  BY <1>16, <1>d, <1>e DEF UrlAsked, Answer
<1>17. CASE UNCHANGED vars
  BY <1>17 DEF vars, PageFetched, UrlAsked, PageKept, PageShown, PageOf, PageRoot, Sendable,
               PageWaits, BothWait, Succeeds, Ended
<1> QED
  BY <1>1, <1>2, <1>3, <1>4, <1>5, <1>6, <1>7, <1>8, <1>9, <1>10, <1>11, <1>12, <1>13,
     <1>14, <1>15, <1>16, <1>17 DEF Next, Process

LEMMA PageAnswered ==
    ASSUME NoPageFor200, PlainPages, IInv, PageFetched, ErrorPageShown, [Next]_vars
    PROVE  ErrorPageShown'
<1> DEFINE page == PageOf(response.code)
           Shown == IF page = Nothing THEN response.body.kind = "default"
                    ELSE Sendable(page) => response.body.path = PageRoot(page).path \o page
<1>1. SUFFICES ASSUME Processed', response'.code >= 400
               PROVE  Shown'
  BY DEF ErrorPageShown
<1>2. stack' = <<>> /\ pc' = "return"
  BY <1>1 DEF Processed
<1>3. CASE DefaultPage
  <2>1. /\ stack = <<>> /\ pc = "http_code" /\ request' = request /\ url = request.url
    BY <1>2, <1>3 DEF DefaultPage, PageFetched, UrlAsked, Ended
  <2>2. ErrorPage(raising) = Nothing /\ raising \in Nat
        /\ response \in [code : Nat, body : Contents, length : Contents]
    BY <1>3 DEF DefaultPage, IInv, TypeOK
  <2>3. Filled(Content("default", <<>>)) \in [code : Nat, body : Contents, length : Contents]
    BY <2>2, ContentTyped, FilledTyped
  <2>4. Filled(Content("default", <<>>)).body.kind = "default"
    BY <2>2 DEF Filled, Content
  <2>5. response'.code = raising
    BY <1>3, <2>2, <2>3 DEF DefaultPage
  <2>6. response' = [Filled(Content("default", <<>>)) EXCEPT !.code = raising]
    BY <1>1, <1>3, <2>5 DEF DefaultPage
  <2>7. response'.body.kind = "default"
    BY <2>3, <2>4, <2>6
  <2>8. Lookup("pages", response'.code, request'.port, request'.url) = Nothing
    BY <2>1, <2>2, <2>5 DEF ErrorPage
  <2> QED
    BY <2>7, <2>8 DEF PageOf
<1>4. CASE Return
  <2>1. /\ Len(stack) > 0 /\ Len(stack') = Len(stack) - 1 /\ Len(stack) \in Nat
        /\ stack \in Seq(Frames) /\ stack # <<>>
    BY <1>4, ReturnPops DEF IInv, Return, TypeOK, Frames
  <2>2. Len(stack) = 1 /\ Head(stack) = stack[1]
    BY <1>2, <2>1, EmptySeq
  <2>3. /\ response' = Returned(stack[1]) /\ request' = request /\ files' = files /\ pc = "return"
        /\ response \in [code : Nat, body : Contents, length : Contents]
    BY <1>4, <2>2 DEF Return, IInv, TypeOK
  <2>4. CASE stack[1].code = 0
    <3>1. response.code = 200
      BY <2>1, <2>2, <2>3, <2>4 DEF IInv, CodeSettled
    <3>2. response'.code = 200
      BY <2>3, <2>4, <3>1 DEF Returned, Filled
    <3> QED
      BY <1>1, <3>2
  <2>5. CASE stack[1].code # 0
    <3>1. PICK p : p = PageOf(stack[1].code)
      OBVIOUS
    <3>2. p # Nothing /\ (Sendable(p) => PageShown(p))
      BY <2>1, <2>5, <3>1 DEF PageFetched, PageKept
    <3>3. PageShown(p) => response.body.path = PageRoot(p).path \o p
      BY <2>2, <2>3 DEF PageShown, BothWait, Ended
    <3>4. stack[1] \in Frames
      BY <2>1, <2>2
    <3>5. response'.body = response.body /\ response'.code = stack[1].code
      BY <2>3, <2>5, <3>4 DEF Returned, Frames
    <3>6. Lookup("pages", response'.code, request'.port, request'.url) = p
      BY <2>3, <3>1, <3>5 DEF PageOf
    <3> QED
      BY <2>3, <3>2, <3>3, <3>5, <3>6 DEF PageOf, Sendable, PageRoot
  <2> QED
    BY <2>4, <2>5
<1>5. CASE UNCHANGED vars
  BY <1>1, <1>5 DEF vars, ErrorPageShown, Processed, PageOf, Sendable, PageRoot
<1> QED
  <2>1. Next => DefaultPage \/ Return
    <3>1. ~(\E r \in Requests : Receive(r))
      BY <1>2 DEF Receive
    <3>2. Process => DefaultPage \/ Return
      BY <1>2 DEF Process, Dispatch, Objection, Refuse, Redirect, ChdirFails, Get, PostRefused, PostScript,
                  PostUndefined, PostFile, Delete, ServePage, StackOverflow, Answer, Raise,
                  RaiseThen, Methods
    <3> QED
      BY <3>1, <3>2 DEF Next
  <2> QED
    BY <1>3, <1>4, <1>5, <2>1

\* An error is answered with the page that is configured for it where it was
\* asked for, and with the default one where there is none.  Error pages are
\* no scripts, and there is none for the code 200.
THEOREM ErrorPagesShown ==
    ASSUME NoPageFor200, PlainPages
    PROVE  Spec => []ErrorPageShown
<1>1. Init => PageFetched /\ ErrorPageShown
  BY ProcessingAssumption DEF Init, PageFetched, UrlAsked, PageKept, ErrorPageShown, Processed
<1>2. IInv /\ PageFetched /\ ErrorPageShown /\ [Next]_vars => PageFetched' /\ ErrorPageShown'
  BY PagePreserved, PageAnswered
<1> QED
  BY <1>1, <1>2, ProcessingInvariance, PTL DEF Spec

-----------------------------------------------------------------------------
(* The script that is run. *)

(* Wherever a request looks, the root is the common one. *)
LEMMA RootCommon ==
    ASSUME NEW root, ScriptsAt(root), NEW port \in DOMAIN Config, NEW path
    PROVE  Lookup("directives", "root", port, path) = [absolute |-> TRUE, path |-> root]
<1>1. "root" \in DOMAIN Config[port].server["directives"]
  BY ProcessingAssumption
<1>2. \E block \in Blocks(port) :
          /\ "root" \in DOMAIN block["directives"]
          /\ block["directives"]["root"] = Lookup("directives", "root", port, path)
  BY <1>1, FoundInBlocks
<1> QED
  BY <1>2 DEF ScriptsAt

(* Cgi finds the script where the root is, also before the first chdir(). *)
LEMMA ScriptPlaced ==
    ASSUME NEW root, ScriptsAt(root), NEW dir, dir \in {Start, root}, NEW path
    PROVE  Script(dir, path) = root \o path
<1>1. CASE \E k \in DOMAIN dir : dir[k] \in Www
  BY <1>1 DEF ScriptsAt, Script
<1>2. CASE ~\E k \in DOMAIN dir : dir[k] \in Www
  BY <1>2 DEF ScriptsAt, Script
<1> QED
  BY <1>1, <1>2

(* What ends in the name of a script is no directory, wherever it is. *)
LEMMA PhpBelow ==
    ASSUME NEW p \in Paths, NEW q \in Paths, IsPhp(q)
    PROVE  IsPhp(p \o q)
<1>1. p \in Seq(Names) /\ q \in Seq(Names) /\ q # <<>>
  BY DEF Paths, IsPhp
<1>2. Len(p \o q) = Len(p) + Len(q) /\ Len(p) \in Nat /\ Len(q) \in Nat /\ Len(q) > 0
  BY <1>1
<1>3. (p \o q)[Len(p \o q)] = q[Len(q)] /\ p \o q # <<>>
  BY <1>1, <1>2
<1> QED
  BY <1>3 DEF IsPhp

(* What is meant does not change while the same request is processed. *)
LEMMA MeantNext ==
    ASSUME NEW body, IsScript(body) => ScriptMeant(body), files' = files, request' = request
    PROVE  IsScript(body) => ScriptMeant(body)'
BY DEF ScriptMeant

LEMMA ScriptStep ==
    ASSUME NoPageFor200, NEW root \in Paths, ScriptsAt(root), IInv, LengthKept, PageFetched,
           ScriptKept(root), [Next]_vars
    PROVE  ScriptKept(root)'
<1> USE DEF ScriptKept
<1>a. /\ stack \in Seq(Frames) /\ Len(stack) \in Nat
      /\ stack = <<>> <=> Len(stack) = 0
      /\ response \in [code : Nat, body : Contents, length : Contents]
      /\ TypeOK /\ LengthKept
  <2>1. stack \in Seq(Frames)
    BY DEF IInv, TypeOK, Frames
  <2> QED
    BY <2>1, EmptySeq DEF IInv, TypeOK
<1>b. pc # "idle" => request \in Requests /\ request.port \in DOMAIN Config
  BY ProcessingAssumption DEF IInv, Handled
<1>c. pc \in {"idle", "processRequest", "POST", "DELETE"} => stack = <<>>
  BY DEF IInv, Handled, Ended
<1>d. stack = <<>> /\ pc \notin {"idle", "return"} => url = request.url \/ Ended
  BY DEF PageFetched, UrlAsked
(* Calls that wait, or the response, stay as they are. *)
<1>e. ASSUME cwd' \in {Start, root}, files' = files, request' = request, stack # <<>>,
             stack' # <<>>, stack'[1] = stack[1]
      PROVE  ScriptKept(root)'
  BY <1>e DEF ScriptMeant, IsScript
<1>f. ASSUME cwd' \in {Start, root}, stack' = <<>>, Chosen' # 200 \/ ~IsScript(response'.body)
      PROVE  ScriptKept(root)'
  BY <1>f
(* A call that waits for http_code with a body. *)
<1>g. ASSUME NEW body \in Contents, RaiseThen(200, body), cwd' \in {Start, root},
             files' = files, request' = request,
             stack = <<>> => (IsScript(body) => ScriptMeant(body))
      PROVE  ScriptKept(root)'
  <2> DEFINE f == [code |-> 0, body |-> body]
  <2>1. f \in Frames /\ stack' = Append(stack, f) /\ f.code = 0 /\ f.body = body
    BY <1>g DEF Frames, RaiseThen
  <2> HIDE DEF f
  <2>2. /\ Len(stack') = Len(stack) + 1 /\ stack'[Len(stack) + 1] = f
        /\ \A k \in 1..Len(stack) : stack'[k] = stack[k]
        /\ stack' # <<>>
    BY <1>a, <2>1, AppendProperties
  <2>3. CASE stack = <<>>
    <3>1. stack'[1].code = 0 /\ stack'[1].body = body
      BY <1>a, <2>1, <2>2, <2>3
    <3>2. PICK b : b = body
      OBVIOUS
    <3>3. IsScript(b) => ScriptMeant(b)'
      BY <1>g, <2>3, <3>2, MeantNext
    <3>4. IsScript(stack'[1].body) => ScriptMeant(stack[1].body)'
      BY <3>1, <3>2, <3>3 DEF ScriptMeant
    <3> QED
      BY <1>g, <2>2, <3>1, <3>4 DEF IsScript
  <2>4. CASE stack # <<>>
    <3>1. stack'[1] = stack[1]
      BY <1>a, <2>2, <2>4
    <3> QED
      BY <1>e, <1>g, <2>2, <2>4, <3>1
  <2> QED
    BY <2>3, <2>4
(* http_code with an error, or with a body that is not a script's. *)
<1>h. ASSUME NEW code, Raise(code), cwd' \in {Start, root}, files' = files, request' = request,
             stack = <<>> => code # 200 \/ ~IsScript(response'.body)
      PROVE  ScriptKept(root)'
  <2>1. stack' = stack
    BY <1>h DEF Raise
  <2>2. CASE stack = <<>>
    BY <1>f, <1>h, <2>1, <2>2 DEF Chosen, Raise
  <2>3. CASE stack # <<>>
    BY <1>e, <1>h, <2>1, <2>3
  <2> QED
    BY <2>2, <2>3
(* Where there is no body there is no script. *)
<1>i. pc \in Methods \cup {"processRequest"} => ~IsScript(response.body)
  BY <1>a DEF LengthKept, IsScript
<1>1. CASE \E r \in Requests : Receive(r)
  BY <1>1, <1>c, <1>f DEF Receive, Chosen
<1>2. CASE Dispatch
  <2>1. pc' \in Methods /\ pc = "processRequest" /\ stack' = stack /\ cwd' = cwd
        /\ UNCHANGED <<files, request, response>>
    BY <1>2 DEF Dispatch, Objection
  <2>2. stack' = <<>> /\ ~IsScript(response'.body)
    BY <1>c, <1>i, <2>1
  <2>3. cwd' \in {Start, root}
    BY <2>1
  <2> QED
    BY <1>f, <2>2, <2>3, Zenon
<1>3. CASE Refuse
  <2>1. pc = "processRequest" /\ Raise(Objection) /\ cwd' = cwd
        /\ UNCHANGED <<files, request, response>>
    BY <1>3 DEF Refuse
  <2>2. cwd' \in {Start, root} /\ ~IsScript(response'.body)
    BY <1>i, <2>1
  <2> QED
    BY <1>h, <2>1, <2>2
<1>4. CASE Redirect
  <2>1. [response EXCEPT !.length = Content("location", <<>>)].body = response.body
    BY <1>a
  <2> QED
    BY <1>4, <1>h, <1>i, <2>1 DEF Redirect, Methods
<1>5. CASE ChdirFails
  <2>1. stack' = stack /\ files' = files /\ request' = request /\ cwd' = cwd /\ pc' = "exited"
    BY <1>5 DEF ChdirFails
  <2> QED
    BY <1>e, <1>f, <2>1 DEF Chosen
<1>6. CASE Get
  <2>1. /\ pc = "GET" /\ files' = files /\ request' = request /\ response' = response
        /\ cwd' = Root /\ request \in Requests /\ request.port \in DOMAIN Config
    BY <1>6, <1>b DEF Get
  <2>2. Root = root
    BY <2>1, RootCommon DEF Root, Info, Resolve
  <2>3. Target \in Paths
    BY <1>a, <2>1, HandlerTypes
  <2>4. CASE RaiseThen(200, Content("listing", Root \o Target))
    <3>1. Content("listing", Root \o Target) \in Contents /\ ~IsScript(Content("listing", Root \o Target))
      BY <2>2, <2>3, PathsClosed, ContentTyped DEF Content, IsScript
    <3> QED
      BY <1>g, <2>1, <2>2, <2>4, <3>1
  <2>5. CASE RaiseThen(200, Content("file", Root \o Target))
    <3>1. Content("file", Root \o Target) \in Contents /\ ~IsScript(Content("file", Root \o Target))
      BY <2>2, <2>3, PathsClosed, ContentTyped DEF Content, IsScript
    <3> QED
      BY <1>g, <2>1, <2>2, <2>5, <3>1
  <2>6. CASE /\ RaiseThen(200, Content("cgi", Script(Root, Target)))
             /\ IsPhp(Target) /\ Root \o Target \in Dirs \cup files
    <3> DEFINE body == Content("cgi", Script(Root, Target))
    <3>1. Script(Root, Target) = root \o Target
      BY <2>2, ScriptPlaced
    <3>2. body \in Contents /\ body.path = root \o Target
      BY <2>3, <3>1, PathsClosed, ContentTyped DEF Content
    <3>3. root \o Target \in files
      <4>1. IsPhp(root \o Target)
        BY <2>3, <2>6, PhpBelow
      <4> QED
        BY <2>2, <2>6, <4>1 DEF ScriptsAt
    <3>4. stack = <<>> => request.method = "GET"
      BY <2>1 DEF IInv, Handled, Methods
    <3> HIDE DEF body
    <3>5. stack = <<>> => ScriptMeant(body)
      BY <3>2, <3>3, <3>4 DEF ScriptMeant
    <3>6. RaiseThen(200, body)
      BY <2>6 DEF body
    <3> QED
      BY <1>g, <2>1, <2>2, <3>2, <3>5, <3>6
  <2>7. CASE Raise(401) \/ Raise(404)
    BY <1>h, <2>1, <2>2, <2>7
  <2> QED
    BY <1>6, <2>4, <2>5, <2>6, <2>7 DEF Get
<1>7. CASE PostRefused
  BY <1>7, <1>h DEF PostRefused, Refusal
<1>8. CASE PostScript
  <2> DEFINE body == Content("cgi", Script(cwd, url))
  <2>1. /\ pc = "POST" /\ files' = files /\ request' = request /\ cwd' = cwd /\ RaiseThen(200, body)
        /\ request.port \in DOMAIN Config
    BY <1>8, <1>b DEF PostScript
  <2>2. Script(cwd, url) = root \o url
    BY ScriptPlaced
  <2>3. body \in Contents /\ body.path = root \o url
    BY <1>a, <2>2, PathsClosed, ContentTyped DEF Content, TypeOK
  <2> HIDE DEF body
  <2>4. request.method = "POST" /\ url = request.url
    BY <1>c, <1>d, <2>1 DEF IInv, Handled, Methods, Ended
  <2>5. ScriptMeant(body)
    <3>1. Resolve(Start, Lookup("directives", "root", request.port, request.url)) = root
      BY <2>1, RootCommon DEF Resolve
    <3> QED
      BY <2>3, <2>4, <3>1 DEF ScriptMeant
  <2> QED
    BY <1>g, <2>1, <2>3, <2>5
<1>9. CASE PostUndefined
  <2>1. stack' = <<>> /\ cwd' = cwd /\ pc' = "crashed"
    BY <1>9, <1>c DEF PostUndefined
  <2> QED
    BY <1>f, <2>1 DEF Chosen
<1>10. CASE PostFile
  <2>1. stack' = <<>> /\ cwd' = cwd /\ pc' = "http_code" /\ ~IsScript(response.body)
    BY <1>10, <1>c, <1>i DEF PostFile, Raise, Methods
  <2>2. \/ response' = Filled(Content("created", Upload))
        \/ response' = [response EXCEPT !.length = Content("request", <<>>)]
    BY <1>10 DEF PostFile
  <2>3. ~IsScript(Filled(Content("created", Upload)).body)
    BY <1>a DEF Filled, Content, IsScript
  <2>4. ~IsScript([response EXCEPT !.length = Content("request", <<>>)].body)
    BY <1>a, <2>1
  <2> QED
    BY <1>f, <2>1, <2>2, <2>3, <2>4
<1>11. CASE Delete
  <2> DEFINE body == Content("deleted", Removal)
  <2>1. stack' = <<>> /\ cwd' = cwd /\ pc' = "http_code" /\ ~IsScript(response.body)
    BY <1>11, <1>c, <1>i DEF Delete, Raise, Methods
  <2>2. response' = Filled(body) \/ response' = response
    BY <1>11 DEF Delete
  <2>3. ~IsScript(Filled(body).body)
    BY <1>a DEF Filled, Content, IsScript
  <2> QED
    BY <1>f, <2>1, <2>2, <2>3
<1>12. CASE ServePage
  <2> DEFINE f == [code |-> raising, body |-> Nothing]
  <2>1. /\ f \in Frames /\ f.code = raising /\ raising # 0
        /\ stack' = Append(stack, f)
    BY <1>12, <1>a, ContentTyped DEF ServePage, IInv, CodeSettled, TypeOK, Frames
  <2> HIDE DEF f
  <2>2. /\ Len(stack') = Len(stack) + 1 /\ stack'[Len(stack) + 1] = f
        /\ \A k \in 1..Len(stack) : stack'[k] = stack[k]
        /\ stack' # <<>>
    BY <1>a, <2>1, AppendProperties
  <2>3. cwd' = cwd /\ files' = files /\ request' = request
    BY <1>12 DEF ServePage
  <2>4. CASE stack = <<>>
    <3>1. raising # 200
      BY <1>12, <1>b, NoPageFound DEF ServePage, ErrorPage
    <3>2. stack'[1] = f
      BY <1>a, <2>2, <2>4
    <3> QED
      BY <2>1, <2>2, <2>3, <3>1, <3>2
  <2>5. CASE stack # <<>>
    <3>1. stack'[1] = stack[1]
      BY <1>a, <2>2, <2>5
    <3> QED
      BY <1>e, <2>2, <2>3, <2>5, <3>1
  <2> QED
    BY <2>4, <2>5
<1>13. CASE StackOverflow
  <2>1. stack' = stack /\ files' = files /\ request' = request /\ cwd' = cwd /\ pc' = "crashed"
    BY <1>13 DEF StackOverflow
  <2> QED
    BY <1>e, <1>f, <2>1 DEF Chosen
<1>14. CASE DefaultPage
  <2>1. /\ stack' = stack /\ files' = files /\ request' = request /\ cwd' = cwd
        /\ pc = "http_code" /\ pc' = "return"
        /\ response' = IF raising >= 400
                       THEN [Filled(Content("default", <<>>)) EXCEPT !.code = raising]
                       ELSE [response EXCEPT !.code = raising]
    BY <1>14 DEF DefaultPage
  <2>2. CASE stack # <<>>
    BY <1>e, <2>1, <2>2
  <2>3. CASE stack = <<>> /\ raising = 200
    <3>1. response'.body = response.body /\ Chosen = 200
      BY <1>a, <2>1, <2>3 DEF Chosen
    <3>2. PICK b : b = response.body
      OBVIOUS
    <3>3. IsScript(b) => ScriptMeant(b)'
      BY <2>1, <2>3, <3>1, <3>2, MeantNext
    <3>4. IsScript(response'.body) => ScriptMeant(response.body)'
      BY <3>1, <3>2, <3>3 DEF ScriptMeant
    <3> QED
      BY <2>1, <2>3, <3>4 DEF IsScript
  <2>4. CASE stack = <<>> /\ raising # 200
    <3>1. /\ [Filled(Content("default", <<>>)) EXCEPT !.code = raising].code = raising
          /\ [response EXCEPT !.code = raising].code = raising
      BY <1>a, FilledTyped, ContentTyped
    <3>2. Chosen' # 200
      BY <2>1, <2>4, <3>1 DEF Chosen
    <3> QED
      BY <1>f, <2>1, <2>4, <3>2
  <2> QED
    BY <2>2, <2>3, <2>4
<1>15. CASE Return
  <2>1. /\ Len(stack) > 0 /\ Len(stack') = Len(stack) - 1
        /\ \A k \in 1..(Len(stack) - 1) : stack'[k] = stack[k]
        /\ stack' \in Seq(Frames)
    BY <1>15, <1>a, ReturnPops
  <2>2. /\ files' = files /\ request' = request /\ pc' = "return" /\ pc = "return"
        /\ response' = Returned(stack[Len(stack)]) /\ cwd' = cwd /\ stack # <<>>
    BY <1>15 DEF Return
  <2>3. CASE stack' = <<>>
    <3>1. Len(stack) = 1
      BY <1>a, <2>1, <2>3
    <3>2. CASE stack[1].code # 0
      <4>1. response'.code = stack[1].code /\ response'.code # 200
        BY <1>a, <2>2, <3>1, <3>2 DEF Returned
      <4>2. Chosen' # 200
        BY <2>2, <2>3, <4>1 DEF Chosen
      <4> QED
        BY <1>f, <2>2, <2>3, <4>2
    <3>3. CASE stack[1].code = 0
      <4>1. response'.body = stack[1].body
        BY <1>a, <2>2, <3>1, <3>3 DEF Returned, Filled
      <4> QED
        BY <2>2, <2>3, <3>3, <4>1 DEF ScriptMeant, IsScript
    <3> QED
      BY <3>2, <3>3
  <2>4. CASE stack' # <<>>
    <3>1. stack'[1] = stack[1]
      BY <1>a, <2>1, <2>4, EmptySeq
    <3> QED
      BY <1>e, <2>2, <2>4, <3>1
  <2> QED
    BY <2>3, <2>4
<1>16. CASE Answer
  <2>1. stack = <<>> /\ pc = "return" /\ pc' = "idle" /\ UNCHANGED <<cwd, files, request, stack, response>>
    BY <1>16 DEF Answer
  <2>2. Chosen' = Chosen
    BY <2>1 DEF Chosen
  <2> QED
    BY <2>1, <2>2 DEF ScriptMeant, IsScript
<1>17. CASE UNCHANGED vars
  BY <1>17 DEF vars, Chosen, ScriptMeant, IsScript
<1> QED
  BY <1>1, <1>2, <1>3, <1>4, <1>5, <1>6, <1>7, <1>8, <1>9, <1>10, <1>11, <1>12, <1>13,
     <1>14, <1>15, <1>16, <1>17 DEF Next, Process

\* The script that is run is the one that GET has found or POST names, whatever
\* requests came before and changed the working directory, where all roots are
\* the directory Cgi looks in.
THEOREM ScriptsNamed ==
    ASSUME NoPageFor200, PlainPages, NEW root \in Paths, ScriptsAt(root)
    PROVE  Spec => []ScriptNamed
<1>1. Init => LengthKept /\ PageFetched /\ ScriptKept(root)
  BY ProcessingAssumption
     DEF Init, LengthKept, NoResponse, Methods, PageFetched, UrlAsked, PageKept, ScriptKept, Chosen
<1>2. IInv /\ LengthKept /\ PageFetched /\ ScriptKept(root) /\ [Next]_vars
          => LengthKept' /\ PageFetched' /\ ScriptKept(root)'
  BY LengthPreserved, PagePreserved, ScriptStep DEF IInv
<1>3. ScriptKept(root) => ScriptNamed
  BY DEF ScriptKept, ScriptNamed, Processed, Chosen
<1> QED
  BY <1>1, <1>2, <1>3, ProcessingInvariance, PTL DEF Spec
=============================================================================
