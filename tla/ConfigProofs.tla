---------------------------- MODULE ConfigProofs ----------------------------
(***************************************************************************)
(* Proofs about ConfigParser and Startup, for files of any phrases and any *)
(* length.                                                                 *)
(***************************************************************************)
EXTENDS Startup, SequenceTheorems, TLAPS

Dictionaries == UNION {[names -> Texts] : names \in SUBSET Texts}

(* TypeOK with sets that need not be enumerated. *)
Typed ==
    /\ FileTypeOK
    /\ previousToken \in Tokens
    /\ bracketCounter \in Int
    /\ isLocation \in BOOLEAN
    /\ directive_name \in Texts /\ directive_value \in Texts
    /\ block_location \in Dictionaries /\ blockServer \in Dictionaries
    /\ globalConfig \in Dictionaries
    /\ singleList \in Seq(Dictionaries) /\ serverList \in Seq(Seq(Dictionaries))
    /\ ports \in Seq(Nat)
    /\ outcome \in {"parsing", "ok", "broken", "terminated"}

(* Sequences of a set and their ends. *)
LEMMA SeqsClosed ==
    ASSUME NEW S
    PROVE  /\ \A e \in S : <<e>> \in Seq(S)
           /\ \A e, f \in S : <<e, f>> \in Seq(S)
           /\ \A s \in Seq(S), e \in S : Append(s, e) \in Seq(S) /\ <<e>> \o s \in Seq(S)
           /\ \A s \in Seq(S) : s # <<>> => Head(s) \in S /\ Tail(s) \in Seq(S)
           /\ \A s \in Seq(S) : \A i \in 1..Len(s) : s[i] \in S
<1>1. \A s \in Seq(S), e \in S : Append(s, e) \in Seq(S)
  OBVIOUS
<1>2. \A s \in Seq(S), e \in S : <<e>> \o s \in Seq(S)
  OBVIOUS
<1> QED
  BY <1>1, <1>2

(* A directive that is put into a block is the only one that changes. *)
LEMMA PutKeeps ==
    ASSUME NEW d, NEW n, NEW v
    PROVE  /\ DOMAIN Put(d, n, v) = DOMAIN d \cup {n}
           /\ Put(d, n, v)[n] = v
           /\ \A m \in DOMAIN d \ {n} : Put(d, n, v)[m] = d[m]
BY DEF Put

LEMMA PutTyped ==
    ASSUME NEW d \in Dictionaries, NEW n \in Texts, NEW v \in Texts
    PROVE  Put(d, n, v) \in Dictionaries
<1>1. PICK names \in SUBSET Texts : d \in [names -> Texts]
  BY DEF Dictionaries
<1>2. Put(d, n, v) \in [names \cup {n} -> Texts]
  BY <1>1 DEF Put
<1> QED
  BY <1>2 DEF Dictionaries

LEMMA EmptyTyped == Empty \in Dictionaries /\ DOMAIN Empty = {}
<1>1. Empty \in [{} -> Texts]
  BY DEF Empty
<1> QED
  BY <1>1 DEF Dictionaries, Empty

LEMMA DefaultsTyped ==
    /\ Defaults \in Dictionaries
    /\ DOMAIN Defaults = {<<"listen">>, <<"root">>}
    /\ Defaults[<<"listen">>] = <<"8080">> /\ Defaults[<<"root">>] = <<Home>>
<1>1. <<"listen">> \in Texts /\ <<"root">> \in Texts /\ <<"8080">> \in Texts /\ <<Home>> \in Texts
  <2>1. "listen" \in Reserved /\ "root" \in Reserved
    BY DEF Reserved, Keywords
  <2>2. "listen" \in Words /\ "root" \in Words /\ "8080" \in Words /\ Home \in Words
    BY <2>1, DirectivesAssumption
  <2> QED
    BY <2>2, SeqsClosed DEF Texts
<1>2. <<"listen">> # <<"root">>
  OBVIOUS
<1> DEFINE first == Put(Empty, <<"listen">>, <<"8080">>)
<1>3. first \in Dictionaries /\ DOMAIN first = {<<"listen">>} /\ first[<<"listen">>] = <<"8080">>
  <2>1. first \in Dictionaries
    BY <1>1, EmptyTyped, PutTyped
  <2>2. DOMAIN first = {<<"listen">>} /\ first[<<"listen">>] = <<"8080">>
    BY EmptyTyped DEF Put
  <2> QED
    BY <2>1, <2>2
<1>4. Defaults = Put(first, <<"root">>, <<Home>>)
  BY DEF Defaults
<1> HIDE DEF first
<1>5. Defaults \in Dictionaries
  BY <1>1, <1>3, <1>4, PutTyped
<1>6. /\ DOMAIN Defaults = {<<"listen">>, <<"root">>}
      /\ Defaults[<<"listen">>] = <<"8080">> /\ Defaults[<<"root">>] = <<Home>>
  BY <1>2, <1>3, <1>4 DEF Put
<1> QED
  BY <1>5, <1>6

(* A name and a value that are allowed are texts when they are kept. *)
LEMMA KeptTyped ==
    ASSUME NEW n \in Texts, NEW v \in Texts, NEW flag \in BOOLEAN, ~NotAllowed(n, v, flag)
    PROVE  /\ NameKept(n, v) \in Texts /\ ValueKept(n, v) \in Texts
           /\ n # <<"error_page">> => NameKept(n, v) = n /\ ValueKept(n, v) = v
           /\ n = <<"error_page">> => Len(NameKept(n, v)) = 2
<1>1. CASE n = <<"error_page">>
  <2>1. Len(v) > 1
    BY <1>1 DEF NotAllowed, PageSyntax
  <2>2. v \in Seq(Words) /\ v # <<>> /\ 1 \in 1..Len(v)
    BY <2>1 DEF Texts
  <2>5. "error_page" \in Reserved
    BY DEF Reserved, Keywords
  <2>6. "error_page" \in Words
    BY <2>5, DirectivesAssumption
  <2>3. v[1] \in Words /\ Tail(v) \in Texts
    BY <2>2, SeqsClosed DEF Texts
  <2>4. <<"error_page", v[1]>> \in Texts
    BY <2>6, <2>3, SeqsClosed DEF Texts
  <2> QED
    BY <1>1, <2>3, <2>4 DEF NameKept, ValueKept
<1>2. CASE n # <<"error_page">>
  BY <1>2 DEF NameKept, ValueKept
<1> QED
  BY <1>1, <1>2

LEMMA ReadTyped ==
    ASSUME FileTypeOK, NEW word, Read(word)
    PROVE  FileTypeOK' /\ word \in Words
<1>1. word \in Words /\ ahead' \in Texts
  BY SeqsClosed DEF Read, FileTypeOK, Texts
<1>2. Kind \in {"server", "location", "other"}
  BY DEF Kind
<1>3. nest' \in Seq({"server", "location", "other"})
  <2>1. <<Kind>> \o nest \in Seq({"server", "location", "other"})
    BY <1>2, SeqsClosed DEF FileTypeOK
  <2>2. nest # <<>> => Tail(nest) \in Seq({"server", "location", "other"})
    BY SeqsClosed DEF FileTypeOK
  <2> QED
    BY <2>1, <2>2 DEF Read, FileTypeOK
<1>4. item' \in Texts
  <2>1. Append(item, word) \in Texts /\ <<>> \in Texts
    BY <1>1, SeqsClosed DEF FileTypeOK, Texts
  <2> QED
    BY <2>1 DEF Read, FileTypeOK
<1>5. listened' \in BOOLEAN /\ tidy' \in BOOLEAN /\ written' \in 0..MaxPhrases
  BY DEF Read, FileTypeOK
<1> QED
  BY <1>1, <1>3, <1>4, <1>5 DEF FileTypeOK

LEMMA TakesTyped ==
    ASSUME Typed, NEW token \in DOMAIN Follows, Takes(token)
    PROVE  /\ FileTypeOK' /\ previousToken' \in Tokens
           /\ ahead # <<>> /\ Head(ahead) \in Words
<1>1. FileTypeOK /\ Read(Head(ahead)) /\ ahead # <<>> /\ previousToken' = token
  BY DEF Typed, Takes
<1>2. token \in Tokens
  BY DEF Tokens
<1> QED
  BY <1>1, <1>2, ReadTyped

(* Every step keeps the types. *)
LEMMA TypesStep ==
    ASSUME Typed, [ParserNext]_parserVars
    PROVE  Typed'
<1> USE DEF Typed, headVars, dictVars
<1>1. CASE Write
  BY <1>1, FileAssumption DEF Write, WritePhrase, FileTypeOK
<1>2. CASE OpenFails \/ EndOfFile
  BY <1>2 DEF OpenFails, EndOfFile, fileVars, FileTypeOK
<1>3. CASE Misplaced
  BY <1>3, ReadTyped DEF Misplaced
<1>4. CASE BlockServer
  BY <1>4, TakesTyped DEF BlockServer, Follows
<1>5. CASE HasDirectName
  <2>1. FileTypeOK' /\ previousToken' \in Tokens /\ Head(ahead) \in Words
    BY <1>5, TakesTyped DEF HasDirectName, Follows
  <2>2. directive_name' \in Texts
    BY <1>5, <2>1, SeqsClosed DEF HasDirectName, Texts
  <2> QED
    BY <1>5, <2>1, <2>2 DEF HasDirectName
<1>6. CASE HasLocation
  <2>1. FileTypeOK' /\ previousToken' \in Tokens
    BY <1>6, TakesTyped DEF HasLocation, Follows
  <2>2. <<"location">> \in Texts
    <3>1. "location" \in Reserved
      BY DEF Reserved
    <3>2. "location" \in Words
      BY <3>1, DirectivesAssumption
    <3> QED
      BY <3>2, SeqsClosed DEF Texts
  <2> QED
    BY <1>6, <2>1, <2>2 DEF HasLocation
<1>7. CASE HasValue
  <2>1. FileTypeOK' /\ previousToken' \in Tokens /\ Head(ahead) \in Words
    BY <1>7, TakesTyped DEF HasValue, Follows
  <2>2. directive_value' \in Texts
    BY <1>7, <2>1, SeqsClosed DEF HasValue, Texts
  <2> QED
    BY <1>7, <2>1, <2>2 DEF HasValue
<1>8. CASE OpenBracket
  <2>1. FileTypeOK' /\ previousToken' \in Tokens
    BY <1>8, TakesTyped DEF OpenBracket, Follows
  <2>2. block_location' \in Dictionaries
    BY <1>8, PutTyped DEF OpenBracket
  <2> QED
    BY <1>8, <2>1, <2>2 DEF OpenBracket
<1>9. ASSUME Refused \/ HasSemicolon PROVE ports' \in Seq(Nat)
  <2>1. directive_value \in DOMAIN PortOf => PortOf[directive_value] \in Nat
    BY DirectivesAssumption
  <2>2. PortsAfter \in Seq(Nat)
    BY <2>1, SeqsClosed DEF PortsAfter
  <2> QED
    BY <1>9, <2>2 DEF Refused, HasSemicolon
<1>10. CASE Refused
  BY <1>9, <1>10, ReadTyped DEF Refused
<1>11. CASE HasSemicolon
  <2>1. FileTypeOK' /\ previousToken' \in Tokens
    BY <1>11, TakesTyped DEF HasSemicolon, Follows
  <2>2. directive_name' \in Texts /\ directive_value' \in Texts
    BY <1>11, KeptTyped DEF HasSemicolon
  <2>3. /\ globalConfig' \in Dictionaries /\ block_location' \in Dictionaries
        /\ blockServer' \in Dictionaries
    BY <1>11, <2>2, PutTyped DEF HasSemicolon
  <2> QED
    BY <1>9, <1>11, <2>1, <2>2, <2>3 DEF HasSemicolon
<1>12. Closing \in Seq(Dictionaries)
  BY SeqsClosed DEF Closing
<1>13. CASE CloseServer
  <2>1. FileTypeOK' /\ previousToken' \in Tokens
    BY <1>13, TakesTyped DEF CloseServer, Follows
  <2>2. serverList' \in Seq(Seq(Dictionaries)) /\ singleList' \in Seq(Dictionaries)
    BY <1>12, <1>13, SeqsClosed DEF CloseServer
  <2> QED
    BY <1>13, <2>1, <2>2, DefaultsTyped DEF CloseServer
<1>14. CASE CloseServerFails
  <2>1. serverList' \in Seq(Seq(Dictionaries)) /\ singleList' \in Seq(Dictionaries)
    BY <1>12, <1>14, SeqsClosed DEF CloseServerFails
  <2>2. FileTypeOK'
    BY <1>14, ReadTyped DEF CloseServerFails
  <2>3. bracketCounter' = 0 /\ outcome' = "terminated"
    BY <1>14 DEF CloseServerFails
  <2>4. UNCHANGED <<previousToken, isLocation, directive_name, directive_value, block_location,
                    blockServer, globalConfig, ports>>
    BY <1>14 DEF CloseServerFails
  <2> QED
    BY <2>1, <2>2, <2>3, <2>4
<1>15. CASE CloseLocation
  <2>1. FileTypeOK' /\ previousToken' \in Tokens
    BY <1>15, TakesTyped DEF CloseLocation, Follows
  <2>2. singleList' \in Seq(Dictionaries)
    BY <1>15, SeqsClosed DEF CloseLocation
  <2>3. bracketCounter' \in Int /\ isLocation' = FALSE /\ block_location' \in Dictionaries
    BY <1>15, EmptyTyped DEF CloseLocation
  <2> QED
    BY <1>15, <2>1, <2>2, <2>3 DEF CloseLocation
<1>16. CASE CloseOther
  BY <1>16, TakesTyped DEF CloseOther, Follows
<1>17. CASE UNCHANGED parserVars
  BY <1>17 DEF parserVars, fileVars, FileTypeOK
<1> QED
  BY <1>1, <1>2, <1>3, <1>4, <1>5, <1>6, <1>7, <1>8, <1>10, <1>11, <1>13, <1>14, <1>15, <1>16,
     <1>17 DEF ParserNext

-----------------------------------------------------------------------------
(* The first block of a server *)

CheckedWith(dictionary, list) ==
    /\ <<"location">> \notin DOMAIN dictionary /\ <<"return">> \notin DOMAIN dictionary
    /\ {<<"listen">>, <<"root">>} \subseteq DOMAIN dictionary
    /\ dictionary[<<"root">>] \in Directories \cup {<<Home>>}
    /\ dictionary[<<"listen">>] \in DOMAIN PortOf
    /\ \/ PortOf[dictionary[<<"listen">>]] = 8080
       \/ \E i \in DOMAIN list : list[i] = PortOf[dictionary[<<"listen">>]]

LEMMA CheckedByPorts == \A d : Checked(d) <=> CheckedWith(d, ports)
BY DEF Checked, CheckedWith

(* Ports are added only. *)
LEMMA CheckedGrows ==
    ASSUME NEW list \in Seq(Nat), NEW p \in Nat, NEW d, CheckedWith(d, list)
    PROVE  CheckedWith(d, Append(list, p))
<1>1. ASSUME NEW i \in DOMAIN list
      PROVE  i \in DOMAIN Append(list, p) /\ Append(list, p)[i] = list[i]
  OBVIOUS
<1> QED
  BY <1>1 DEF CheckedWith

LEMMA DefaultsChecked == ASSUME NEW list PROVE CheckedWith(Defaults, list)
<1>1. <<"location">> \notin {<<"listen">>, <<"root">>} /\ <<"return">> \notin {<<"listen">>, <<"root">>}
  OBVIOUS
<1> QED
  BY <1>1, DefaultsTyped, DirectivesAssumption DEF CheckedWith

(* A directive that not_allow lets pass outside a location does no harm. *)
LEMMA CheckedPut ==
    ASSUME NEW list, NEW d, CheckedWith(d, list),
           NEW n \in Texts, NEW v \in Texts, n # <<"location">>,
           ~NotAllowed(n, v, FALSE),
           n = <<"listen">> => \E i \in DOMAIN list : list[i] = PortOf[v]
    PROVE  CheckedWith(Put(d, NameKept(n, v), ValueKept(n, v)), list)
<1> DEFINE m == NameKept(n, v)
           u == ValueKept(n, v)
           e == Put(d, m, u)
<1>1. /\ n # <<"error_page">> => m = n /\ u = v
      /\ n = <<"error_page">> => Len(m) = 2
  BY KeptTyped
<1>2. /\ m # <<"location">> /\ m # <<"return">>
      /\ m = <<"listen">> => n = <<"listen">> /\ u = v
      /\ m = <<"root">> => n = <<"root">> /\ u = v
  BY <1>1 DEF NotAllowed
<1> HIDE DEF m, u
<1>3. /\ DOMAIN e = DOMAIN d \cup {m}
      /\ e[m] = u
      /\ \A k \in DOMAIN d \ {m} : e[k] = d[k]
  BY DEF Put
<1> HIDE DEF e
<1>4. <<"location">> \notin DOMAIN e /\ <<"return">> \notin DOMAIN e
      /\ {<<"listen">>, <<"root">>} \subseteq DOMAIN e
  BY <1>2, <1>3 DEF CheckedWith
<1>5. e[<<"root">>] \in Directories \cup {<<Home>>}
  <2>1. CASE m = <<"root">>
    BY <1>2, <1>3, <2>1 DEF NotAllowed
  <2>2. CASE m # <<"root">>
    BY <1>3, <2>2 DEF CheckedWith
  <2> QED
    BY <2>1, <2>2
<1>6. /\ e[<<"listen">>] \in DOMAIN PortOf
      /\ \/ PortOf[e[<<"listen">>]] = 8080
         \/ \E i \in DOMAIN list : list[i] = PortOf[e[<<"listen">>]]
  <2>1. CASE m = <<"listen">>
    BY <1>2, <1>3, <2>1 DEF NotAllowed
  <2>2. CASE m # <<"listen">>
    BY <1>3, <2>2 DEF CheckedWith
  <2> QED
    BY <2>1, <2>2
<1> QED
  BY <1>4, <1>5, <1>6 DEF CheckedWith, e, m, u

AllChecked == ServersChecked /\ NextChecked /\ LocationMarked

(* What leaves servers and ports alone leaves them checked. *)
LEMMA CheckedKept ==
    ASSUME ServersChecked, NextChecked, UNCHANGED <<serverList, blockServer, ports>>
    PROVE  ServersChecked' /\ NextChecked'
BY DEF ServersChecked, NextChecked, Checked

(* The list that is appended begins with the block of its server. *)
LEMMA ClosingChecked ==
    ASSUME Typed, ServersChecked, NextChecked, ports' = ports,
           serverList' = Append(serverList, Closing)
    PROVE  ServersChecked'
<1>1. Closing \in Seq(Dictionaries) /\ Closing # <<>> /\ Head(Closing) = blockServer
  BY SeqsClosed DEF Closing, Typed
<1>2. serverList \in Seq(Seq(Dictionaries))
  BY DEF Typed
<1>3. ASSUME NEW i \in DOMAIN Append(serverList, Closing)
      PROVE  \/ i \in DOMAIN serverList /\ Append(serverList, Closing)[i] = serverList[i]
             \/ Append(serverList, Closing)[i] = Closing
  BY <1>1, <1>2
<1>4. \A d : Checked(d) => Checked(d)'
  BY DEF Checked
<1>5. ASSUME NEW i \in DOMAIN serverList'
      PROVE  serverList'[i] # <<>> /\ Checked(Head(serverList'[i]))
  <2>1. CASE i \in DOMAIN serverList /\ serverList'[i] = serverList[i]
    BY <2>1 DEF ServersChecked
  <2>2. CASE serverList'[i] = Closing
    BY <1>1, <2>2 DEF NextChecked
  <2> QED
    BY <1>3, <1>5, <2>1, <2>2
<1> QED
  BY <1>4, <1>5 DEF ServersChecked, Checked

(* Every step keeps the servers checked, whatever the file is like. *)
LEMMA CheckedStep ==
    ASSUME Typed, AllChecked, [ParserNext]_parserVars
    PROVE  AllChecked'
<1> USE DEF AllChecked
<1>1. CASE Write \/ OpenFails \/ EndOfFile \/ Misplaced \/ BlockServer \/ OpenBracket
           \/ CloseOther \/ UNCHANGED parserVars
  <2>1. UNCHANGED <<serverList, blockServer, ports, directive_name, isLocation>>
    BY <1>1 DEF Write, OpenFails, EndOfFile, Misplaced, BlockServer, OpenBracket, CloseOther,
       headVars, dictVars, parserVars
  <2>2. \/ previousToken' = previousToken
        \/ previousToken' \notin {"name", "location", "value"}
    BY <1>1 DEF Write, OpenFails, EndOfFile, Misplaced, BlockServer, OpenBracket, CloseOther,
       headVars, parserVars, Takes
  <2> QED
    BY <2>1, <2>2, CheckedKept DEF LocationMarked
<1>2. CASE HasDirectName
  <2>1. Token(Head(ahead)) = "name" /\ directive_name' = <<Head(ahead)>>
    BY <1>2 DEF HasDirectName, Takes
  <2>2. Head(ahead) # "location"
    BY <2>1 DEF Token, Keywords
  <2>3. directive_name' # <<"location">>
    BY <2>1, <2>2
  <2> QED
    BY <1>2, <2>3, CheckedKept DEF HasDirectName, dictVars, LocationMarked
<1>3. CASE HasLocation
  BY <1>3, CheckedKept DEF HasLocation, dictVars, LocationMarked
<1>4. CASE HasValue
  <2>1. previousToken \in {"name", "location", "value"}
    BY <1>4 DEF HasValue, Takes, Follows
  <2> QED
    BY <1>4, <2>1, CheckedKept DEF HasValue, dictVars, LocationMarked
<1>5. ASSUME Refused \/ HasSemicolon
      PROVE  /\ \A d : CheckedWith(d, ports) => CheckedWith(d, ports')
             /\ serverList' = serverList
  <2>1. ports' = PortsAfter /\ serverList' = serverList
    BY <1>5 DEF Refused, HasSemicolon
  <2>2. ports \in Seq(Nat) /\ (directive_value \in DOMAIN PortOf => PortOf[directive_value] \in Nat)
    BY DirectivesAssumption DEF Typed
  <2> QED
    BY <2>1, <2>2, CheckedGrows DEF PortsAfter
<1>6. ASSUME Refused \/ HasSemicolon
      PROVE  ServersChecked'
  BY <1>5, <1>6, CheckedByPorts DEF ServersChecked, Checked, CheckedWith
<1>7. CASE Refused
  <2>1. UNCHANGED <<previousToken, directive_name, isLocation, blockServer>>
    BY <1>7 DEF Refused, headVars
  <2>2. CheckedWith(blockServer', ports')
    BY <1>5, <1>7, <2>1, CheckedByPorts DEF NextChecked
  <2>3. NextChecked' /\ LocationMarked'
    BY <2>1, <2>2 DEF NextChecked, LocationMarked, Checked, CheckedWith
  <2> QED
    BY <1>6, <1>7, <2>3
<1>8. CASE HasSemicolon
  <2>1. previousToken' = "semicolon"
    BY <1>8 DEF HasSemicolon, Takes
  <2>2. CASE blockServer' = blockServer
    BY <1>5, <1>6, <1>8, <2>1, <2>2 DEF NextChecked, LocationMarked, Checked, CheckedWith
  <2>3. CASE ~isLocation
    <3>1. previousToken = "value" /\ directive_name # <<"location">>
      BY <1>8, <2>3 DEF HasSemicolon, Takes, Follows, LocationMarked
    <3>2. ~NotAllowed(directive_name, directive_value, FALSE)
      BY <1>8, <2>3 DEF HasSemicolon, Typed
    <3>3. ASSUME directive_name = <<"listen">>
          PROVE  \E i \in DOMAIN ports' : ports'[i] = PortOf[directive_value]
      <4>1. directive_value \in DOMAIN PortOf
        BY <3>2, <3>3 DEF NotAllowed
      <4>2. ports' = Append(ports, PortOf[directive_value]) /\ ports \in Seq(Nat)
            /\ PortOf[directive_value] \in Nat
        BY <1>8, <3>3, <4>1, DirectivesAssumption DEF HasSemicolon, PortsAfter, Typed
      <4> QED
        BY <4>2
    <3>4. CheckedWith(blockServer, ports')
      BY <1>5, <1>8, CheckedByPorts DEF NextChecked
    <3>5. CheckedWith(Put(blockServer, NameKept(directive_name, directive_value),
                          ValueKept(directive_name, directive_value)), ports')
      BY <3>1, <3>2, <3>3, <3>4, CheckedPut DEF Typed
    <3>6. CheckedWith(blockServer', ports')
      BY <1>8, <3>4, <3>5 DEF HasSemicolon
    <3>7. NextChecked'
      BY <3>6 DEF NextChecked, Checked, CheckedWith
    <3> QED
      BY <1>6, <1>8, <2>1, <3>7 DEF LocationMarked
  <2> QED
    BY <1>8, <2>2, <2>3 DEF HasSemicolon
<1>9. CASE CloseServer
  <2>1. previousToken' = "brackets_close" /\ blockServer' = Defaults /\ ports' = ports
        /\ serverList' = Append(serverList, Closing)
    BY <1>9 DEF CloseServer, Takes
  <2>2. CheckedWith(Defaults, ports')
    BY DefaultsChecked
  <2>3. NextChecked'
    BY <2>1, <2>2 DEF NextChecked, Checked, CheckedWith
  <2> QED
    BY <2>1, <2>3, ClosingChecked DEF LocationMarked
<1>10. CASE CloseServerFails
  <2>1. UNCHANGED <<previousToken, isLocation, directive_name, blockServer, ports>>
        /\ serverList' = Append(serverList, Closing)
    BY <1>10 DEF CloseServerFails
  <2> QED
    BY <2>1, ClosingChecked DEF NextChecked, Checked, LocationMarked
<1>11. CASE CloseLocation
  <2>1. previousToken' = "brackets_close" /\ UNCHANGED <<serverList, blockServer, ports>>
    BY <1>11 DEF CloseLocation, Takes
  <2> QED
    BY <2>1, CheckedKept DEF LocationMarked
<1> QED
  BY <1>1, <1>2, <1>3, <1>4, <1>7, <1>8, <1>9, <1>10, <1>11 DEF ParserNext

-----------------------------------------------------------------------------
(* Files that keep the layout *)

(* The token of a word. *)
LEMMA TokenOf ==
    ASSUME NEW word
    PROVE  /\ Token(word) = "server" <=> word = "server"
           /\ Token(word) = "brackets_open" <=> word = "{"
           /\ Token(word) = "brackets_close" <=> word = "}"
           /\ Token(word) = "semicolon" <=> word = ";"
           /\ Token(word) = "location" <=> word = "location"
           /\ Token(word) = "name" <=> word \in Keywords
           /\ Token(word) = "value" <=> word \notin Reserved
           /\ Token(word) \in DOMAIN Follows
BY DEF Token, Keywords, Reserved, Follows

(* The nests of a tidy file. *)
LEMMA NestMoves ==
    /\ Len(<<>>) = 0 /\ Len(<<"server">>) = 1 /\ Len(<<"location", "server">>) = 2
    /\ <<"server">> \o <<>> = <<"server">>
    /\ <<"location">> \o <<"server">> = <<"location", "server">>
    /\ Tail(<<"server">>) = <<>> /\ Tail(<<"location", "server">>) = <<"server">>
    /\ <<>> # <<"server">> /\ <<>> # <<"location", "server">>
    /\ <<"server">> # <<"location", "server">>
    /\ Head(<<"server">>) = "server" /\ Head(<<"location", "server">>) = "location"
<1>1. <<"server">> \o <<>> = <<"server">>
  OBVIOUS
<1>2. <<"location">> \o <<"server">> = <<"location", "server">>
  <2> DEFINE S == {"location", "server"}
             s == <<"location">> \o <<"server">>
  <2>1. s \in Seq(S) /\ Len(s) = 2 /\ s[1] = "location" /\ s[2] = "server"
    OBVIOUS
  <2>2. <<"location", "server">> \in Seq(S) /\ Len(<<"location", "server">>) = 2
    OBVIOUS
  <2>3. \A i \in 1..Len(s) : s[i] = <<"location", "server">>[i]
    BY <2>1
  <2> HIDE DEF S, s
  <2>4. s = <<"location", "server">>
    BY <2>1, <2>2, <2>3, SeqEqual
  <2> QED
    BY <2>4 DEF s
<1>3. Tail(<<"server">>) = <<>> /\ Tail(<<"location", "server">>) = <<"server">>
  OBVIOUS
<1> QED
  BY <1>1, <1>2, <1>3

(* An item that gets one more word. *)
LEMMA ItemMoves ==
    ASSUME NEW s \in Texts, NEW word \in Words
    PROVE  /\ Append(s, word) # <<>>
           /\ Len(Append(s, word)) = Len(s) + 1
           /\ s = <<>> => Append(s, word) = <<word>>
           /\ s # <<>> => /\ Head(Append(s, word)) = Head(s)
                         /\ Tail(Append(s, word)) = Append(Tail(s), word)
           /\ Len(s) = 1 => Tail(s) = <<>>
           /\ Len(s) \in Nat /\ (Len(s) = 0 <=> s = <<>>)
<1>1. s \in Seq(Words)
  BY DEF Texts
<1>2. Len(s) \in Nat /\ (Len(s) = 0 <=> s = <<>>)
  BY <1>1, EmptySeq
<1>3. Append(s, word) # <<>> /\ Len(Append(s, word)) = Len(s) + 1
  BY <1>1, AppendProperties
<1>4. s = <<>> => Append(s, word) = <<word>>
  BY <1>1
<1>5. ASSUME s # <<>>
      PROVE  /\ Head(Append(s, word)) = Head(s)
             /\ Tail(Append(s, word)) = Append(Tail(s), word)
  BY <1>1, <1>5
<1>6. ASSUME Len(s) = 1 PROVE Tail(s) = <<>>
  <2>1. s # <<>>
    BY <1>2, <1>6
  <2>2. Tail(s) \in Seq(Words) /\ Len(Tail(s)) = 0
    BY <1>1, <1>6, <2>1, HeadTailProperties
  <2> QED
    BY <2>2, EmptySeq
<1> QED
  BY <1>2, <1>3, <1>4, <1>5, <1>6

(* What Aligned says while the file is parsed and has kept the layout. *)
Kept == Depths /\ Between /\ Heading /\ Said

LEMMA PutNotEmpty == ASSUME NEW d, NEW n, NEW v PROVE Put(d, n, v) # Empty
<1>1. n \in DOMAIN Put(d, n, v)
  BY DEF Put
<1> QED
  BY <1>1, EmptyTyped

(* A word that begins an item, or goes on with it. *)
LEMMA WordKept ==
    ASSUME Typed, Kept, tidy',
           BlockServer \/ HasDirectName \/ HasLocation \/ HasValue
    PROVE  Kept'
<1> DEFINE word == Head(ahead)
<1>1. /\ Read(word) /\ Fits(word) /\ word \in Words /\ item \in Texts
      /\ word \notin {"{", "}", ";"}
  <2>1. Read(word) /\ Token(word) \in {"server", "name", "location", "value"}
    BY DEF BlockServer, HasDirectName, HasLocation, HasValue, Takes
  <2>2. Fits(word)
    BY <2>1 DEF Read
  <2>3. word \in Words /\ item \in Texts
    BY <2>1, ReadTyped DEF Typed, FileTypeOK
  <2>4. word \notin {"{", "}", ";"}
    BY <2>1, TokenOf
  <2> QED
    BY <2>1, <2>2, <2>3, <2>4
<1>2. nest' = nest /\ item' = Append(item, word)
  BY <1>1 DEF Read
<1>3. bracketCounter' = bracketCounter /\ block_location' = block_location
  BY DEF BlockServer, HasDirectName, HasLocation, HasValue, dictVars
<1> HIDE DEF word
<1>4. /\ item' # <<>> /\ Len(item') = Len(item) + 1
      /\ item = <<>> => item' = <<word>> /\ Head(item') = word /\ Len(item') = 1
      /\ item # <<>> => Head(item') = Head(item) /\ Tail(item') = Append(Tail(item), word)
      /\ Len(item) \in Nat /\ (Len(item) = 0 <=> item = <<>>)
      /\ Len(item) = 1 => Tail(item) = <<>>
  <2>1. /\ Append(item, word) # <<>> /\ Len(Append(item, word)) = Len(item) + 1
        /\ item = <<>> => Append(item, word) = <<word>>
        /\ item # <<>> => /\ Head(Append(item, word)) = Head(item)
                         /\ Tail(Append(item, word)) = Append(Tail(item), word)
        /\ Len(item) = 1 => Tail(item) = <<>>
        /\ Len(item) \in Nat /\ (Len(item) = 0 <=> item = <<>>)
    BY <1>1, ItemMoves
  <2>2. Head(<<word>>) = word /\ Len(<<word>>) = 1
    OBVIOUS
  <2> QED
    BY <1>2, <2>1, <2>2
<1>5. CASE BlockServer
  <2>1. word = "server" /\ previousToken' = "server" /\ isLocation' = isLocation
    BY <1>5, TokenOf DEF BlockServer, Takes, word
  <2>2. item = <<>> /\ nest = <<>>
    BY <1>1, <2>1 DEF Fits, Keywords, Reserved
  <2> QED
    BY <1>2, <1>3, <1>4, <2>1, <2>2 DEF Kept, Depths, Between, Heading, Said
<1>6. CASE HasDirectName
  <2>1. word \in Keywords /\ previousToken' = "name" /\ isLocation' = isLocation
        /\ directive_name' = <<word>>
    BY <1>6, TokenOf DEF HasDirectName, Takes, word
  <2>2. item = <<>>
    BY <1>1, <2>1 DEF Fits, Keywords, Reserved
  <2>3. word # "location"
    BY <2>1 DEF Keywords
  <2> QED
    BY <1>2, <1>3, <1>4, <2>1, <2>2, <2>3 DEF Kept, Depths, Between, Heading, Said
<1>7. CASE HasLocation
  <2>1. word = "location" /\ previousToken' = "location" /\ isLocation' = TRUE
        /\ directive_name' = <<"location">>
    BY <1>7, TokenOf DEF HasLocation, Takes, word
  <2>2. item = <<>> /\ nest = <<"server">>
    BY <1>1, <2>1 DEF Fits, Keywords, Reserved
  <2> QED
    BY <1>2, <1>3, <1>4, <2>1, <2>2, NestMoves DEF Kept, Depths, Between, Heading, Said
<1>8. CASE HasValue
  <2>0. \A n \in Nat : n # 0 => (n = 1 \/ n > 1) /\ ~(n = 1 /\ n > 1)
    OBVIOUS
  <2>1. /\ word \notin Reserved /\ previousToken' = "value" /\ isLocation' = isLocation
        /\ directive_name' = directive_name
        /\ directive_value' = IF previousToken = "value" THEN Append(directive_value, word)
                              ELSE <<word>>
    BY <1>8, TokenOf DEF HasValue, Takes, word
  <2>2. /\ item # <<>>
        /\ Head(item) \in Keywords \/ item = <<"location">>
    <3>1. word \notin Keywords /\ word \notin {"server", "location", "{", "}", ";", "listen"}
      BY <2>1 DEF Reserved, Keywords
    <3>2. \/ item # <<>> /\ Head(item) \in Keywords
          \/ item = <<"location">>
      BY <1>1, <3>1 DEF Fits
    <3> QED
      BY <3>2
  <2>3. item = <<"location">> => Head(item) = "location" /\ Len(item) = 1
    OBVIOUS
  <2>4. "location" \notin Keywords /\ "server" \notin Keywords
    BY DEF Keywords
  <2>5. previousToken = "value" <=> Len(item) > 1
    <3>1. CASE Head(item) \in Keywords
      <4>1. previousToken = IF Len(item) = 1 THEN "name" ELSE "value"
        BY <2>2, <2>4, <3>1 DEF Kept, Heading
      <4>2. Len(item) \in Nat /\ Len(item) # 0
        BY <1>4, <2>2
      <4> QED
        BY <2>0, <4>1, <4>2
    <3>2. CASE item = <<"location">>
      BY <2>2, <2>3, <2>4, <3>2 DEF Kept, Heading
    <3> QED
      BY <2>2, <3>1, <3>2
  <2>6. directive_value' = Tail(item')
    <3>1. CASE Len(item) > 1
      BY <1>4, <2>1, <2>2, <2>3, <2>4, <2>5, <3>1 DEF Kept, Said
    <3>2. CASE Len(item) = 1
      <4>1. previousToken # "value" /\ Tail(item) = <<>>
        BY <1>4, <2>5, <3>2
      <4>2. Append(<<>>, word) = <<word>>
        OBVIOUS
      <4> QED
        BY <1>4, <2>1, <2>2, <4>1, <4>2
    <3>3. Len(item) \in Nat /\ Len(item) # 0
      BY <1>4, <2>2
    <3>4. Len(item) > 1 \/ Len(item) = 1
      BY <2>0, <3>3
    <3> QED
      BY <3>1, <3>2, <3>4
  <2>7. directive_name = <<Head(item)>>
    BY <2>2, <2>3, <2>4 DEF Kept, Said
  <2>8. Depths' /\ Between' /\ Said'
    BY <1>2, <1>3, <1>4, <2>1, <2>2, <2>6, <2>7 DEF Kept, Depths, Between, Said
  <2>9. Heading'
    BY <1>2, <1>4, <2>1, <2>2, <2>3, <2>4 DEF Kept, Heading
  <2> QED
    BY <2>8, <2>9 DEF Kept
<1> QED
  BY <1>5, <1>6, <1>7, <1>8

LEMMA ItemLength ==
    ASSUME Typed
    PROVE  Len(item) \in Nat /\ (Len(item) > 1 => item # <<>>) /\ (Len(item) = 2 => Len(item) > 1)
<1>1. item \in Seq(Words)
  BY DEF Typed, FileTypeOK, Texts
<1>2. Len(item) \in Nat
  BY <1>1
<1>3. \A n \in Nat : (n > 1 => n # 0) /\ (n = 2 => n > 1)
  OBVIOUS
<1> QED
  BY <1>2, <1>3, NestMoves

(* Where a tidy file stands when a brace opens, a directive ends or a block    *)
(* closes.                                                                     *)
LEMMA OpensHere ==
    ASSUME Typed, Kept, Fits("{")
    PROVE  \/ item = <<"server">> /\ nest = <<>> /\ ~isLocation /\ Kind = "server"
           \/ /\ item # <<>> /\ Head(item) = "location" /\ nest = <<"server">> /\ isLocation
              /\ Kind = "location" /\ directive_name = <<"location">>
              /\ directive_value = Tail(item)
<1>0. "location" \notin Keywords /\ "server" \notin Keywords
  BY DEF Keywords
<1>1. item = <<"server">> \/ (Len(item) = 2 /\ Head(item) = "location")
  BY DEF Fits, Keywords, Reserved
<1>2. CASE item = <<"server">>
  <2>1. item # <<>> /\ Head(item) = "server"
    BY <1>2, NestMoves
  <2> QED
    BY <1>0, <1>2, <2>1, NestMoves DEF Kept, Depths, Heading, Kind
<1>3. CASE Len(item) = 2 /\ Head(item) = "location"
  <2>1. item # <<>>
    BY <1>3, ItemLength
  <2>2. Len(item) > 1 /\ Head(item) \notin Keywords /\ Head(item) # "server"
    BY <1>0, <1>3, ItemLength
  <2>3. nest = <<"server">>
    BY <2>1, <2>2, <1>3 DEF Kept, Heading
  <2>4. directive_name = <<"location">> /\ directive_value = Tail(item)
    BY <1>3, <2>1, <2>2 DEF Kept, Said
  <2>5. isLocation
    BY <1>3, <2>1 DEF Kept, Depths
  <2>6. Kind = "location"
    BY <1>3, <2>1 DEF Kind
  <2> QED
    BY <1>3, <2>1, <2>3, <2>4, <2>5, <2>6
<1> QED
  BY <1>1, <1>2, <1>3

LEMMA EndsHere ==
    ASSUME Typed, Kept, Fits(";")
    PROVE  /\ item # <<>> /\ Head(item) \in Keywords
           /\ directive_name = <<Head(item)>> /\ directive_value = Tail(item)
           /\ isLocation <=> nest = <<"location", "server">>
<1>0. "location" \notin Keywords /\ "server" \notin Keywords
  BY DEF Keywords
<1>1. Len(item) > 1 /\ Head(item) \in Keywords
  BY DEF Fits, Keywords, Reserved
<1>2. item # <<>>
  BY <1>1, ItemLength
<1> QED
  BY <1>0, <1>1, <1>2 DEF Kept, Depths, Said

LEMMA ClosesHere ==
    ASSUME Typed, Kept, Fits("}")
    PROVE  /\ item = <<>>
           /\ \/ nest = <<"server">> /\ bracketCounter = 1 /\ ~isLocation
              \/ nest = <<"location", "server">> /\ bracketCounter = 2 /\ isLocation
<1>1. item = <<>> /\ nest # <<>>
  BY DEF Fits, Keywords, Reserved
<1> QED
  BY <1>1, NestMoves DEF Kept, Depths

(* A brace or a semicolon. *)
LEMMA MarkKept ==
    ASSUME Typed, Kept, tidy',
           OpenBracket \/ HasSemicolon \/ CloseServer \/ CloseLocation \/ CloseOther
    PROVE  Kept'
<1> DEFINE word == Head(ahead)
<1>1. Read(word) /\ Fits(word)
  <2>1. Read(word)
    BY DEF OpenBracket, HasSemicolon, CloseServer, CloseLocation, CloseOther, Takes
  <2> QED
    BY <2>1 DEF Read
<1>2. CASE OpenBracket
  <2>1. word = "{" /\ previousToken' = "brackets_open" /\ isLocation' = isLocation
    BY <1>2, TokenOf DEF OpenBracket, Takes
  <2>2. item' = <<>> /\ nest' = <<Kind>> \o nest
    BY <1>1, <2>1 DEF Read
  <2>3. bracketCounter' = bracketCounter + 1
        /\ block_location' = IF isLocation THEN Put(block_location, directive_name, directive_value)
                             ELSE block_location
    BY <1>2 DEF OpenBracket
  <2>4. CASE nest = <<>> /\ ~isLocation /\ Kind = "server"
    <3>1. nest' = <<"server">> /\ bracketCounter' = 1 /\ block_location' = Empty
      BY <2>2, <2>3, <2>4, NestMoves DEF Kept, Depths
    <3> QED
      BY <2>1, <2>2, <2>4, <3>1, NestMoves DEF Kept, Depths, Between, Heading, Said
  <2>5. CASE nest = <<"server">> /\ isLocation /\ Kind = "location"
    <3>1. nest' = <<"location", "server">> /\ bracketCounter' = 2 /\ block_location' # Empty
      BY <2>2, <2>3, <2>5, NestMoves, PutNotEmpty DEF Kept, Depths
    <3> QED
      BY <2>1, <2>2, <2>5, <3>1, NestMoves DEF Kept, Depths, Between, Heading, Said
  <2> QED
    BY <1>1, <2>1, <2>4, <2>5, OpensHere
<1>3. CASE HasSemicolon
  <2>1. word = ";" /\ previousToken' = "semicolon" /\ isLocation' = isLocation
        /\ bracketCounter' = bracketCounter
    BY <1>3, TokenOf DEF HasSemicolon, Takes
  <2>2. item' = <<>> /\ nest' = nest
    BY <1>1, <2>1 DEF Read
  <2>3. isLocation <=> nest = <<"location", "server">>
    BY <1>1, <2>1, EndsHere
  <2>4. (block_location' = Empty) <=> (nest # <<"location", "server">>)
    <3>1. CASE isLocation
      <4>1. bracketCounter # 0
        BY <2>3, <3>1, NestMoves DEF Kept, Depths
      <4>2. block_location' = Put(block_location, directive_name', directive_value')
        BY <1>3, <3>1, <4>1 DEF HasSemicolon
      <4> QED
        BY <2>3, <3>1, <4>2, PutNotEmpty
    <3>2. CASE ~isLocation
      BY <1>3, <2>3, <3>2 DEF HasSemicolon, Kept, Depths
    <3> QED
      BY <3>1, <3>2
  <2> QED
    BY <2>1, <2>2, <2>3, <2>4 DEF Kept, Depths, Between, Heading, Said
<1>4. ASSUME CloseServer \/ CloseLocation \/ CloseOther
      PROVE  /\ word = "}" /\ previousToken' = "brackets_close" /\ item' = <<>>
             /\ nest' = Tail(nest)
             /\ \/ nest = <<"server">> /\ bracketCounter = 1 /\ ~isLocation
                \/ nest = <<"location", "server">> /\ bracketCounter = 2 /\ isLocation
  <2>1. word = "}" /\ previousToken' = "brackets_close"
    BY <1>4, TokenOf DEF CloseServer, CloseLocation, CloseOther, Takes
  <2>2. \/ nest = <<"server">> /\ bracketCounter = 1 /\ ~isLocation
        \/ nest = <<"location", "server">> /\ bracketCounter = 2 /\ isLocation
    BY <1>1, <2>1, ClosesHere
  <2>3. item' = <<>> /\ nest' = Tail(nest)
    BY <1>1, <2>1, <2>2, NestMoves DEF Read
  <2> QED
    BY <2>1, <2>2, <2>3
<1>5. CASE CloseServer
  <2>1. /\ nest = <<"server">> /\ ~isLocation /\ isLocation' = isLocation
        /\ bracketCounter' = 0 /\ block_location' = block_location
    <3>1. isLocation' = isLocation /\ bracketCounter' = 0 /\ block_location' = block_location
          /\ bracketCounter = 1
      BY <1>5 DEF CloseServer
    <3>2. \/ nest = <<"server">> /\ ~isLocation
          \/ bracketCounter = 2
      BY <1>4, <1>5
    <3>3. nest = <<"server">> /\ ~isLocation
      BY <3>1, <3>2
    <3> QED
      BY <3>1, <3>3
  <2>2. nest' = <<>>
    BY <1>4, <1>5, <2>1, NestMoves
  <2> QED
    BY <1>4, <1>5, <2>1, <2>2, NestMoves DEF Kept, Depths, Between, Heading, Said
<1>6. CASE CloseLocation
  <2>1. /\ nest = <<"location", "server">> /\ isLocation' = FALSE
        /\ bracketCounter' = 1 /\ block_location' = Empty
    <3>1. isLocation /\ isLocation' = FALSE /\ bracketCounter' = bracketCounter - 1
          /\ block_location' = Empty
      BY <1>6 DEF CloseLocation
    <3>2. nest = <<"location", "server">> /\ bracketCounter = 2
      BY <1>4, <1>6, <3>1
    <3> QED
      BY <3>1, <3>2
  <2>2. nest' = <<"server">>
    BY <1>4, <1>6, <2>1, NestMoves
  <2> QED
    BY <1>4, <1>6, <2>1, <2>2, NestMoves DEF Kept, Depths, Between, Heading, Said
<1>7. CASE CloseOther
  BY <1>4, <1>7 DEF CloseOther
<1> QED
  BY <1>2, <1>3, <1>5, <1>6, <1>7

(* Only what is read while the file keeps the layout matters. *)
LEMMA AlignedStep ==
    ASSUME Typed, Aligned, [ParserNext]_parserVars
    PROVE  Aligned'
<1>1. CASE Write \/ UNCHANGED parserVars
  BY <1>1 DEF Write, WritePhrase, parserVars, fileVars, headVars, dictVars, Aligned, Depths,
     Between, Heading, Said
<1>2. CASE OpenFails \/ EndOfFile \/ Misplaced \/ Refused \/ CloseServerFails
  <2>1. outcome' # "parsing"
    BY <1>2 DEF OpenFails, EndOfFile, Misplaced, Refused, CloseServerFails
  <2> QED
    BY <2>1 DEF Aligned
<1>3. CASE \/ BlockServer \/ HasDirectName \/ HasLocation \/ HasValue
           \/ OpenBracket \/ HasSemicolon \/ CloseServer \/ CloseLocation \/ CloseOther
  <2> SUFFICES ASSUME tidy'
               PROVE  Kept'
    BY DEF Aligned, Kept
  <2>1. Read(Head(ahead)) /\ outcome = "parsing"
    BY <1>3 DEF BlockServer, HasDirectName, HasLocation, HasValue, OpenBracket, HasSemicolon,
       CloseServer, CloseLocation, CloseOther, Takes
  <2>2. tidy
    BY <2>1 DEF Read
  <2>3. Kept
    BY <2>1, <2>2 DEF Aligned, Kept
  <2> QED
    BY <1>3, <2>3, WordKept, MarkKept
<1> QED
  BY <1>1, <1>2, <1>3 DEF ParserNext

-----------------------------------------------------------------------------

LEMMA InitHolds == ParserInit => Typed /\ InStep
<1> SUFFICES ASSUME ParserInit
             PROVE  Typed /\ InStep
  OBVIOUS
<1> USE DEF ParserInit, FileInit
<1>1. FileTypeOK
  <2>1. <<>> \in Texts /\ <<>> \in Seq({"server", "location", "other"})
    BY EmptySeq DEF Texts
  <2>2. 0 \in 0..MaxPhrases
    BY FileAssumption
  <2> QED
    BY <2>1, <2>2 DEF FileTypeOK
<1>2. Typed
  <2>1. <<>> \in Texts /\ <<>> \in Seq(Dictionaries) /\ <<>> \in Seq(Seq(Dictionaries))
        /\ <<>> \in Seq(Nat)
    BY EmptySeq DEF Texts
  <2>2. previousToken \in Tokens
    BY DEF Tokens
  <2>3. /\ block_location \in Dictionaries /\ blockServer \in Dictionaries
        /\ globalConfig \in Dictionaries
    BY EmptyTyped, DefaultsTyped
  <2>4. bracketCounter \in Int /\ isLocation \in BOOLEAN
        /\ outcome \in {"parsing", "ok", "broken", "terminated"}
    <3>1. bracketCounter = 0 /\ isLocation = FALSE /\ outcome = "parsing"
      OBVIOUS
    <3>2. 0 \in Int
      OBVIOUS
    <3> QED
      BY <3>1, <3>2
  <2>5. /\ directive_name \in Texts /\ directive_value \in Texts /\ ports \in Seq(Nat)
        /\ singleList \in Seq(Dictionaries) /\ serverList \in Seq(Seq(Dictionaries))
    BY <2>1
  <2> QED
    BY <1>1, <2>2, <2>3, <2>4, <2>5 DEF Typed
<1>3. ServersChecked
  BY DEF ServersChecked
<1>4. CheckedWith(blockServer, ports)
  BY DefaultsChecked
<1>5. NextChecked
  BY <1>4, CheckedByPorts DEF NextChecked
<1>6. LocationMarked
  BY DEF LocationMarked
<1>7. Aligned
  BY NestMoves DEF Aligned, Depths, Between, Heading, Said
<1> QED
  BY <1>2, <1>3, <1>5, <1>6, <1>7 DEF InStep

LEMMA InvariantStep == Typed /\ InStep /\ [ParserNext]_parserVars => (Typed /\ InStep)'
BY TypesStep, CheckedStep, AlignedStep DEF InStep, AllChecked

LEMMA ParserInvariance == ParserSpec => [](Typed /\ InStep)
BY InitHolds, InvariantStep, PTL DEF ParserSpec

(* The rest of the constructor of WebServer leaves the parser alone. *)
LEMMA StartupParses == Spec => ParserSpec
<1>1. Init => ParserInit
  BY DEF Init
<1>2. [Next]_vars => [ParserNext]_parserVars
  BY DEF Next, Parse, Configured, SetupServer, SetupFails, SetupOverflows, Launch, vars
<1> QED
  BY <1>1, <1>2, PTL DEF Spec, ParserSpec

-----------------------------------------------------------------------------
(* The refinement *)

(* Both specifications read the same file and know the same directives. *)
LEMMA SameFile ==
    /\ \A word : Layout!Read(word) <=> Read(word)
    /\ Layout!WritePhrase <=> WritePhrase
    /\ Layout!FileInit <=> FileInit
    /\ Layout!fileVars = fileVars
BY DEF Layout!Read, Read, Layout!Fits, Fits, Layout!Kind, Kind, Layout!Keywords, Keywords,
   Layout!Reserved, Reserved, Layout!WritePhrase, WritePhrase, Layout!FileInit, FileInit,
   Layout!fileVars, fileVars

LEMMA SameDirectives ==
    /\ Layout!Empty = Empty /\ Layout!Defaults = Defaults
    /\ \A d, n, v : Layout!Put(d, n, v) = Put(d, n, v)
    /\ \A n, v : Layout!NameKept(n, v) = NameKept(n, v) /\ Layout!ValueKept(n, v) = ValueKept(n, v)
    /\ \A n, v, flag : Layout!NotAllowed(n, v, flag) <=> NotAllowed(n, v, flag)
    /\ \A d : Layout!PageNames(d) = PageNames(d)
<1>1. Layout!Empty = Empty
  BY DEF Layout!Empty, Empty
<1>2. \A d, n, v : Layout!Put(d, n, v) = Put(d, n, v)
  BY DEF Layout!Put, Put
<1>3. Layout!Defaults = Defaults
  BY <1>1, <1>2 DEF Layout!Defaults, Defaults
<1>4. \A n, v : Layout!NameKept(n, v) = NameKept(n, v) /\ Layout!ValueKept(n, v) = ValueKept(n, v)
  BY DEF Layout!NameKept, NameKept, Layout!ValueKept, ValueKept
<1>5. \A n, v, flag : Layout!NotAllowed(n, v, flag) <=> NotAllowed(n, v, flag)
  BY DEF Layout!NotAllowed, NotAllowed, Layout!PageSyntax, PageSyntax
<1>6. \A d : Layout!PageNames(d) = PageNames(d)
  BY DEF Layout!PageNames, PageNames
<1> QED
  BY <1>1, <1>2, <1>3, <1>4, <1>5, <1>6

LEMMA FollowsIs ==
    /\ Follows["server"] = {"initialized", "brackets_close", "semicolon"}
    /\ Follows["brackets_open"] = {"server", "location", "value"}
    /\ Follows["brackets_close"] = {"semicolon", "brackets_close", "brackets_open"}
    /\ Follows["name"] = {"semicolon", "brackets_open", "brackets_close", "initialized"}
    /\ Follows["semicolon"] = {"value"}
    /\ Follows["location"] = {"semicolon", "brackets_open", "brackets_close"}
    /\ Follows["value"] = {"name", "location", "value"}
BY DEF Follows

(* A word that the layout lets stand is never misplaced. *)
LEMMA FitsFollows ==
    ASSUME Typed, Kept, NEW word, Fits(word)
    PROVE  previousToken \in Follows[Token(word)] /\ ~(word = "location" /\ isLocation)
<1>1. /\ "location" \notin Keywords /\ "server" \notin Keywords
      /\ \A n \in Nat : (n = 2 => n # 1) /\ (n > 1 => n # 1)
  BY DEF Keywords
<1>2. item = <<>> =>
        /\ previousToken \in {"initialized", "semicolon", "brackets_open", "brackets_close"}
        /\ previousToken = "initialized" => nest = <<>>
        /\ previousToken = "brackets_open" => nest # <<>>
        /\ isLocation <=> nest = <<"location", "server">>
  BY DEF Kept, Between, Depths
<1>3. CASE word \in Keywords
  <2>1. item = <<>> /\ word # "location"
    BY <1>3 DEF Fits, Keywords, Reserved
  <2>2. Token(word) = "name"
    BY <1>3, TokenOf
  <2> QED
    BY <1>2, <2>1, <2>2, FollowsIs
<1>4. CASE word = "server"
  <2>1. item = <<>> /\ nest = <<>>
    BY <1>4 DEF Fits, Keywords, Reserved
  <2>2. Token(word) = "server"
    BY <1>4, TokenOf
  <2> QED
    BY <1>2, <1>4, <2>1, <2>2, FollowsIs
<1>5. CASE word = "location"
  <2>1. item = <<>> /\ nest = <<"server">>
    BY <1>5 DEF Fits, Keywords, Reserved
  <2>2. Token(word) = "location"
    BY <1>5, TokenOf
  <2> QED
    BY <1>2, <2>1, <2>2, FollowsIs, NestMoves
<1>6. CASE word = "}"
  <2>1. item = <<>> /\ nest # <<>>
    BY <1>6 DEF Fits, Keywords, Reserved
  <2>2. Token(word) = "brackets_close"
    BY <1>6, TokenOf
  <2> QED
    BY <1>2, <1>6, <2>1, <2>2, FollowsIs
<1>7. CASE word = "{"
  <2>1. item = <<"server">> \/ (Len(item) = 2 /\ Head(item) = "location")
    BY <1>7 DEF Fits, Keywords, Reserved
  <2>2. CASE item = <<"server">>
    <3>1. item # <<>> /\ Head(item) = "server"
      BY <2>2, NestMoves
    <3>2. previousToken = "server"
      BY <1>1, <3>1 DEF Kept, Heading
    <3>3. Token(word) = "brackets_open"
      BY <1>7, TokenOf
    <3> QED
      BY <1>7, <3>2, <3>3, FollowsIs
  <2>3. CASE Len(item) = 2 /\ Head(item) = "location"
    <3>1. item # <<>> /\ Len(item) # 1
      BY <1>1, <2>3, ItemLength
    <3>2. previousToken = "value"
      BY <1>1, <2>3, <3>1 DEF Kept, Heading
    <3>3. Token(word) = "brackets_open"
      BY <1>7, TokenOf
    <3> QED
      BY <1>7, <3>2, <3>3, FollowsIs
  <2> QED
    BY <2>1, <2>2, <2>3
<1>8. CASE word = ";"
  <2>1. Len(item) > 1 /\ Head(item) \in Keywords
    BY <1>8 DEF Fits, Keywords, Reserved
  <2>2. item # <<>> /\ Len(item) # 1
    BY <1>1, <2>1, ItemLength
  <2>3. Head(item) \notin {"server", "location"}
    BY <1>1, <2>1
  <2>4. previousToken = "value"
    BY <2>2, <2>3 DEF Kept, Heading
  <2>5. Token(word) = "semicolon"
    BY <1>8, TokenOf
  <2> QED
    BY <1>8, <2>4, <2>5, FollowsIs
<1>9. CASE word \notin Reserved
  <2>1. word \notin Keywords /\ word \notin {"server", "location", "{", "}", ";", "listen"}
    BY <1>9 DEF Reserved, Keywords
  <2>2. (item # <<>> /\ Head(item) \in Keywords) \/ item = <<"location">>
    BY <2>1 DEF Fits
  <2>3. item = <<"location">> => item # <<>> /\ Head(item) = "location"
    OBVIOUS
  <2>4. previousToken \in {"name", "value", "location"}
    BY <1>1, <2>2, <2>3 DEF Kept, Heading
  <2>5. Token(word) = "value"
    BY <1>9, TokenOf
  <2> QED
    BY <2>1, <2>4, <2>5, FollowsIs
<1> QED
  BY <1>3, <1>4, <1>5, <1>6, <1>7, <1>8, <1>9 DEF Reserved

(* Every step of the parser is one of the layout, or leaves its blocks alone. *)
LEMMA LayoutStep ==
    ASSUME Typed, InStep, [ParserNext]_parserVars
    PROVE  [Layout!LayoutNext]_(Layout!layoutVars)
<1>1. CASE UNCHANGED parserVars
  BY <1>1 DEF parserVars, fileVars, dictVars, Layout!layoutVars, Layout!fileVars
<1>2. CASE ~tidy'
  BY <1>2 DEF Layout!LayoutNext
<1>3. CASE ParserNext /\ tidy'
  <2> DEFINE word == Head(ahead)
  <2>1. outcome = "parsing" /\ tidy
    BY <1>3 DEF ParserNext, Write, WritePhrase, OpenFails, EndOfFile, Misplaced, BlockServer,
       HasDirectName, HasLocation, HasValue, OpenBracket, Refused, HasSemicolon, CloseServer,
       CloseServerFails, CloseLocation, CloseOther, Takes, Read, fileVars
  <2>2. Kept
    BY <2>1 DEF InStep, Aligned, Kept
  <2>3. ASSUME NEW w, Read(w) PROVE w = word /\ ahead # <<>> /\ Fits(w) /\ Layout!Read(w)
    BY <1>3, <2>3, SameFile DEF Read
  <2> SUFFICES \/ Layout!OpenLocation \/ Layout!Directive \/ Layout!CloseLocation
               \/ Layout!CloseServer \/ Layout!Mention \/ Layout!Write \/ Layout!Accept
               \/ Layout!Refuse \/ Layout!Miss
    BY <1>3, <2>1 DEF Layout!LayoutNext
  <2>4. CASE Write
    BY <2>4, SameFile DEF Write, dictVars, Layout!Write, Layout!blockVars
  <2>5. CASE EndOfFile
    BY <2>5 DEF EndOfFile, fileVars, dictVars, Layout!Accept, Layout!fileVars, Layout!blockVars
  <2>6. CASE OpenFails
    BY <2>6 DEF OpenFails, fileVars, dictVars, Layout!Refuse, Layout!fileVars, Layout!blockVars
  <2>7. CASE Misplaced
    <3>1. Read(word)
      BY <2>7 DEF Misplaced
    <3>2. FALSE
      BY <2>2, <2>3, <2>7, <3>1, FitsFollows DEF Misplaced
    <3> QED
      BY <3>2
  <2>8. CASE BlockServer \/ HasDirectName \/ HasLocation \/ HasValue
    <3>1. /\ Read(word) /\ Token(word) \in {"server", "name", "location", "value"}
          /\ UNCHANGED <<dictVars, outcome>>
      BY <2>8 DEF BlockServer, HasDirectName, HasLocation, HasValue, Takes
    <3>2. word \notin {"{", "}", ";"}
      BY <3>1, TokenOf
    <3> QED
      BY <2>3, <3>1, <3>2 DEF Layout!Mention, Layout!blockVars, dictVars
  <2>9. CASE OpenBracket
    <3>1. Read("{") /\ word = "{"
      BY <2>9, TokenOf DEF OpenBracket, Takes
    <3>2. /\ ahead # <<>> /\ Layout!Read("{") /\ Fits("{")
      BY <2>3, <3>1
    <3>3. /\ UNCHANGED <<blockServer, singleList, serverList, globalConfig, outcome>>
          /\ block_location' = IF isLocation
                 THEN Put(block_location, directive_name, directive_value) ELSE block_location
      BY <2>9 DEF OpenBracket
    <3>4. CASE item = <<"server">> /\ nest = <<>> /\ ~isLocation
      <4>1. Head(item) = "server"
        BY <3>4
      <4> QED
        BY <3>1, <3>2, <3>3, <3>4, <4>1 DEF Layout!Mention, Layout!blockVars
    <3>5. CASE /\ Head(item) = "location" /\ nest = <<"server">> /\ isLocation
               /\ directive_name = <<"location">> /\ directive_value = Tail(item)
      <4>1. block_location = Empty
        BY <2>2, <3>5, NestMoves DEF Kept, Depths
      <4>2. block_location' = Layout!Put(Layout!Empty, <<"location">>, Tail(item))
        BY <3>3, <3>5, <4>1, SameDirectives
      <4> QED
        BY <3>2, <3>3, <3>5, <4>2 DEF Layout!OpenLocation
    <3> QED
      BY <2>2, <3>2, <3>4, <3>5, OpensHere
  <2>10. CASE Refused \/ HasSemicolon
    <3>1. Read(";")
      BY <2>10, TokenOf DEF Refused, HasSemicolon, Takes
    <3>2. Layout!Read(";") /\ Fits(";")
      BY <2>3, <3>1
    <3>3. /\ directive_name = <<Head(item)>> /\ directive_value = Tail(item)
          /\ isLocation <=> nest = <<"location", "server">>
      BY <2>2, <3>2, EndsHere
    <3>4. /\ Layout!Inside = "location" <=> isLocation
          /\ Layout!Inside = "none" <=> bracketCounter = 0
          /\ Layout!Inside = "server" <=> bracketCounter # 0 /\ ~isLocation
      <4>1. nest \in {<<>>, <<"server">>, <<"location", "server">>} /\ bracketCounter = Len(nest)
        BY <2>2 DEF Kept, Depths
      <4> QED
        BY <3>3, <4>1, NestMoves DEF Layout!Inside
    <3>5. Layout!Unfit <=> NotAllowed(directive_name, directive_value, isLocation)
      BY <3>3, <3>4, SameDirectives DEF Layout!Unfit, Layout!Name
    <3>6. CASE Refused
      <4>1. /\ NotAllowed(directive_name, directive_value, isLocation) /\ outcome' = "broken"
            /\ UNCHANGED <<block_location, blockServer, singleList, serverList, globalConfig>>
        BY <3>6 DEF Refused
      <4> QED
        BY <3>2, <3>5, <4>1 DEF Layout!Refuse, Layout!blockVars
    <3>7. CASE HasSemicolon
      <4>1. \A d : Layout!Kept(d) = Put(d, directive_name', directive_value')
        BY <3>3, <3>7, SameDirectives DEF HasSemicolon, Layout!Kept, Layout!Name
      <4>2. /\ ~NotAllowed(directive_name, directive_value, isLocation)
            /\ UNCHANGED <<singleList, serverList, outcome>>
        BY <3>7 DEF HasSemicolon
      <4>3. globalConfig' = IF Layout!Inside = "none" THEN Layout!Kept(globalConfig)
                            ELSE globalConfig
        BY <3>4, <3>7, <4>1 DEF HasSemicolon
      <4>4. blockServer' = IF Layout!Inside = "server" THEN Layout!Kept(blockServer)
                           ELSE blockServer
        BY <3>4, <3>7, <4>1 DEF HasSemicolon
      <4>5. block_location' = IF Layout!Inside = "location" THEN Layout!Kept(block_location)
                              ELSE block_location
        <5>1. isLocation => bracketCounter # 0
          BY <3>4 DEF Layout!Inside
        <5> QED
          BY <3>4, <3>7, <4>1, <5>1 DEF HasSemicolon
      <4> QED
        BY <3>2, <3>5, <4>2, <4>3, <4>4, <4>5 DEF Layout!Directive
    <3> QED
      BY <2>10, <3>6, <3>7
  <2>11. CASE CloseServer \/ CloseServerFails \/ CloseLocation \/ CloseOther
    <3>1. Read("}")
      BY <2>11, TokenOf DEF CloseServer, CloseServerFails, CloseLocation, CloseOther, Takes
    <3>2. Layout!Read("}") /\ Fits("}")
      BY <2>3, <3>1
    <3>3. \/ Layout!Inside = "server" /\ bracketCounter = 1 /\ ~isLocation
          \/ /\ Layout!Inside = "location" /\ bracketCounter # 1 /\ isLocation
             /\ nest = <<"location", "server">>
      <4>1. \/ nest = <<"server">> /\ bracketCounter = 1 /\ ~isLocation
            \/ nest = <<"location", "server">> /\ bracketCounter = 2 /\ isLocation
        BY <2>2, <3>2, ClosesHere
      <4>2. CASE nest = <<"server">> /\ bracketCounter = 1 /\ ~isLocation
        BY <4>2, NestMoves DEF Layout!Inside
      <4>3. CASE nest = <<"location", "server">> /\ bracketCounter = 2 /\ isLocation
        <5>1. Layout!Inside = "location"
          BY <4>3, NestMoves DEF Layout!Inside
        <5> QED
          BY <4>3, <5>1
      <4> QED
        BY <4>1, <4>2, <4>3
    <3>4. CASE CloseServer
      <4>1. /\ Layout!Inside = "server" /\ serverList' = Append(serverList, <<blockServer>> \o singleList)
            /\ blockServer' = Layout!Defaults /\ singleList' = <<>>
            /\ UNCHANGED <<globalConfig, block_location, outcome>>
        BY <3>3, <3>4, SameDirectives DEF CloseServer, Closing
      <4> QED
        BY <3>2, <4>1 DEF Layout!CloseServer
    <3>5. CASE CloseServerFails
      <4>1. Layout!Inside = "server" /\ outcome' = "terminated"
        BY <3>3, <3>5 DEF CloseServerFails
      <4>2. PICK i \in DOMAIN Closing : PageNames(Closing[i]) # {}
        BY <3>5 DEF CloseServerFails, PageMissing
      <4>3. \/ PageNames(blockServer) # {}
            \/ \E j \in DOMAIN singleList : PageNames(singleList[j]) # {}
        <5>1. singleList \in Seq(Dictionaries) /\ <<blockServer>> \in Seq(Dictionaries)
          BY DEF Typed
        <5>2. CASE i = 1
          <6>1. Closing[1] = blockServer
            BY <5>1 DEF Closing
          <6> QED
            BY <4>2, <5>2, <6>1
        <5>3. CASE i # 1
          <6>1. i \in 1..(1 + Len(singleList))
            BY <5>1 DEF Closing
          <6>2. i - 1 \in DOMAIN singleList /\ Closing[i] = singleList[i - 1]
            BY <5>1, <5>3, <6>1 DEF Closing
          <6> QED
            BY <4>2, <6>2
        <5> QED
          BY <5>2, <5>3
      <4> QED
        BY <3>2, <4>1, <4>3, SameDirectives DEF Layout!Miss
    <3>6. CASE CloseLocation
      <4>1. block_location # Empty
        BY <2>2, <3>3, <3>6 DEF Kept, Depths, CloseLocation
      <4>2. /\ Layout!Inside = "location" /\ singleList' = Append(singleList, block_location)
            /\ block_location' = Layout!Empty
            /\ UNCHANGED <<globalConfig, blockServer, serverList, outcome>>
        BY <3>3, <3>6, <4>1, SameDirectives DEF CloseLocation
      <4> QED
        BY <3>2, <4>2 DEF Layout!CloseLocation
    <3>7. CASE CloseOther
      BY <3>3, <3>7 DEF CloseOther
    <3> QED
      BY <2>11, <3>4, <3>5, <3>6, <3>7
  <2> QED
    BY <1>3, <2>4, <2>5, <2>6, <2>7, <2>8, <2>9, <2>10, <2>11 DEF ParserNext
<1> QED
  BY <1>1, <1>2, <1>3

-----------------------------------------------------------------------------
(* Error pages *)

(* Blocks that verrify_error_page has passed. *)
LEMMA PagesSeen ==
    ASSUME NEW blocks, ~PageMissing(blocks), NEW i \in DOMAIN blocks, i \in Nat \ {0},
           PageNames(blocks[i]) # {},
           \/ <<"root">> \in DOMAIN blocks[i]
           \/ \A j \in 2..(i - 1) :
                  PageNames(blocks[j]) = {} \/ <<"root">> \notin DOMAIN blocks[j]
    PROVE  PageFound(blocks, i)
<1> DEFINE Rooted == {j \in 1..i : PageNames(blocks[j]) # {} /\ <<"root">> \in DOMAIN blocks[j]}
           Latest == CHOOSE j \in Rooted : \A k \in Rooted : k <= j
<1>1. <<RootSeen(blocks, i), FirstPage(blocks[i])>> \in Pages
  BY DEF PageMissing
<1>2. RootSeen(blocks, i) = IF Rooted = {} THEN blocks[1][<<"root">>]
                            ELSE blocks[Latest][<<"root">>]
  BY DEF RootSeen
<1>3. CASE <<"root">> \in DOMAIN blocks[i]
  <2>1. i \in Rooted /\ \A k \in Rooted : k <= i
    BY <1>3
  <2>2. \A j \in Rooted : (\A k \in Rooted : k <= j) => j = i
    BY <2>1
  <2>3. Latest = i
    BY <2>1, <2>2
  <2> QED
    BY <1>1, <1>2, <1>3, <2>1, <2>3 DEF PageFound
<1>4. CASE <<"root">> \notin DOMAIN blocks[i]
  <2>1. \A j \in Rooted : j = 1
    <3> SUFFICES ASSUME NEW j \in Rooted, j # 1 PROVE FALSE
      OBVIOUS
    <3>1. j # i /\ j \in 2..(i - 1)
      BY <1>4
    <3> QED
      BY <1>4, <3>1
  <2>2. Rooted # {} => Latest = 1
    <3> SUFFICES ASSUME Rooted # {} PROVE Latest = 1
      OBVIOUS
    <3>1. 1 \in Rooted /\ \A k \in Rooted : k <= 1
      BY <2>1
    <3> QED
      BY <2>1, <3>1
  <2> QED
    BY <1>1, <1>2, <1>4, <2>2 DEF PageFound
<1> QED
  BY <1>3, <1>4

LEMMA PagesStep ==
    ASSUME Typed, PagesWhereRooted, [ParserNext]_parserVars
    PROVE  PagesWhereRooted'
<1>1. CASE CloseServer
  <2>1. /\ serverList' = Append(serverList, Closing) /\ ~PageMissing(Closing)
        /\ outcome = "parsing"
    BY <1>1 DEF CloseServer, Takes
  <2>2. Closing \in Seq(Dictionaries) /\ serverList \in Seq(Seq(Dictionaries))
    BY SeqsClosed DEF Closing, Typed
  <2> SUFFICES ASSUME NEW s \in DOMAIN serverList', NEW i \in DOMAIN serverList'[s],
                      PageNames(serverList'[s][i]) # {},
                      \/ <<"root">> \in DOMAIN serverList'[s][i]
                      \/ \A j \in 2..(i - 1) : \/ PageNames(serverList'[s][j]) = {}
                                              \/ <<"root">> \notin DOMAIN serverList'[s][j]
               PROVE  PageFound(serverList'[s], i)
    BY DEF PagesWhereRooted, PageFound, PageNames, FirstPage
  <2>3. CASE s \in DOMAIN serverList
    <3>1. serverList'[s] = serverList[s]
      BY <2>1, <2>2, <2>3
    <3> QED
      BY <2>1, <2>3, <3>1 DEF PagesWhereRooted
  <2>4. CASE s \notin DOMAIN serverList
    <3>1. serverList'[s] = Closing
      BY <2>1, <2>2, <2>4
    <3>2. i \in Nat \ {0}
      BY <2>2, <3>1
    <3> QED
      BY <2>1, <3>1, <3>2, PagesSeen
  <2> QED
    BY <2>3, <2>4
<1>2. CASE CloseServerFails
  <2>1. outcome' = "terminated"
    BY <1>2 DEF CloseServerFails
  <2> QED
    BY <2>1 DEF PagesWhereRooted
<1>3. CASE ~CloseServer /\ ~CloseServerFails
  <2>1. serverList' = serverList /\ (outcome' # "terminated" => outcome # "terminated")
    BY <1>3 DEF ParserNext, Write, OpenFails, EndOfFile, Misplaced, BlockServer, HasDirectName,
       HasLocation, HasValue, OpenBracket, Refused, HasSemicolon, CloseLocation, CloseOther,
       parserVars, dictVars
  <2> QED
    BY <2>1 DEF PagesWhereRooted, PageFound, PageNames, FirstPage
<1> QED
  BY <1>1, <1>2, <1>3

-----------------------------------------------------------------------------
(* Every server has its port *)

(* A part of the file is made of its words. *)
LEMMA PartOf ==
    ASSUME NEW s \in Texts, s # <<>>
    PROVE  /\ 1 \in DOMAIN s /\ Head(s) = s[1]
           /\ \A i \in DOMAIN Tail(s) : i + 1 \in DOMAIN s /\ Tail(s)[i] = s[i + 1]
BY DEF Texts

(* A word more, or the words after the first. *)
LEMMA MorePrinted ==
    ASSUME NEW v \in Texts, NEW word \in Words, Printed(v), \A u \in Padded : word # u[1]
    PROVE  Printed(Append(v, word)) /\ Printed(<<word>>)
<1>1. v \in Seq(Words)
  BY DEF Texts
<1>2. ASSUME NEW i \in DOMAIN Append(v, word)
      PROVE  (i \in DOMAIN v /\ Append(v, word)[i] = v[i]) \/ Append(v, word)[i] = word
  BY <1>1
<1>3. ASSUME NEW i \in DOMAIN <<word>> PROVE <<word>>[i] = word
  OBVIOUS
<1> QED
  BY <1>2, <1>3 DEF Printed

LEMMA LessPrinted ==
    ASSUME NEW v \in Texts, Printed(v), v # <<>>
    PROVE  Printed(Tail(v))
BY PartOf DEF Printed

(* What is printed is not one of the other values. *)
LEMMA NotPadded ==
    ASSUME PortsPrinted, NEW v \in Texts, Printed(v)
    PROVE  v \notin Padded
<1>1. v # <<>> => 1 \in DOMAIN v
  BY PartOf
<1> QED
  BY <1>1 DEF PortsPrinted, Printed

LEMMA ReadPrinted ==
    ASSUME FileTypeOK, NEW word, Read(word),
           Printed(ahead)
    PROVE  /\ Printed(ahead')
           /\ \A u \in Padded : word # u[1]
<1>1. ahead \in Texts /\ ahead # <<>> /\ word = Head(ahead) /\ ahead' = Tail(ahead)
  <2>1. ahead \in Texts
    BY DEF FileTypeOK
  <2>2. ahead # <<>> /\ word = Head(ahead) /\ ahead' = Tail(ahead)
    BY Zenon DEF Read
  <2> QED
    BY <2>1, <2>2
<1>2. 1 \in DOMAIN ahead /\ Head(ahead) = ahead[1]
      /\ \A i \in DOMAIN Tail(ahead) : i + 1 \in DOMAIN ahead /\ Tail(ahead)[i] = ahead[i + 1]
  BY <1>1, PartOf
<1> QED
  BY <1>1, <1>2 DEF Printed

(* The "listen" of a block is what was put there. *)
LEMMA ListenPut ==
    ASSUME NEW d, <<"listen">> \in DOMAIN d, NEW n \in Texts, NEW v \in Texts,
           NEW flag \in BOOLEAN, ~NotAllowed(n, v, flag)
    PROVE  Put(d, NameKept(n, v), ValueKept(n, v))[<<"listen">>]
               = IF n = <<"listen">> THEN v ELSE d[<<"listen">>]
<1> DEFINE m == NameKept(n, v)
           u == ValueKept(n, v)
<1>1. m = <<"listen">> <=> n = <<"listen">>
  <2>1. n # <<"error_page">> => m = n
    BY KeptTyped
  <2>2. n = <<"error_page">> => Len(m) = 2
    BY KeptTyped
  <2>3. Len(<<"listen">>) = 1 /\ <<"error_page">> # <<"listen">>
    OBVIOUS
  <2> QED
    BY <2>1, <2>2, <2>3
<1>2. n = <<"listen">> => u = v
  BY DEF ValueKept
<1> HIDE DEF m, u
<1>3. /\ Put(d, m, u)[m] = u
      /\ \A k \in DOMAIN d \ {m} : Put(d, m, u)[k] = d[k]
  BY DEF Put
<1>4. Put(d, m, u)[<<"listen">>] = IF n = <<"listen">> THEN v ELSE d[<<"listen">>]
  BY <1>1, <1>2, <1>3
<1> QED
  BY <1>4 DEF m, u

LEMMA HasListen ==
    ASSUME Typed, InStep
    PROVE  /\ <<"listen">> \in DOMAIN blockServer
           /\ blockServer[<<"listen">>] \in DOMAIN PortOf
           /\ \A i \in DOMAIN serverList :
                  /\ serverList[i] # <<>>
                  /\ <<"listen">> \in DOMAIN Head(serverList[i])
                  /\ Head(serverList[i])[<<"listen">>] \in DOMAIN PortOf
BY DEF InStep, NextChecked, ServersChecked, Checked

(* The list a server leaves behind begins with its block. *)
LEMMA ClosingAppended ==
    ASSUME Typed
    PROVE  /\ Len(Append(serverList, Closing)) = Len(serverList) + 1
           /\ DOMAIN serverList = 1..Len(serverList) /\ Len(serverList) \in Nat
           /\ DOMAIN Append(serverList, Closing) = 1..(Len(serverList) + 1)
           /\ \A i \in DOMAIN serverList : Append(serverList, Closing)[i] = serverList[i]
           /\ Head(Append(serverList, Closing)[Len(serverList) + 1]) = blockServer
<1>1. Closing \in Seq(Dictionaries) /\ Head(Closing) = blockServer
  BY SeqsClosed DEF Closing, Typed
<1>2. serverList \in Seq(Seq(Dictionaries))
  BY DEF Typed
<1> QED
  BY <1>1, <1>2

(* No step takes a value that the file does not say. *)
LEMMA PrintedStep ==
    ASSUME PortsPrinted, Typed, InStep, AllPrinted, [ParserNext]_parserVars
    PROVE  AllPrinted'
<1>0. <<"8080">> \notin Padded
  BY DEF PortsPrinted
<1>1. CASE UNCHANGED parserVars
  BY <1>1 DEF AllPrinted, Printed, parserVars, fileVars, headVars, dictVars
<1>2. CASE Write
  <2>1. UNCHANGED <<directive_value, blockServer, serverList>> /\ ahead' \in Phrases
    BY <1>2 DEF Write, WritePhrase, headVars, dictVars
  <2> QED
    BY <2>1 DEF AllPrinted, Printed, PortsPrinted
<1>3. CASE OpenFails \/ EndOfFile
  BY <1>3 DEF OpenFails, EndOfFile, fileVars, headVars, dictVars, AllPrinted, Printed
<1>4. ASSUME NEW word, Read(word)
      PROVE  /\ Printed(ahead')
             /\ \A u \in Padded : word # u[1]
             /\ word \in Words
  BY <1>4, ReadPrinted, ReadTyped DEF Typed, AllPrinted
<1>5. CASE Misplaced \/ BlockServer \/ HasDirectName \/ HasLocation \/ OpenBracket
           \/ Refused \/ CloseLocation \/ CloseOther
  <2> DEFINE Still == UNCHANGED <<directive_value, blockServer, serverList>> /\ \E word : Read(word)
  <2>1. Misplaced => Still
    BY DEF Misplaced, headVars, dictVars
  <2>2. BlockServer => Still
    BY DEF BlockServer, Takes, headVars, dictVars
  <2>3. HasDirectName => Still
    BY DEF HasDirectName, Takes, headVars, dictVars
  <2>4. HasLocation => Still
    BY DEF HasLocation, Takes, headVars, dictVars
  <2>5. OpenBracket => Still
    BY DEF OpenBracket, Takes, headVars, dictVars
  <2>6. Refused => Still
    BY Zenon DEF Refused, headVars, dictVars
  <2>7. CloseLocation => Still
    BY DEF CloseLocation, Takes, headVars, dictVars
  <2>8. CloseOther => Still
    BY DEF CloseOther, Takes, headVars, dictVars
  <2> QED
    BY <1>4, <1>5, <2>1, <2>2, <2>3, <2>4, <2>5, <2>6, <2>7, <2>8 DEF AllPrinted
<1>6. CASE HasValue
  <2>1. /\ Read(Head(ahead)) /\ UNCHANGED <<blockServer, serverList>>
        /\ directive_value' = IF previousToken = "value" THEN Append(directive_value, Head(ahead))
                              ELSE <<Head(ahead)>>
    BY <1>6 DEF HasValue, Takes, dictVars
  <2>2. directive_value \in Texts
    BY DEF Typed
  <2>3. Printed(Append(directive_value, Head(ahead))) /\ Printed(<<Head(ahead)>>)
    BY <1>4, <2>1, <2>2, MorePrinted DEF AllPrinted
  <2> QED
    BY <1>4, <2>1, <2>3 DEF AllPrinted
<1>7. CASE HasSemicolon
  <2>1. /\ Read(Head(ahead)) /\ serverList' = serverList
        /\ ~NotAllowed(directive_name, directive_value, isLocation)
        /\ directive_name \in Texts /\ directive_value \in Texts /\ isLocation \in BOOLEAN
        /\ directive_value' = ValueKept(directive_name, directive_value)
        /\ \/ blockServer' = blockServer
           \/ blockServer' = Put(blockServer, NameKept(directive_name, directive_value),
                                 ValueKept(directive_name, directive_value))
    BY <1>7 DEF HasSemicolon, Takes, Typed
  <2>2. Printed(directive_value')
    <3>1. directive_name = <<"error_page">> => directive_value # <<>>
      <4>1. Len(<<>>) = 0
        OBVIOUS
      <4> QED
        BY <2>1, <4>1 DEF NotAllowed, PageSyntax
    <3> QED
      BY <2>1, <3>1, LessPrinted DEF ValueKept, AllPrinted
  <2>3. directive_value \notin Padded
    BY <2>1, NotPadded DEF AllPrinted
  <2>4. blockServer'[<<"listen">>] \notin Padded
    BY <2>1, <2>3, HasListen, ListenPut DEF AllPrinted
  <2> QED
    BY <1>4, <2>1, <2>2, <2>4 DEF AllPrinted
<1>8. CASE CloseServer \/ CloseServerFails
  <2> DEFINE Closed == /\ \E word : Read(word)
                       /\ directive_value' = directive_value
                       /\ blockServer' \in {blockServer, Defaults}
                       /\ serverList' = Append(serverList, Closing)
  <2>4. CloseServer => Closed
    BY DEF CloseServer, Takes
  <2>5. CloseServerFails => Closed
    BY Zenon DEF CloseServerFails
  <2>1. Closed
    BY <1>8, <2>4, <2>5
  <2>2. blockServer'[<<"listen">>] \notin Padded
    BY <1>0, <2>1, DefaultsTyped DEF AllPrinted
  <2>3. ASSUME NEW i \in DOMAIN serverList'
        PROVE  Head(serverList'[i])[<<"listen">>] \notin Padded
    BY <2>1, <2>3, ClosingAppended DEF AllPrinted
  <2> QED
    BY <1>4, <2>1, <2>2, <2>3 DEF AllPrinted
<1> QED
  BY <1>1, <1>2, <1>3, <1>5, <1>6, <1>7, <1>8 DEF ParserNext

(* Nothing that counts changes. *)
LEMMA PairingKept ==
    ASSUME Pairing, UNCHANGED <<ports, serverList>>,
           blockServer'[<<"listen">>] = blockServer[<<"listen">>],
           Own' = Own, nest' = <<>> => ~listened', Listens' => listened' /\ nest' = <<"server">>
    PROVE  Pairing'
<1>1. PortIn(blockServer)' = PortIn(blockServer) /\ Spare' = Spare
  BY DEF PortIn, Spare
<1> QED
  BY <1>1 DEF Pairing, ListenPlaced, OwnPort, PortsServed, ServersPorted, SpareServed, PortIn

(* A word that begins an item or goes on with it. *)
LEMMA WordPairs ==
    ASSUME Typed, Pairing, NEW word \in Words, UNCHANGED <<nest, ports, serverList, blockServer>>,
           item' = Append(item, word), listened' = IF word = "listen" THEN TRUE ELSE listened,
           word = "listen" => item = <<>> /\ nest = <<"server">> /\ ~listened
    PROVE  Pairing'
<1>1. item \in Texts
  BY DEF Typed, FileTypeOK
<1>3. /\ item' # <<>>
      /\ item = <<>> => Head(item') = word
      /\ item # <<>> => Head(item') = Head(item)
  <2>1. /\ Append(item, word) # <<>>
        /\ item = <<>> => Append(item, word) = <<word>>
        /\ item # <<>> => Head(Append(item, word)) = Head(item)
    BY <1>1, ItemMoves
  <2>2. Head(<<word>>) = word
    OBVIOUS
  <2> QED
    BY <2>1, <2>2
<1>4. CASE word = "listen"
  <2>1. item = <<>> /\ nest = <<"server">> /\ ~listened
    BY <1>4
  <2>2. ~Own /\ ~Own' /\ Listens'
    BY <1>3, <1>4, <2>1 DEF Own, Listens
  <2>3. nest' = <<"server">> /\ listened' = TRUE /\ <<>> # <<"server">>
    BY <1>4, <2>1
  <2>4. /\ Own' = Own /\ (nest' = <<>> => ~listened')
        /\ (Listens' => listened' /\ nest' = <<"server">>)
        /\ blockServer'[<<"listen">>] = blockServer[<<"listen">>]
    BY <2>2, <2>3 DEF Own
  <2> QED
    BY <2>4, PairingKept, Zenon
<1>5. CASE word # "listen"
  <2>1. Listens' = Listens
    BY <1>3, <1>5 DEF Listens
  <2>2. Own' = Own
    BY <1>5, <2>1 DEF Own
  <2>3. listened' = listened
    BY <1>5
  <2> QED
    BY <2>1, <2>2, <2>3, PairingKept DEF Pairing, ListenPlaced
<1> QED
  BY <1>4, <1>5

(* A brace that opens a block. *)
LEMMA OpenPairs ==
    ASSUME Typed, Kept, Pairing, OpenBracket, Fits(Head(ahead))
    PROVE  Pairing'
<1>0. /\ Head(ahead) = "{" /\ Read(Head(ahead)) /\ UNCHANGED <<ports, serverList, blockServer>>
  BY TokenOf, Zenon DEF OpenBracket, Takes
<1>1. UNCHANGED <<ports, serverList, blockServer>> /\ Fits("{")
  BY <1>0, Zenon
<1>2. item' = <<>> /\ nest' = <<Kind>> \o nest /\ listened' = listened
  BY <1>0, Zenon DEF Read
<1>3. ~Listens /\ nest' # <<>>
  <2>1. CASE item = <<"server">> /\ nest = <<>>
    BY <1>2, <2>1, NestMoves DEF Listens
  <2>2. CASE Head(item) = "location" /\ nest = <<"server">>
    BY <1>2, <2>2, NestMoves DEF Listens
  <2> QED
    BY <1>1, <2>1, <2>2, OpensHere, Zenon
<1>4. ~Listens' /\ Own' = Own
  BY <1>2, <1>3 DEF Listens, Own
<1> QED
  BY <1>1, <1>3, <1>4, PairingKept, Zenon

(* What the end of a directive does to the block of the server. *)
LEMMA StoresHere ==
    ASSUME HasSemicolon
    PROVE  blockServer' = IF bracketCounter # 0 /\ ~isLocation
                          THEN Put(blockServer, NameKept(directive_name, directive_value),
                                   ValueKept(directive_name, directive_value))
                          ELSE blockServer
BY Zenon DEF HasSemicolon

(* A directive ends. *)
LEMMA DirectivePairs ==
    ASSUME Typed, InStep, Kept, Pairing, HasSemicolon, Fits(Head(ahead))
    PROVE  Pairing'
<1>0. Head(ahead) = ";" /\ Read(Head(ahead))
  BY TokenOf, Zenon DEF HasSemicolon, Takes
<1>1. /\ serverList' = serverList
      /\ ~NotAllowed(directive_name, directive_value, isLocation) /\ ports' = PortsAfter
  BY Zenon DEF HasSemicolon
<1>2. item' = <<>> /\ nest' = nest /\ listened' = listened
  BY <1>0, Zenon DEF Read
<1>3. /\ item # <<>> /\ directive_name = <<Head(item)>>
      /\ isLocation <=> nest = <<"location", "server">>
  BY <1>0, EndsHere, Zenon
<1>4. ~Listens' /\ (Own' <=> listened)
  BY <1>2 DEF Listens, Own
<1>5. /\ directive_name \in Texts /\ directive_value \in Texts /\ isLocation \in BOOLEAN
      /\ ports \in Seq(Nat) /\ <<"listen">> \in DOMAIN blockServer
  BY HasListen DEF Typed
<1>6. \/ blockServer' = blockServer
      \/ blockServer'[<<"listen">>]
             = IF directive_name = <<"listen">> THEN directive_value ELSE blockServer[<<"listen">>]
  BY <1>1, <1>5, ListenPut, StoresHere
<1>7. directive_name = <<"listen">> <=> Listens
  BY <1>3 DEF Listens
<1>8. CASE ~Listens
  <2>1. ports' = ports /\ blockServer'[<<"listen">>] = blockServer[<<"listen">>]
    BY <1>1, <1>6, <1>7, <1>8 DEF PortsAfter
  <2>2. Own' = Own
    BY <1>4, <1>8 DEF Own
  <2> QED
    BY <1>1, <1>2, <1>4, <2>1, <2>2, PairingKept DEF Pairing, ListenPlaced
<1>9. CASE Listens
  <2>1. listened /\ nest = <<"server">> /\ ~Own /\ Own'
    BY <1>4, <1>9 DEF Pairing, ListenPlaced, Own
  <2>2. bracketCounter # 0 /\ ~isLocation
    BY <1>3, <2>1, NestMoves DEF Kept, Depths
  <2>3. /\ directive_value \in DOMAIN PortOf
        /\ blockServer' = Put(blockServer, NameKept(directive_name, directive_value),
                              ValueKept(directive_name, directive_value))
    BY <1>1, <1>7, <1>9, <2>2, StoresHere DEF NotAllowed
  <2>4. blockServer'[<<"listen">>] = directive_value
    BY <1>1, <1>5, <1>7, <1>9, <2>3, ListenPut
  <2>5. PortIn(blockServer)' = PortOf[directive_value]
    BY <2>4 DEF PortIn
  <2>6. PortOf[directive_value] \in Nat
    BY <2>3, DirectivesAssumption
  <2>7. ports' = Append(ports, PortOf[directive_value])
    BY <1>1, <1>7, <1>9, <2>3 DEF PortsAfter
  <2> DEFINE p == PortOf[directive_value]
  <2>8. /\ Len(ports') = Len(ports) + 1 /\ Len(ports) \in Nat
        /\ DOMAIN ports' = DOMAIN ports \cup {Len(ports) + 1}
        /\ \A k \in DOMAIN ports : ports'[k] = ports[k]
        /\ ports'[Len(ports) + 1] = p
    BY <1>5, <2>6, <2>7
  <2>9. Len(serverList) \in Nat
    BY DEF Typed
  <2> HIDE DEF p
  <2>10. Spare' <=> Spare
    BY <1>1, <2>1, <2>8, <2>9 DEF Spare
  <2>11. \A i \in DOMAIN serverList : PortIn(Head(serverList[i]))' = PortIn(Head(serverList[i]))
    BY <1>1 DEF PortIn
  <2>12. \A k \in DOMAIN ports' :
             \/ ports'[k] = PortIn(blockServer)'
             \/ \E i \in DOMAIN serverList : PortIn(Head(serverList[i])) = ports'[k]
    BY <2>1, <2>5, <2>8 DEF Pairing, PortsServed, p
  <2>13. \A i \in DOMAIN serverList :
             \/ \E k \in DOMAIN ports' : ports'[k] = PortIn(Head(serverList[i]))
             \/ Spare /\ PortIn(Head(serverList[i])) = 8080
    BY <2>8 DEF Pairing, ServersPorted
  <2>14. Len(ports') <= Len(serverList) + 1 /\ \E k \in DOMAIN ports' : ports'[k] = PortIn(blockServer)'
    BY <2>1, <2>5, <2>8, <2>9 DEF Pairing, OwnPort, p
  <2> QED
    BY <1>1, <1>2, <1>4, <2>1, <2>10, <2>11, <2>12, <2>13, <2>14, NestMoves
       DEF Pairing, ListenPlaced, OwnPort, PortsServed, ServersPorted, SpareServed
<1> QED
  BY <1>8, <1>9

(* A server's block is closed. *)
LEMMA ClosePairs ==
    ASSUME Typed, Kept, Pairing, CloseServer, Fits(Head(ahead))
    PROVE  Pairing'
<1>0. Head(ahead) = "}" /\ Read(Head(ahead))
  BY TokenOf, Zenon DEF CloseServer, Takes
<1>1. /\ ports' = ports /\ blockServer' = Defaults
      /\ serverList' = Append(serverList, Closing) /\ bracketCounter = 1
  BY Zenon DEF CloseServer
<1>2. item = <<>> /\ nest = <<"server">>
  <2>1. item = <<>> /\ (nest = <<"server">> \/ bracketCounter = 2)
    BY <1>0, ClosesHere, Zenon
  <2> QED
    BY <1>1, <2>1
<1>3. item' = <<>> /\ nest' = <<>> /\ listened' = FALSE
  <2>1. item' = <<>> /\ nest' = Tail(nest) /\ listened' = FALSE
    BY <1>0, <1>2, NestMoves, Zenon DEF Read
  <2> QED
    BY <1>2, <2>1, NestMoves
<1>4. ~Listens /\ ~Listens' /\ ~Own' /\ (Own <=> listened)
  BY <1>2, <1>3 DEF Listens, Own
<1>5. /\ Len(serverList') = Len(serverList) + 1 /\ Len(serverList) \in Nat
      /\ DOMAIN serverList' = DOMAIN serverList \cup {Len(serverList) + 1}
      /\ \A i \in DOMAIN serverList : serverList'[i] = serverList[i]
      /\ Head(serverList'[Len(serverList) + 1]) = blockServer
      /\ Len(ports) \in Nat
  BY <1>1, ClosingAppended DEF Typed
<1>6. /\ \A i \in DOMAIN serverList : PortIn(Head(serverList'[i])) = PortIn(Head(serverList[i]))
      /\ PortIn(Head(serverList'[Len(serverList) + 1])) = PortIn(blockServer)
  BY <1>5
<1>7. ~Own => PortIn(blockServer) = 8080
  BY DirectivesAssumption DEF Pairing, OwnPort, PortIn
<1>8. (Spare => Spare') /\ (~Own => Spare')
  BY <1>1, <1>4, <1>5 DEF Spare, Pairing, OwnPort
<1>9. \A k \in DOMAIN ports : \E i \in DOMAIN serverList' : PortIn(Head(serverList'[i])) = ports[k]
  BY <1>5, <1>6 DEF Pairing, PortsServed
<1>10. \A i \in DOMAIN serverList' :
           \/ \E k \in DOMAIN ports : ports[k] = PortIn(Head(serverList'[i]))
           \/ Spare' /\ PortIn(Head(serverList'[i])) = 8080
  <2>1. ASSUME NEW i \in DOMAIN serverList
        PROVE  \/ \E k \in DOMAIN ports : ports[k] = PortIn(Head(serverList'[i]))
               \/ Spare' /\ PortIn(Head(serverList'[i])) = 8080
    BY <1>6, <1>8 DEF Pairing, ServersPorted
  <2>2. \/ \E k \in DOMAIN ports : ports[k] = PortIn(blockServer)
        \/ Spare' /\ PortIn(blockServer) = 8080
    BY <1>7, <1>8 DEF Pairing, OwnPort
  <2> QED
    BY <1>5, <1>6, <2>1, <2>2
<1>11. Len(ports) <= Len(serverList')
  BY <1>5 DEF Pairing, OwnPort
<1>12. blockServer'[<<"listen">>] = <<"8080">>
  BY <1>1, DefaultsTyped
<1>13. Spare' => \E i \in DOMAIN serverList' : PortIn(Head(serverList'[i])) = 8080
  <2>1. CASE Own
    <3>1. Spare' => Spare
      BY <1>1, <1>4, <1>5, <2>1 DEF Spare
    <3> QED
      BY <1>5, <1>6, <3>1 DEF Pairing, SpareServed
  <2>2. CASE ~Own
    BY <1>5, <1>6, <1>7, <2>2
  <2> QED
    BY <2>1, <2>2
<1>14. ListenPlaced'
  BY <1>3, <1>4 DEF ListenPlaced
<1>15. OwnPort'
  BY <1>1, <1>4, <1>11, <1>12 DEF OwnPort
<1>16. PortsServed'
  BY <1>1, <1>9 DEF PortsServed, PortIn
<1>17. ServersPorted'
  BY <1>1, <1>10 DEF ServersPorted, PortIn
<1>18. SpareServed'
  BY <1>13 DEF SpareServed, PortIn
<1> QED
  BY <1>14, <1>15, <1>16, <1>17, <1>18 DEF Pairing

(* Where a tidy file has its "listen". *)
LEMMA ListenFits ==
    ASSUME NEW word, Fits(word), word = "listen"
    PROVE  item = <<>> /\ nest = <<"server">> /\ ~listened
BY Zenon DEF Fits, Keywords, Reserved

(* Every turn of the parser keeps ports and servers paired. *)
LEMMA PairedStep ==
    ASSUME Typed, InStep, PortsPaired, [ParserNext]_parserVars
    PROVE  PortsPaired'
<1>1. CASE UNCHANGED parserVars
  BY <1>1 DEF parserVars, fileVars, headVars, dictVars, PortsPaired, Pairing, ListenPlaced,
     OwnPort, PortsServed, ServersPorted, SpareServed, Spare, Own, Listens, PortIn
<1>2. CASE Write
  BY <1>2 DEF Write, WritePhrase, headVars, dictVars, PortsPaired, Pairing, ListenPlaced,
     OwnPort, PortsServed, ServersPorted, SpareServed, Spare, Own, Listens, PortIn
<1>3. CASE EndOfFile
  BY <1>3 DEF EndOfFile, fileVars, headVars, dictVars, PortsPaired, Pairing, ListenPlaced,
     OwnPort, PortsServed, ServersPorted, SpareServed, Spare, Own, Listens, PortIn
<1>4. CASE OpenFails \/ Misplaced \/ Refused \/ CloseServerFails
  <2>1. outcome' \notin {"parsing", "ok"}
    BY <1>4, Zenon DEF OpenFails, Misplaced, Refused, CloseServerFails
  <2> QED
    BY <2>1 DEF PortsPaired
<1>5. CASE \/ BlockServer \/ HasDirectName \/ HasLocation \/ HasValue
           \/ OpenBracket \/ HasSemicolon \/ CloseServer \/ CloseLocation \/ CloseOther
  <2> SUFFICES ASSUME tidy'
               PROVE  Pairing'
    BY DEF PortsPaired
  <2>1. Read(Head(ahead)) /\ outcome = "parsing"
    BY <1>5, Zenon DEF BlockServer, HasDirectName, HasLocation, HasValue, OpenBracket,
       HasSemicolon, CloseServer, CloseLocation, CloseOther, Takes
  <2>2. tidy /\ Fits(Head(ahead))
    BY <2>1, Zenon DEF Read
  <2>3. Kept
    BY <2>1, <2>2 DEF InStep, Aligned, Kept
  <2>4. Pairing
    BY <2>1, <2>2 DEF PortsPaired
  <2>5. CASE BlockServer \/ HasDirectName \/ HasLocation \/ HasValue
    <3> DEFINE word == Head(ahead)
    <3>1. word \notin {"{", "}", ";"}
      BY <2>5, TokenOf, Zenon
         DEF BlockServer, HasDirectName, HasLocation, HasValue, Takes
    <3>2. UNCHANGED <<ports, serverList, blockServer>>
      BY <2>5, Zenon DEF BlockServer, HasDirectName, HasLocation, HasValue, dictVars
    <3>3. word \in Words
      BY <2>1, ReadTyped DEF Typed
    <3>4. /\ nest' = nest /\ item' = Append(item, word)
          /\ listened' = IF word = "listen" THEN TRUE ELSE listened
      BY <2>1, <3>1, Zenon DEF Read
    <3>5. word = "listen" => item = <<>> /\ nest = <<"server">> /\ ~listened
      <4> HIDE DEF word
      <4> QED
        BY <2>2, ListenFits DEF word
    <3> HIDE DEF word
    <3> QED
      BY <2>4, <3>2, <3>3, <3>4, <3>5, WordPairs
  <2>6. CASE OpenBracket
    BY <2>2, <2>3, <2>4, <2>6, OpenPairs
  <2>7. CASE HasSemicolon
    BY <2>2, <2>3, <2>4, <2>7, DirectivePairs
  <2>8. CASE CloseServer
    BY <2>2, <2>3, <2>4, <2>8, ClosePairs
  <2>9. CASE CloseLocation \/ CloseOther
    <3>1. Head(ahead) = "}"
      BY <2>9, TokenOf, Zenon DEF CloseLocation, CloseOther, Takes
    <3>2. /\ item = <<>>
          /\ \/ nest = <<"server">> /\ bracketCounter = 1
             \/ nest = <<"location", "server">> /\ isLocation
      BY <2>2, <2>3, <3>1, ClosesHere, Zenon
    <3>3. bracketCounter # 1 /\ UNCHANGED <<ports, serverList, blockServer>>
      BY <2>9, Zenon DEF CloseLocation, CloseOther, dictVars
    <3>4. nest = <<"location", "server">>
      BY <3>2, <3>3
    <3>5. item' = <<>> /\ nest' = Tail(nest) /\ listened' = listened
      BY <2>1, <3>1, <3>4, NestMoves, Zenon DEF Read
    <3>6. nest' = <<"server">> /\ ~Listens' /\ Own' = Own
      BY <3>2, <3>4, <3>5, NestMoves DEF Listens, Own
    <3>7. nest' = <<>> => ~listened'
      BY <3>6, NestMoves
    <3> QED
      BY <2>4, <3>3, <3>6, <3>7, PairingKept, Zenon
  <2> QED
    BY <1>5, <2>5, <2>6, <2>7, <2>8, <2>9
<1> QED
  BY <1>1, <1>2, <1>3, <1>4, <1>5 DEF ParserNext

(* buildServers takes the ports in their order, and the default after them. *)
LEMMA StartStep ==
    ASSUME Typed, Paired, listServer \in Seq(Nat), [Next]_vars
    PROVE  Paired' /\ listServer' \in Seq(Nat)
<1>0. ports \in Seq(Nat) /\ Len(ports) \in Nat /\ Len(serverList) \in Nat /\ Len(listServer) \in Nat
  BY DEF Typed
<1>1. CASE Parse
  <2>1. stage = "config" /\ listServer = <<>> /\ UNCHANGED <<stage, listServer>>
    BY <1>1 DEF Parse, startVars, Paired
  <2> QED
    BY <2>1 DEF Paired
<1>2. CASE Configured
  <2>1. /\ stage = "config" /\ listServer' = <<>> /\ UNCHANGED <<serverList, ports, outcome>>
        /\ stage' \in {"building", "exited", "terminated"}
        /\ stage' = "building" => outcome = "ok"
    BY <1>2 DEF Configured, Paired, parserVars, dictVars, Typed
  <2>2. Len(listServer') = 0 /\ DOMAIN listServer' = {}
    BY <2>1
  <2> QED
    BY <1>0, <2>1, <2>2 DEF Paired
<1>3. CASE SetupServer
  <2>1. /\ stage = "building" /\ Len(listServer) < Len(serverList)
        /\ listServer' = Append(listServer, NextPort)
        /\ UNCHANGED <<stage, serverList, ports, outcome>>
    BY <1>3 DEF SetupServer, More, Nfds, parserVars, dictVars
  <2>2. /\ NextPort \in Nat
        /\ NextPort = IF Len(listServer) + 1 <= Len(ports)
                      THEN ports[Len(listServer) + 1] ELSE 8080
    BY <1>0 DEF NextPort, Nfds
  <2> DEFINE p == NextPort
  <2>3. /\ listServer' \in Seq(Nat) /\ Len(listServer') = Len(listServer) + 1
        /\ DOMAIN listServer' = DOMAIN listServer \cup {Len(listServer) + 1}
        /\ \A k \in DOMAIN listServer : listServer'[k] = listServer[k]
        /\ listServer'[Len(listServer) + 1] = p
    BY <2>1, <2>2
  <2> HIDE DEF p
  <2> QED
    BY <1>0, <2>1, <2>2, <2>3 DEF Paired, p
<1>4. CASE SetupFails \/ SetupOverflows \/ Launch \/ UNCHANGED vars
  <2>1. /\ UNCHANGED <<listServer, serverList, ports, outcome>>
        /\ \/ stage' = stage
           \/ stage' \in {"exited", "undefined"}
           \/ stage = "building" /\ stage' = "launched" /\ Len(listServer) = Len(serverList)
    BY <1>4 DEF SetupFails, SetupOverflows, Launch, Nfds, vars, parserVars, dictVars, startVars
  <2> QED
    BY <2>1 DEF Paired
<1> QED
  BY <1>1, <1>2, <1>3, <1>4 DEF Next

(* What the three say of a server that is launched. *)
LEMMA PairedPorts ==
    ASSUME PortsPrinted, Typed, InStep, AllPrinted, PortsPaired, Paired, listServer \in Seq(Nat)
    PROVE  PortsHaveBlocks
<1> SUFFICES ASSUME stage = "launched", tidy, nest = <<>>
             PROVE  /\ \A i \in DOMAIN listServer : Finds(listServer[i])
                    /\ \A i \in DOMAIN serverList :
                           \E j \in DOMAIN listServer :
                               listServer[j] = PortOf[serverList[i][1][<<"listen">>]]
  BY DEF PortsHaveBlocks
<1>1. /\ Len(listServer) = Len(serverList)
      /\ \A k \in DOMAIN listServer : listServer[k] = IF k <= Len(ports) THEN ports[k] ELSE 8080
      /\ Pairing /\ ~Own
  BY DEF Paired, PortsPaired, Pairing, ListenPlaced, Own
<1>2. /\ DOMAIN listServer = 1..Len(serverList) /\ DOMAIN ports = 1..Len(ports)
      /\ DOMAIN serverList = 1..Len(serverList)
      /\ Len(ports) \in Nat /\ Len(serverList) \in Nat /\ Len(ports) <= Len(serverList)
  BY <1>1 DEF Typed, Pairing, OwnPort
<1>3. ASSUME NEW i \in DOMAIN serverList
      PROVE  /\ Finds(PortIn(Head(serverList[i])))
             /\ PortIn(Head(serverList[i])) = PortOf[serverList[i][1][<<"listen">>]]
  <2>1. /\ <<"listen">> \in DOMAIN Head(serverList[i])
        /\ Head(serverList[i])[<<"listen">>] \in DOMAIN PortOf \ Padded
        /\ serverList[i] # <<>> /\ serverList[i] \in Seq(Dictionaries)
    BY HasListen DEF AllPrinted, Typed
  <2>2. Head(serverList[i]) = serverList[i][1] /\ 1 \in DOMAIN serverList[i]
    BY <2>1
  <2> QED
    BY <2>1, <2>2 DEF Finds, PortIn
<1>4. ASSUME NEW k \in DOMAIN listServer
      PROVE  Finds(listServer[k])
  <2>1. CASE k <= Len(ports)
    <3>1. k \in DOMAIN ports /\ listServer[k] = ports[k]
      BY <1>1, <1>2, <2>1
    <3>2. PICK i \in DOMAIN serverList : PortIn(Head(serverList[i])) = ports[k]
      BY <1>1, <3>1 DEF Pairing, PortsServed
    <3> QED
      BY <1>3, <3>1, <3>2
  <2>2. CASE ~(k <= Len(ports))
    <3>1. Spare /\ listServer[k] = 8080
      BY <1>1, <1>2, <2>2 DEF Spare
    <3>2. PICK i \in DOMAIN serverList : PortIn(Head(serverList[i])) = 8080
      BY <1>1, <3>1 DEF Pairing, SpareServed
    <3> QED
      BY <1>3, <3>1, <3>2
  <2> QED
    BY <2>1, <2>2
<1>5. ASSUME NEW i \in DOMAIN serverList
      PROVE  \E j \in DOMAIN listServer : listServer[j] = PortIn(Head(serverList[i]))
  <2>1. CASE \E k \in DOMAIN ports : ports[k] = PortIn(Head(serverList[i]))
    BY <1>1, <1>2, <2>1
  <2>2. CASE Spare /\ PortIn(Head(serverList[i])) = 8080
    <3>1. Len(ports) + 1 \in DOMAIN listServer
      BY <1>1, <1>2, <2>2 DEF Spare
    <3>2. listServer[Len(ports) + 1] = 8080
      BY <1>1, <1>2, <3>1
    <3> QED
      BY <2>2, <3>1, <3>2
  <2> QED
    BY <1>1, <2>1, <2>2 DEF Pairing, ServersPorted
<1> QED
  BY <1>3, <1>4, <1>5

-----------------------------------------------------------------------------
(* The theorems *)

(* The variables of the parser and of buildServers keep their types, whatever  *)
(* the file is made of.                                                        *)
THEOREM TypeCorrect == Spec => []TypeOK
<1>1. Typed => TypeOK
  <2>1. \A d \in Dictionaries : Dictionary(d)
    BY DEF Dictionaries, Dictionary
  <2> SUFFICES ASSUME Typed PROVE TypeOK
    OBVIOUS
  <2>2. \A i \in DOMAIN singleList : Dictionary(singleList[i])
    BY <2>1, SeqsClosed DEF Typed
  <2>3. \A i \in DOMAIN serverList : \A j \in DOMAIN serverList[i] : Dictionary(serverList[i][j])
    BY <2>1 DEF Typed
  <2> QED
    BY <2>1, <2>2, <2>3 DEF Typed, TypeOK
<1> QED
  BY <1>1, StartupParses, ParserInvariance, PTL

(* A server's list begins with its own block, with a port that is opened or    *)
(* the default one and a root that exists, of whatever the file is made        *)
(* (hasSemicolon, openBracket, push_someWhere).                                *)
THEOREM ServersAlwaysChecked == Spec => []ServersChecked
<1>1. InStep => ServersChecked
  BY DEF InStep
<1> QED
  BY <1>1, StartupParses, ParserInvariance, PTL

(* The pages processRequest relies on are there when the server is launched    *)
(* (verrify_error_page).                                                       *)
THEOREM PagesAlwaysWhereRooted == Spec => []PagesWhereRooted
<1>1. ParserInit => PagesWhereRooted
  BY DEF ParserInit, PagesWhereRooted
<1>2. Typed /\ PagesWhereRooted /\ [ParserNext]_parserVars => PagesWhereRooted'
  BY PagesStep
<1> QED
  BY <1>1, <1>2, StartupParses, ParserInvariance, PTL DEF ParserSpec

(* The invariant both of the others rest on: while the file keeps the layout   *)
(* the counter, the flag and the token know the block the parser is in.        *)
THEOREM ParserKnowsWhere == Spec => []InStep
BY StartupParses, ParserInvariance, PTL

(* Of a file of any length that keeps the layout every directive goes to its   *)
(* block and every block to its server (parse, with all its handlers).         *)
THEOREM ConfigRefines == Spec => ImplementsLayout
<1>1. ParserInit => Layout!LayoutInit
  BY SameFile, SameDirectives DEF ParserInit, Layout!LayoutInit
<1>2. (Typed /\ InStep) /\ [ParserNext]_parserVars => [Layout!LayoutNext]_(Layout!layoutVars)
  BY LayoutStep
<1> QED
  BY <1>1, <1>2, StartupParses, ParserInvariance, PTL
     DEF ImplementsLayout, Layout!LayoutSpec, ParserSpec

(* Of a file that keeps the layout, of any length, every port that is opened  *)
(* has its block and every block its port, if ports are written as numbers    *)
(* are printed (checkPort, closeBracket, buildServers, getInfo).              *)
THEOREM PortsAlwaysHaveBlocks ==
    ASSUME PortsPrinted
    PROVE  Spec => []PortsHaveBlocks
<1> DEFINE PInv == AllPrinted /\ PortsPaired /\ Paired /\ listServer \in Seq(Nat)
<1>1. Init => PInv
  <2> SUFFICES ASSUME Init
               PROVE  PInv
    OBVIOUS
  <2> USE DEF Init, ParserInit, FileInit
  <2>1. AllPrinted
    BY DefaultsTyped DEF AllPrinted, Printed, PortsPrinted
  <2>2. ~Listens /\ ~Own /\ ~Spare
    BY DEF Listens, Own, Spare
  <2>3. Pairing
    BY <2>2, DefaultsTyped
       DEF Pairing, ListenPlaced, OwnPort, PortsServed, ServersPorted, SpareServed
  <2> QED
    BY <2>1, <2>3 DEF PortsPaired, Paired
<1>2. (Typed /\ InStep) /\ PInv /\ [ParserNext]_parserVars /\ [Next]_vars => PInv'
  BY PrintedStep, PairedStep, StartStep
<1>3. (Typed /\ InStep) /\ PInv => PortsHaveBlocks
  BY PairedPorts
<1> QED
  BY <1>1, <1>2, <1>3, StartupParses, ParserInvariance, PTL DEF Spec, ParserSpec
=============================================================================
