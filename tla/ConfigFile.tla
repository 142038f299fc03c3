----------------------------- MODULE ConfigFile -----------------------------
(***************************************************************************)
(* The configuration file, as whoever wrote it meant it: a sequence of     *)
(* words in blocks in braces.  It is written phrase by phrase while the    *)
(* parser reads it, and ends after any phrase.                             *)
(*                                                                         *)
(* tidy says whether the file has kept the layout of the files in configs/ *)
(* so far: servers outside any block, locations in servers, one "listen"   *)
(* per server at most and none elsewhere.  Nothing forces a file to be tidy.*)
(***************************************************************************)
EXTENDS ConfigDirectives

CONSTANTS
    Phrases,    \* what a file is put together of, sequences of words
    MaxPhrases  \* phrases in a file

ASSUME FileAssumption == Phrases \subseteq Texts /\ MaxPhrases \in Nat

VARIABLES
    ahead,     \* words that are written and not yet read
    written,   \* phrases written
    nest,      \* the blocks around the next word, the innermost one first
    item,      \* the words since the last brace or semicolon
    listened,  \* the server around has its "listen"
    tidy       \* the layout has been kept

fileVars == <<ahead, written, nest, item, listened, tidy>>

FileTypeOK ==
    /\ ahead \in Texts
    /\ written \in 0..MaxPhrases
    /\ nest \in Seq({"server", "location", "other"})
    /\ item \in Texts
    /\ listened \in BOOLEAN /\ tidy \in BOOLEAN

FileInit ==
    /\ ahead = <<>> /\ written = 0
    /\ nest = <<>> /\ item = <<>>
    /\ listened = FALSE /\ tidy = TRUE

\* The layout lets word stand here.
Fits(word) ==
    \/ word = "server" /\ item = <<>> /\ nest = <<>>
    \/ word = "location" /\ item = <<>> /\ nest = <<"server">>
    \/ word = "listen" /\ item = <<>> /\ nest = <<"server">> /\ ~listened
    \/ word \in Keywords \ {"listen"} /\ item = <<>>
    \/ word \notin Reserved /\ item # <<>> /\ Head(item) \in Keywords
    \/ word \notin Reserved /\ item = <<"location">>
    \/ word = "{" /\ item = <<"server">>
    \/ word = "{" /\ Len(item) = 2 /\ Head(item) = "location"
    \/ word = ";" /\ Len(item) > 1 /\ Head(item) \in Keywords
    \/ word = "}" /\ item = <<>> /\ nest # <<>>

\* The block that a brace opens here.
Kind == IF item # <<>> /\ Head(item) \in {"server", "location"} THEN Head(item) ELSE "other"

WritePhrase ==
    /\ ahead = <<>> /\ written < MaxPhrases
    /\ written' = written + 1
    /\ ahead' \in Phrases
    /\ UNCHANGED <<nest, item, listened, tidy>>

\* The next word is taken in.
Read(word) ==
    /\ ahead # <<>> /\ word = Head(ahead)
    /\ ahead' = Tail(ahead)
    /\ tidy' = (tidy /\ Fits(word))
    /\ nest' = IF word = "{" THEN <<Kind>> \o nest
               ELSE IF word = "}" /\ nest # <<>> THEN Tail(nest) ELSE nest
    /\ item' = IF word \in {"{", "}", ";"} THEN <<>> ELSE Append(item, word)
    /\ listened' = IF word = "listen" THEN TRUE
                   ELSE IF word = "}" /\ nest = <<"server">> THEN FALSE ELSE listened
    /\ UNCHANGED written
=============================================================================
