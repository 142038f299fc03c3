-------------------------------- MODULE Texts --------------------------------
(***************************************************************************)
(* Texts and maps of texts, as std::string and std::map handle them in     *)
(* parseText and remove_headers.  A text is a sequence of symbols: what    *)
(* the code compares with something is a symbol of its own, the rest of a  *)
(* word is one too.                                                        *)
(***************************************************************************)
EXTENDS Naturals, Sequences, SequencesExt, TLC

CRLF == <<"CR", "LF">>
BlankLine == CRLF \o CRLF

\* The position of the first symbol x, or 0 (std::string::find).
Find(s, x) == SelectInSeq(s, LAMBDA y : y = x)

From(s, i) == SubSeq(s, i, Len(s))

\* getline: what stands before the first x, or all; and what is left.
Until(s, x) == IF Find(s, x) = 0 THEN s ELSE SubSeq(s, 1, Find(s, x) - 1)
After(s, x) == IF Find(s, x) = 0 THEN <<>> ELSE From(s, Find(s, x) + 1)

\* The first position of one text in another, or 0.
Position(s, t) ==
    LET places == {i \in DOMAIN s : IsPrefix(t, From(s, i))}
    IN  IF places = {} THEN 0 ELSE CHOOSE i \in places : \A j \in places : i <= j

\* A loop of so many turns, each of which begins where the last one ended.
Loop(Turn(_), start, turns) ==
    LET at[k \in 0..turns] == IF k = 0 THEN start ELSE Turn(at[k - 1])
    IN  at[turns]

\* A map reads as "" where it has no entry; its keys are texts.
Value(map, key) == IF key \in DOMAIN map THEN map[key] ELSE <<>>
Put(map, key, value) ==
    [k \in DOMAIN map \cup {key} |-> IF k = key THEN value ELSE map[k]]
=============================================================================
