-------------------------- MODULE ConfigDirectives --------------------------
(***************************************************************************)
(* Directives of a configuration file: a name and a value are sequences of *)
(* words (the text with spaces between them), a block of directives is a   *)
(* function from names to values, as the std::map is.                      *)
(***************************************************************************)
EXTENDS Integers, Sequences

CONSTANTS
    Words,        \* what a file is made of
    Home,         \* the working directory with /www
    Directories,  \* values that name a directory
    PortOf,       \* the number a value of digits stands for
    Absolute,     \* words that begin with a slash
    Pages,        \* pairs of a directory and a file that is in it
    Lexicon       \* words, in the order std::map keeps texts in

Texts == Seq(Words)

\* The directives that is_key_word knows.
Keywords == {"listen", "server_name", "root", "error_page", "autoindex", "client_max_body_size",
             "index", "allow_methods", "allow", "cgi", "fastcgi_pass", "fastcgi_param",
             "return", "cli_max_size", "cgi_pass"}
Reserved == Keywords \cup {"server", "location", "{", "}", ";"}

ASSUME DirectivesAssumption ==
    /\ Reserved \subseteq Words /\ Home \in Words /\ "8080" \in Words
    /\ Directories \subseteq Texts
    /\ DOMAIN PortOf \subseteq Texts /\ \A v \in DOMAIN PortOf : PortOf[v] \in Nat
    /\ <<"8080">> \in DOMAIN PortOf /\ PortOf[<<"8080">>] = 8080
    /\ Lexicon \in Seq(Words)

Empty == [n \in {} |-> <<>>]
Put(dictionary, n, v) ==
    [m \in DOMAIN dictionary \cup {n} |-> IF m = n THEN v ELSE dictionary[m]]

\* _defautConfig; its other entries are kept like these two.
Defaults == Put(Put(Empty, <<"listen">>, <<"8080">>), <<"root">>, <<Home>>)

PageSyntax(v) == Len(v) > 1 /\ v[2] \notin Absolute

\* not_allow throws.
NotAllowed(n, v, inLocation) ==
    \/ n = <<"return">> /\ ~inLocation
    \/ n = <<"root">> /\ v \notin Directories
    \/ n = <<"listen">> /\ (v \notin DOMAIN PortOf \/ inLocation)
    \/ n = <<"autoindex">> /\ v \notin {<<"on">>, <<"off">>}
    \/ n = <<"error_page">> /\ ~PageSyntax(v)

\* What modify_name_error_page makes of a directive.
NameKept(n, v) == IF n = <<"error_page">> THEN <<"error_page", v[1]>> ELSE n
ValueKept(n, v) == IF n = <<"error_page">> THEN Tail(v) ELSE v

-----------------------------------------------------------------------------
(* Error pages of a server: a sequence of blocks, its own the first. *)

PageNames(dictionary) == {n \in DOMAIN dictionary : Head(n) = "error_page"}

\* The order of std::map: "error_page" alone is the first.
Before(n, m) ==
    \/ Len(n) < Len(m)
    \/ Len(n) = 2 /\ Len(m) = 2
           /\ \E i, j \in DOMAIN Lexicon : i < j /\ Lexicon[i] = n[2] /\ Lexicon[j] = m[2]

\* The error page of a block that there_error_page finds, the first by name.
FirstPage(dictionary) ==
    dictionary[CHOOSE n \in PageNames(dictionary) :
                   \A m \in PageNames(dictionary) \ {n} : Before(n, m)]

\* Mutant: roots of locations are not looked at.
RootSeenFirst(blocks, i) == blocks[1][<<"root">>]

\* root_location at block i: it is left as it was for a block without a root.
RootSeen(blocks, i) ==
    LET Rooted == {j \in 1..i : PageNames(blocks[j]) # {} /\ <<"root">> \in DOMAIN blocks[j]}
    IN  IF Rooted = {} THEN blocks[1][<<"root">>]
        ELSE blocks[CHOOSE j \in Rooted : \A k \in Rooted : k <= j][<<"root">>]

\* verrify_error_page throws.
PageMissing(blocks) ==
    \E i \in DOMAIN blocks :
        /\ PageNames(blocks[i]) # {}
        /\ <<RootSeen(blocks, i), FirstPage(blocks[i])>> \notin Pages
=============================================================================
