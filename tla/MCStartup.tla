----------------------------- MODULE MCStartup -----------------------------
(* Startup on small instances: the phrases files are put together of. *)
EXTENDS Startup, TLC

MCWords == Reserved \cup {"www", "tmp", "80", "81", "8080", "08080", "73616", "/a", "/x", "a", "b",
                       "c", "x", "403", "404", "lost", "gone"}
MCDirectories == {<<"tmp">>}
MCPortOf == <<"8080">> :> 8080 @@ <<"80">> :> 80 @@ <<"81">> :> 81 @@ <<"08080">> :> 8080 @@ <<"73616">> :> 73616
MCPadded == {<<"08080">>}
MCAbsolute == {"/x"}
MCLexicon == <<"403", "404">>
MCPages == {<<<<"www">>, <<"lost">>>>, <<<<"tmp">>, <<"gone">>>>}

Servers == {<<"server", "{">>, <<"server", "{", "listen", "80", ";">>,
            <<"server", "{", "listen", "81", ";", "}">>}
Locations == {<<"location", "/a", "{">>}
Plain == {<<"}">>, <<"listen", "80", ";">>, <<"index", "a", ";">>, <<"root", "tmp", ";">>}
ErrorPages == {<<"error_page", "404", "lost", ";">>, <<"error_page", "403", "gone", ";">>}
Values == {<<"return", "b", ";">>, <<"listen", "x", ";">>, <<"error_page", "404", "/x", ";">>}
Loose == {<<"location", "{">>, <<"{">>, <<"index", "c">>, <<"listen", "80", "{">>}

LaidOut == Servers \cup Locations \cup Plain
AnyPhrases == LaidOut \cup ErrorPages \cup Values \cup Loose
\* Files that keep the layout are among those of these phrases.
Stray == LaidOut \cup ErrorPages
Paged == {<<"server", "{">>, <<"location", "/a", "{">>, <<"}">>, <<"root", "tmp", ";">>,
          <<"error_page", "403", "gone", ";">>}
OddPorts == Servers \cup {<<"}">>, <<"listen", "73616", ";">>, <<"listen", "08080", ";">>}
=============================================================================
