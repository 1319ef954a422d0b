------------------------------ MODULE MCOutline ------------------------------
EXTENDS Outline

MCPythonLines == [kind : {"class", "def", "other"}, depth : 0..2]

MCRustLines ==
    {<<"impl", "{">>, <<"fn", "{">>, <<"fn", "{", "}">>, <<"struct">>, <<"fn", ";">>,
     <<"{">>, <<"}">>, <<"x", "{">>, <<"x", "/*", "}">>, <<"*/", "fn", "{">>,
     <<"x", "quote", "{", "quote", "//", "}">>}

Line(deep, kinds) == [kind : kinds, deep : {deep}]

MCRstLines ==
    Line(FALSE, {"blank", "=", "-", "text", "hash", "fence", "code", "note", "other", "comment"})
        \union Line(TRUE, {"text", "item", "comment"})

=============================================================================
