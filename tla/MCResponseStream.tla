--------------------------- MODULE MCResponseStream ---------------------------
(* Instances of ResponseStream. The stop sequences overlap themselves, each  *)
(* other and the beginning of the links.                                     *)
EXTENDS ResponseStream

MCLinks == <<"n", "l">>
MCPieces == {<<"a">>, <<"a", "b">>, <<"b">>, <<"f">>}
MCStops == {{}, {<<"a", "a", "b">>, <<"b", "b">>}, {<<"n">>}}

MCModes ==
    [explicit: BOOLEAN, stream: {TRUE}, api: {"claude", "openai"}, stops: MCStops]
        \cup [explicit: BOOLEAN, stream: {FALSE}, api: {"claude"}, stops: {{}}]
=============================================================================
