---------------------------- MODULE MCDirectory ----------------------------
(***************************************************************************)
(* Instances of Directory: a root, another directory and a file.  Names    *)
(* have at most two characters.                                            *)
(***************************************************************************)
EXTENDS Directory

MCType == <<"kDirectory", "kDirectory", "kFile">>

MCCharacters == {"a", "b", ".", Slash, Nul}

MCLinks == {<< <<"a">>, 2>>, << <<"a", "b">>, 3>>, << <<"a", "b", "a">>, 3>>}

MCPaths == {<<>>, <<"/">>, <<"a">>, <<"/", "a", "b">>, <<"/", "/", "a", "/", "/", "a", "b", "/">>,
            <<"a", "/", ".", ".", "/">>, <<"/", ".", "/", "a">>, <<"a", "b", "a">>,
            <<"a", "b", "/", "a">>, <<"/", "a", "/", "a">>}
=============================================================================
