---------------------------- MODULE MCAsyncLibrary ----------------------------
(***************************************************************************)
(* Two threads use two contexts, h1 in two calls of receive, h2 in one.    *)
(* The chunks cut lines and blocks at different places.                    *)
(***************************************************************************)
EXTENDS AsyncLibrary

CONSTANTS h1, h2

MCContexts == {h1, h2}
MCMaxCalls == [x \in MCContexts |-> IF x = h1 THEN 2 ELSE 1]
MCChunks == {<<"x">>, <<"\n", "{", "\n">>, <<"x", "\n", "}", "\n", "}", "\n">>}
=============================================================================
