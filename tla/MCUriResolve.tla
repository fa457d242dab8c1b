---------------------------- MODULE MCUriResolve ----------------------------
(* The bases and the references TLC resolves: every relative path over      *)
(* Alphabet up to MaxLen characters, and references of the other kinds.     *)
EXTENDS UriResolve

CONSTANTS Alphabet, MaxLen

MCBases == {<<"a", ":", "/">>, <<"a", ":", "/", "b", "/", "d">>,
            <<"a", ":", "/", "/", "h">>, <<"a", ":", "/", "/", "h", "/", "b", "/", "/">>,
            <<"a", ":", "b">>}
Others == {<<"#", "c">>, <<"?", "c">>, <<"c", "?", "c", "#", "c">>, <<"c", ":", "c">>,
           <<"/", "/", "h", "/", "c">>}
MCRels == Others \cup UNION {[1..k -> Alphabet] : k \in 1..MaxLen}
=============================================================================
